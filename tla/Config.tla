------------------------------- MODULE Config -------------------------------
(***************************************************************************)
(* cmd/tndrl/cli.go and main.go: the settings of a command, from its       *)
(* flags, the environment and one YAML file.                               *)
(*                                                                         *)
(* kong (external) parses flags and environment into one CLI struct, yaml  *)
(* the file into another, and MergeCLIInPlace fills the zero values of the *)
(* first from the second; ApplyDefaults fills what is still zero.  The     *)
(* rules depend on the kind of a field only, so there is one field of each *)
(* kind here:                                                              *)
(*   addr       a string with a default of ApplyDefaults                   *)
(*   logLevel   a string with a default of kong's                          *)
(*   provider   a string without a default                                 *)
(*   init       a bool                                                     *)
(*   streaming  a pointer to a bool                                        *)
(* Each source gives all of them alike: not at all, explicitly as the zero *)
(* value ("" or false), or as a value that tells the sources apart.        *)
(***************************************************************************)

Fields == {"addr", "logLevel", "provider", "init", "streaming"}
Pointers == {"streaming"}
Strings == {"addr", "logLevel", "provider"}

\* How a command is called
Lines == [{"flags", "env", "file"} -> {"absent", "zero", "set"}]

\* The value of a field that nothing was assigned to, and an explicit zero
Unset(f) ==
    IF f \in Pointers THEN "nil" ELSE IF f \in Strings THEN "" ELSE "false"
ExplicitZero(f) == IF f \in Pointers THEN "false" ELSE Unset(f)

ProviderOf == [flags |-> "echo", env |-> "ollama", file |-> "mcphost"]

\* What a source gives for a field, in a line where it gives something
Gives(line, s, f) ==
    IF line[s] = "zero" THEN ExplicitZero(f)
    ELSE IF f = "provider" THEN ProviderOf[s]
    ELSE IF f \in Strings THEN s ELSE "true"

-----------------------------------------------------------------------------
(* A bug in one operation, used to confirm that the properties see it. *)
BugFileWins(cli, file) ==
    [f \in Fields |-> IF file[f] = Unset(f) THEN cli[f] ELSE file[f]]
-----------------------------------------------------------------------------

\* The default tags of the CLI struct
TagDefault(f) == IF f = "logLevel" THEN "info" ELSE Unset(f)

\* kong.Parse: flags before environment before the tags
Parse(line) ==
    [f \in Fields |->
        IF line["flags"] # "absent" THEN Gives(line, "flags", f)
        ELSE IF line["env"] # "absent" THEN Gives(line, "env", f)
        ELSE TagDefault(f)]

\* LoadConfigFile
Unmarshal(line) ==
    [f \in Fields |->
        IF line["file"] # "absent" THEN Gives(line, "file", f) ELSE Unset(f)]

\* MergeCLIInPlace
Merge(cli, file) ==
    [f \in Fields |-> IF cli[f] = Unset(f) THEN file[f] ELSE cli[f]]

Default(f) ==
    CASE f = "addr" -> "[::]:4433"
      [] f = "streaming" -> "true"
      [] OTHER -> Unset(f)

ApplyDefaults(cli) ==
    [f \in Fields |-> IF cli[f] = Unset(f) THEN Default(f) ELSE cli[f]]

\* main
Settings(line) == ApplyDefaults(Merge(Parse(line), Unmarshal(line)))

-----------------------------------------------------------------------------
(* docs/configuration.md *)

\* "CLI flags > environment variables > config file > defaults"
Decisive(line) ==
    IF line["flags"] # "absent" THEN "flags"
    ELSE IF line["env"] # "absent" THEN "env" ELSE "file"

Documented(line, f) ==
    IF line[Decisive(line)] # "absent" THEN Gives(line, Decisive(line), f)
    ELSE IF f = "logLevel" THEN "info" ELSE Default(f)

\* Where the code does otherwise.  An explicit zero value counts as none, but
\* for a pointer: "--pki-init=false" does not override "init: true" of the file.
\* And the file cannot set logLevel, as the default of its flag is in the way.
Deviates(line, f) ==
    \/ f \notin Pointers /\ line[Decisive(line)] = "zero"
    \/ f = "logLevel" /\ Decisive(line) = "file"

\* Every setting is what the documented precedence makes of flags, environment
\* and file, whatever each of them gives, but for what Deviates names.
PrecedenceHolds ==
    \A line \in Lines : \A f \in Fields :
        Settings(line)[f] # Documented(line, f) => Deviates(line, f)
=============================================================================
