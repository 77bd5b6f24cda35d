------------------------------ MODULE Startup ------------------------------
(***************************************************************************)
(* How a process comes up, from its command line to the provider: main     *)
(* (cmd/tndrl/main.go), the TLS set-up of PKI, and for a daemon ListenMux, *)
(* CreateLLMProvider (cli.go) and NewMCPHostProvider (pkg/llm/mcphost.go)  *)
(* with its temporary file.                                                *)
(*                                                                         *)
(* A setting is looked at where the code first uses it, so that it is not  *)
(* kept in the state: --pki-init at the start, the provider's settings in  *)
(* CreateProvider.  A start that follows "up" has killed what was up.      *)
(***************************************************************************)
EXTENDS PKI, Config

VARIABLES
    serve,      \* where each daemon is after its TLS set-up
    temp        \* the temporary files, named after the start that made them

startupVars == <<serve, temp>>

StartupInit ==
    /\ Init
    /\ serve = [p \in Servers |-> "none"]
    /\ temp = {}

-----------------------------------------------------------------------------
(* A bug in one operation, used to confirm that the properties see it. *)
BugKeepFile(p) == UNCHANGED temp
-----------------------------------------------------------------------------
(* main *)

\* The values that a field can have, whatever the command line
Possible(f) == {Settings(line)[f] : line \in Lines}
InitValues == Possible("init")
ProviderValues == Possible("provider")

Restart(p) == serve' = [s \in Servers |-> IF s = p THEN "none" ELSE serve[s]]

StartWith(p, init) ==
    /\ Start(p, init = "true")
    /\ Restart(p)
    /\ UNCHANGED temp

\* The configuration file is missing, no YAML or of an unknown version.
ConfigError(p) ==
    /\ ~Active(p)
    /\ starts[p] < MaxStarts[p]
    /\ starts' = [starts EXCEPT ![p] = @ + 1]
    /\ Goto(p, "failed")
    /\ Restart(p)
    /\ UNCHANGED <<own, file, half, mem, temp>>

-----------------------------------------------------------------------------
(* ServeCmd.Run *)

Serve(p, from, to) ==
    /\ pc[p] = "up"
    /\ serve[p] = from
    /\ serve' = [serve EXCEPT ![p] = to]
    /\ UNCHANGED vars

Listen(p) ==
    /\ \E to \in {"create", "failed"} : Serve(p, "none", to)
    /\ UNCHANGED temp

\* CreateLLMProvider: there is a model or not, and for mcphost a file of the
\* user or not.
CreateOther(p, provider, model) ==
    /\ Serve(p, "create", IF provider = "echo" THEN "echo"
                          ELSE IF provider = "ollama" /\ model THEN "ollama"
                          ELSE "failed")
    /\ UNCHANGED temp

\* The user's file is used as it is; otherwise one is created, or cannot be.
CreateMCPHost(p, model, mcpConfigFile) ==
    \/ /\ ~model
       /\ Serve(p, "create", "failed")
       /\ UNCHANGED temp
    \/ /\ model /\ mcpConfigFile
       /\ Serve(p, "create", "new")
       /\ UNCHANGED temp
    \/ /\ model /\ ~mcpConfigFile
       /\ \/ Serve(p, "create", "write") /\ temp' = temp \cup {Fresh(p)}
          \/ Serve(p, "create", "failed") /\ UNCHANGED temp

CreateProvider(p, provider) ==
    \E model, mcpConfigFile \in BOOLEAN :
        IF provider = "mcphost" THEN CreateMCPHost(p, model, mcpConfigFile)
                                ELSE CreateOther(p, provider, model)

\* os.Remove of the file that was created, if one was
RemoveTemp(p) == temp' = temp \ {Fresh(p)}

\* writeTempConfig, once the file exists, and then sdk.New
WriteConfig(p) ==
    \/ Serve(p, "write", "new") /\ UNCHANGED temp
    \/ Serve(p, "write", "failed") /\ RemoveTemp(p)

NewHost(p) ==
    \/ Serve(p, "new", "mcphost") /\ UNCHANGED temp
    \/ Serve(p, "new", "failed") /\ RemoveTemp(p)

-----------------------------------------------------------------------------

StartupNext ==
    \/ \E p \in Processes : \/ \E init \in InitValues : StartWith(p, init)
                            \/ ConfigError(p)
                            \/ (Setup(p) \/ Kill(p)) /\ UNCHANGED startupVars
    \/ \E p \in Servers : \/ Listen(p)
                          \/ \E v \in ProviderValues : CreateProvider(p, v)
                          \/ WriteConfig(p) \/ NewHost(p)

startVars == <<vars, startupVars>>
StartupSpec ==
    /\ StartupInit /\ [][StartupNext]_startVars
    /\ \A p \in Processes : WF_vars(Setup(p))

-----------------------------------------------------------------------------
(* Properties *)

\* The settings that the processes of this machine may start from are those
\* of the documented precedence, but for the deviations that Config names.  As
\* they depend on nothing a process does, this is said of the machine before
\* the first start.
SettingsAsDocumented ==
    (\A p \in Processes : starts[p] = 0) => PrecedenceHolds

\* A daemon whose start failed has left no temporary file behind, at whichever
\* step of creating the provider it failed.
FailedStartLeavesNothing ==
    \A p \in Servers : serve[p] = "failed" => Fresh(p) \notin temp
=============================================================================
