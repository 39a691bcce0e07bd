------------------------------- MODULE SetupEnv -------------------------------
(***************************************************************************)
(* The provider setup that the web page saves: setup-env.ts and the setup  *)
(* routes of apps/daemon/src/app.ts.  A call reads the daemon's env file,  *)
(* replaces or removes one managed block of it, writes the whole file, and *)
(* then applies the change to the running daemon.  The file is read and    *)
(* written asynchronously, so that two calls may overlap; writeFile        *)
(* empties the file before it writes, and the daemon may die in between.   *)
(*                                                                         *)
(* A value stands for all the settings of a block.  The order and lengths  *)
(* of the blocks are not modelled: what an interrupted or an overlapped    *)
(* write leaves of them is a choice.  The environment of the process sets  *)
(* none of the managed variables itself.                                   *)
(***************************************************************************)
EXTENDS Naturals

CONSTANTS Calls,      \* requests that may be under way at the same time
          Values,
          None,       \* the block is absent; nothing is installed
          Cut         \* one of the block's two markers is missing

Blocks == {"provider", "roles"}

Assumptions == None \notin Values /\ Cut \notin Values /\ None # Cut

VARIABLES envFile,  \* what the file holds of each block
          running,  \* the daemon is up
          env,      \* openAICompatibleEnv, by block
          runtime,  \* what runs use: the key, the adapter, the generators
          call,     \* how far each request is
          saved     \* history: what the answered calls have saved, or Unsettled
                    \* once calls have overlapped or one was interrupted

vars == <<envFile, running, env, runtime, call, saved>>

Operations == {[block |-> b, value |-> v] : b \in Blocks, v \in Values}
                \cup {[block |-> "roles", value |-> None]}

Idle == [step |-> "idle"]

Absent == [b \in Blocks |-> None]

Unsettled == [b \in Blocks |-> Cut]

\* All that createOpenAICompatibleRunRegistries makes of one provider setup.
Installed(v) == [key |-> v, adapter |-> v, generators |-> v]

Init == /\ envFile = Absent
        /\ running = TRUE
        /\ env = Absent
        /\ runtime = Installed(None)
        /\ call = [c \in Calls |-> Idle]
        /\ saved = Absent

Quiet == \A c \in Calls : call[c] = Idle

\* Mutant: the block becomes the whole file.
Merged_Overwrites(content, op) == [Absent EXCEPT ![op.block] = op.value]

\* mergeDaemonEnvBlock and removeDaemonEnvBlock of a block that is not cut.
Merged(content, op) == [content EXCEPT ![op.block] = op.value]

(***************************************************************************)
(* A request reads the file.  It fails when its own block is cut, and      *)
(* skips the write when there is nothing to remove.                        *)
(***************************************************************************)
Read(c, op) ==
  /\ running
  /\ call[c] = Idle
  /\ envFile[op.block] # Cut
  /\ call' = [call EXCEPT ![c] =
       [step |-> IF op.value = None /\ envFile[op.block] = None THEN "apply" ELSE "open",
        op |-> op, content |-> Merged(envFile, op)]]
  /\ saved' = IF Quiet THEN saved ELSE Unsettled
  /\ UNCHANGED <<envFile, running, env, runtime>>

GoTo(c, step) == call' = [call EXCEPT ![c].step = step]

\* writeFile opens the file with truncation.
Open(c) ==
  /\ call[c].step = "open"
  /\ envFile' = Absent
  /\ GoTo(c, "write")
  /\ UNCHANGED <<running, env, runtime, saved>>

\* What a file holds after new content is written over what another call wrote
\* since the truncation: a tail of that may stick out behind the new content.
Overlaid(new, old) ==
  {f \in [Blocks -> Values \cup {None, Cut}] :
     \A b \in Blocks : IF new[b] # None \/ old[b] = None
                       THEN f[b] = new[b]
                       ELSE f[b] \in {None, old[b], Cut}}

Write(c) ==
  /\ call[c].step = "write"
  /\ envFile' \in Overlaid(call[c].content, envFile)
  /\ GoTo(c, "apply")
  /\ UNCHANGED <<running, env, runtime, saved>>

\* Part of a content: a prefix of it, in whatever order its blocks come.
PartsOf(content) ==
  {f \in [Blocks -> Values \cup {None, Cut}] :
     /\ \A b \in Blocks : f[b] \in {None, content[b]} \cup
                                   (IF content[b] = None THEN {} ELSE {Cut})
     /\ \E b \in Blocks : f[b] # Cut}

\* writeFile rejects after it has written a part, and the request fails.
WriteFails(c) ==
  /\ call[c].step = "write"
  /\ \E part \in PartsOf(call[c].content) : envFile' \in Overlaid(part, envFile)
  /\ call' = [call EXCEPT ![c] = Idle]
  /\ saved' = Unsettled
  /\ UNCHANGED <<running, env, runtime>>

(***************************************************************************)
(* What follows the write, in one step: the setup is applied to env and    *)
(* the request is answered.  Of a provider setup, the runs get the key, an *)
(* adapter in place of the last one (installParticipantAdapter replaces),  *)
(* and generators where there are none (installExtractionGenerator and its *)
(* siblings return when the id is known).                                  *)
(***************************************************************************)
InstalledOver(v) ==
  [key |-> v, adapter |-> v,
   generators |-> IF runtime.generators = None THEN v ELSE runtime.generators]

Apply(c) ==
  /\ call[c].step = "apply"
  /\ LET op == call[c].op
     IN  /\ env' = [env EXCEPT ![op.block] = op.value]
         /\ saved' = IF saved = Unsettled THEN saved ELSE [saved EXCEPT ![op.block] = op.value]
         /\ runtime' = IF op.block = "provider" THEN InstalledOver(op.value) ELSE runtime
  /\ call' = [call EXCEPT ![c] = Idle]
  /\ UNCHANGED <<envFile, running>>

Stop ==
  /\ running
  /\ running' = FALSE
  /\ env' = Absent
  /\ runtime' = Installed(None)
  /\ call' = [c \in Calls |-> Idle]
  /\ saved' = IF \A c \in Calls : call[c].step \in {"idle", "open"} THEN saved ELSE Unsettled
  /\ UNCHANGED envFile

\* The env of a start: role defaults alone do not enable the profile, and then
\* createDaemonApp gets none of them.
Loaded(file) == IF file["provider"] = None THEN Absent ELSE file

\* loadManagedDaemonSetupEnvFile in startDaemon; a cut block makes it throw.
Start ==
  /\ ~running
  /\ \A b \in Blocks : envFile[b] # Cut
  /\ running' = TRUE
  /\ env' = Loaded(envFile)
  /\ runtime' = Installed(envFile["provider"])
  /\ UNCHANGED <<envFile, call, saved>>

Next == \/ \E c \in Calls : \/ \E op \in Operations : Read(c, op)
                            \/ Open(c)
                            \/ Write(c)
                            \/ WriteFails(c)
                            \/ Apply(c)
        \/ Stop
        \/ Start

Spec == Init /\ [][Next]_vars
-----------------------------------------------------------------------------
TypeOK ==
  /\ envFile \in [Blocks -> Values \cup {None, Cut}]
  /\ running \in BOOLEAN
  /\ env \in [Blocks -> Values \cup {None}]
  /\ runtime \in [{"key", "adapter", "generators"} -> Values \cup {None}]
  /\ \A c \in Calls : \/ call[c] = Idle
                      \/ /\ call[c].step \in {"open", "write", "apply"}
                         /\ call[c].op \in Operations
                         /\ call[c].content \in [Blocks -> Values \cup {None, Cut}]
  /\ saved \in [Blocks -> Values \cup {None}] \cup {Unsettled}

\* What was saved is there after the next start, as the answer to a setup says
\* ("The daemon will also load the managed local setup block on the next start."),
\* as long as calls come one after the other and none is interrupted.  Role
\* defaults are, once a provider is set up.
SetupSurvivesRestart ==
  saved # Unsettled /\ Quiet =>
    /\ Loaded(envFile)["provider"] = saved["provider"]
    /\ saved["provider"] # None => Loaded(envFile)["roles"] = saved["roles"]

\* A daemon that no call is changing uses one setup, the one it reports ("The
\* setup was applied to the current local daemon process.").
SetupInUse == Quiet => runtime = Installed(env["provider"])
=============================================================================
