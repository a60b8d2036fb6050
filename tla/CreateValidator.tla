-------------------------- MODULE CreateValidator --------------------------
(***************************************************************************)
(* handleCreateValidator of wallet-manager.js.  A request to create a      *)
(* validator runs "show-validator" in a child process, writes the data of  *)
(* the request to a temporary file named by the clock, runs                *)
(* "create-validator" on that file in a second child process, and removes  *)
(* the file in that process's callback.  Callbacks of several requests     *)
(* interleave; two of them in the same millisecond use the same name.  A   *)
(* restart of the server loses the callbacks, while the child processes go *)
(* on.                                                                     *)
(***************************************************************************)
EXTENDS Integers

CONSTANTS
  Req,      \* requests to /validator/create, by identity
  MaxClock, \* bound: milliseconds
  Nothing   \* no file, nothing read

ASSUME CreateAssumption == MaxClock \in Nat /\ Nothing \notin Req \cup Nat

VARIABLES
  clock,   \* milliseconds
  step,    \* per request: where its handler is ("new", "show", "shown",
           \* "create", "created", "end"), or "orphan": only its second child
           \* process is left
  stamp,   \* per request: the clock when it wrote its file, or Nothing
  file,    \* per name: the request whose data the file holds, or Nothing
  read,    \* per request: whose data its create-validator command has read
  exit0,   \* the requests whose running or last child process succeeded
  answer,  \* per request: "none", "ok", "error", or "lost" with the server
  cut      \* history: requests that wrote a file and will not remove it

vars == <<clock, step, stamp, file, read, exit0, answer, cut>>

Init ==
  /\ clock = 0
  /\ step = [r \in Req |-> "new"]
  /\ stamp = [r \in Req |-> Nothing]
  /\ file = [t \in 0..MaxClock |-> Nothing]
  /\ read = [r \in Req |-> Nothing]
  /\ exit0 = {}
  /\ answer = [r \in Req |-> "none"]
  /\ cut = {}

Tick ==
  /\ clock < MaxClock
  /\ clock' = clock + 1
  /\ UNCHANGED <<step, stamp, file, read, exit0, answer, cut>>

Go(r, from, to) == step[r] = from /\ step' = [step EXCEPT ![r] = to]

Receive(r) ==
  /\ Go(r, "new", "show")
  /\ UNCHANGED <<clock, stamp, file, read, exit0, answer, cut>>

(* The first child process ends, well or not.                              *)
ShowValidator(r) ==
  /\ Go(r, "show", "shown")
  /\ exit0' \in {exit0 \cup {r}, exit0 \ {r}}
  /\ UNCHANGED <<clock, stamp, file, read, answer, cut>>

Reply(r, a) == answer' = [answer EXCEPT ![r] = a]

(* Mutant of FileName: one name for all files.                             *)
OneName(t) == 0

(* /tmp/validator_<milliseconds>.json                                      *)
FileName(t) == t

FileOf(r) == FileName(stamp[r])

WriteFile(r) ==
  /\ stamp' = [stamp EXCEPT ![r] = clock]
  /\ file' = [file EXCEPT ![FileName(clock)] = r]

(* Its callback.  The catch block answers whatever goes wrong: before the  *)
(* file is there, as the public key is not JSON or the file cannot be      *)
(* made; or when it is, as writing it breaks off or exec throws, and then  *)
(* nobody removes it.                                                      *)
OnShown(r) ==
  /\ \/ /\ r \in exit0
        /\ Go(r, "shown", "create")
        /\ WriteFile(r)
        /\ UNCHANGED <<answer, cut>>
     \/ /\ Go(r, "shown", "end")
        /\ Reply(r, "error")
        /\ UNCHANGED <<stamp, file, cut>>
     \/ /\ r \in exit0
        /\ Go(r, "shown", "end")
        /\ WriteFile(r)
        /\ Reply(r, "error")
        /\ cut' = cut \cup {r}
  /\ UNCHANGED <<clock, read, exit0>>

(* The second child process reads the file, if it is there, and ends.      *)
RunCreate(r) ==
  /\ Go(r, "create", "created") \/ Go(r, "orphan", "end")
  /\ read' = [read EXCEPT ![r] = file[FileOf(r)]]
  /\ exit0' \in IF file[FileOf(r)] = Nothing THEN {exit0 \ {r}}
                ELSE {exit0 \cup {r}, exit0 \ {r}}
  /\ UNCHANGED <<clock, stamp, file, answer, cut>>

(* Mutant of Removed: the file is removed if the command succeeded.        *)
RemovedIfOk(r) ==
  IF r \in exit0 THEN [file EXCEPT ![FileOf(r)] = Nothing] ELSE file

(* The file is removed first, and before the error is looked at.           *)
Removed(r) == [file EXCEPT ![FileOf(r)] = Nothing]

(* Mutant of AnswerOf: an error is not answered.                           *)
AnswerIfOk(r) == IF r \in exit0 THEN "ok" ELSE "none"

AnswerOf(r) == IF r \in exit0 THEN "ok" ELSE "error"

(* Its callback.  An error of the removal itself is only logged.           *)
OnCreated(r) ==
  /\ Go(r, "created", "end")
  /\ \/ file' = Removed(r) /\ UNCHANGED cut
     \/ UNCHANGED file /\ cut' = cut \cup {r}
  /\ Reply(r, AnswerOf(r))
  /\ UNCHANGED <<clock, stamp, read, exit0>>

AtWork == {r \in Req : step[r] \in {"show", "shown", "create", "created"}}

(* The server stops and starts, which takes more than a millisecond.       *)
RestartServer ==
  /\ AtWork # {}
  /\ clock < MaxClock
  /\ clock' = clock + 1
  /\ step' = [r \in Req |-> IF step[r] = "create" THEN "orphan"
                            ELSE IF r \in AtWork THEN "end" ELSE step[r]]
  /\ answer' = [r \in Req |-> IF r \in AtWork THEN "lost" ELSE answer[r]]
  /\ cut' = cut \cup {r \in AtWork : stamp[r] # Nothing}
  /\ UNCHANGED <<stamp, file, read, exit0>>

Next ==
  \/ Tick
  \/ RestartServer
  \/ \E r \in Req : \/ Receive(r) \/ ShowValidator(r) \/ OnShown(r)
                    \/ RunCreate(r) \/ OnCreated(r)

Spec == Init /\ [][Next]_vars

(* Child processes end and callbacks run.                                  *)
FairSpec ==
  /\ Spec
  /\ \A r \in Req : WF_vars(ShowValidator(r) \/ OnShown(r) \/ RunCreate(r) \/ OnCreated(r))

-----------------------------------------------------------------------------
SameTime(r, s) == stamp[r] = stamp[s]

OwnDataUnlessSameTime ==
  \A r \in Req : read[r] # Nothing => SameTime(r, read[r])

FileLostToSameTime ==
  \A r \in Req :
    step[r] \in {"create", "orphan"} /\ file[FileOf(r)] = Nothing =>
      \E s \in Req \ {r} : step[s] = "end" /\ s \notin cut /\ SameTime(r, s)

(* Requests interfere within one millisecond only: a command creates its   *)
(* validator from the data of its own request or of one that wrote its     *)
(* file at the same time, never from what an earlier one left, also when a *)
(* restart or a failure has left files; and a command that finds no file   *)
(* lost it to a request of the same time whose callback has removed it.    *)
InterfereAtSameTimeOnly == OwnDataUnlessSameTime /\ FileLostToSameTime

(* A temporary file is left over only by a request whose second callback   *)
(* did not run (the server was restarted, or exec threw after the file was *)
(* written) or could not remove it: whatever other requests do with files  *)
(* of that name, the request whose data is in a file is still to remove    *)
(* it, or has been cut off.                                                *)
FilesHaveRemover ==
  \A t \in 0..MaxClock : file[t] # Nothing =>
    step[file[t]] \in {"create", "created"} \/ file[t] \in cut

(* Every request that is received is answered, unless the server restarts  *)
(* while it waits; a failure of any step is answered.                      *)
EveryRequestAnswered ==
  \A r \in Req : step[r] = "show" ~> answer[r] \in {"ok", "error", "lost"}
=============================================================================
