--------------------------- MODULE HandlerProofs ---------------------------
(***************************************************************************)
(* Two handlers of the wallet server.                                      *)
(*                                                                         *)
(* For any number of requests and milliseconds: requests to create a       *)
(* validator interfere within one millisecond only, and temporary files    *)
(* are left over by requests that were cut off only.  The invariant says   *)
(* who has written the files that are there, when a request has a name for *)
(* its file, and that who was cut off has no callback left.                *)
(*                                                                         *)
(* For any chain and any limits: a page of the listing of transactions is  *)
(* in order, and of what the node gives the first page has the newest and  *)
(* a search finds all.  The scan and the sort are sequences of blocks with *)
(* falling heights that are joined; what was scanned and what the          *)
(* reference has agree on more than a page.                                *)
(***************************************************************************)
EXTENDS CreateValidator, TxListing, FoldTheorems, SequenceTheorems

-----------------------------------------------------------------------------
(* Creating a validator.                                                   *)

Types ==
  /\ clock \in 0..MaxClock
  /\ step \in [Req -> {"new", "show", "shown", "create", "created", "orphan", "end"}]
  /\ stamp \in [Req -> (0..MaxClock) \cup {Nothing}]
  /\ file \in [0..MaxClock -> Req \cup {Nothing}]
  /\ read \in [Req -> Req \cup {Nothing}]
  /\ cut \subseteq Req

(* A request has a name from the time when it writes its file.             *)
Stamped ==
  \A r \in Req :
    /\ step[r] \in {"new", "show", "shown"} => stamp[r] = Nothing
    /\ step[r] \in {"create", "created", "orphan"} => stamp[r] # Nothing

(* A file has the name that its writer gave it.                            *)
FilesOwned ==
  \A t \in 0..MaxClock : file[t] # Nothing => stamp[file[t]] = t

(* Who has read a file had a name for it, that of its writer.              *)
ReadsStamped ==
  \A r \in Req :
    read[r] # Nothing => stamp[r] # Nothing /\ stamp[r] = stamp[read[r]]

(* Who is cut off has no callback left.                                    *)
CutIsOver == \A r \in cut : step[r] \in {"orphan", "end"}

IInv ==
  /\ Types
  /\ Stamped
  /\ FilesOwned
  /\ ReadsStamped
  /\ CutIsOver
  /\ FileLostToSameTime
  /\ FilesHaveRemover

-----------------------------------------------------------------------------
(* Nothing is no name.                                                     *)
LEMMA NothingIsNoName == Nothing \notin 0..MaxClock /\ Nothing \notin Req
  BY CreateAssumption

LEMMA InitIInv == Init => IInv
  BY CreateAssumption
  DEF Init, IInv, Types, Stamped, FilesOwned, ReadsStamped, CutIsOver,
      FileLostToSameTime, FilesHaveRemover

LEMMA TickKeepsIInv ==
  ASSUME IInv, Tick
  PROVE  IInv'
  <1>1. Types'
    BY CreateAssumption DEF IInv, Types, Tick
  <1>2. UNCHANGED <<step, stamp, file, read, cut>>
    BY DEF Tick
  <1>3. QED
    BY <1>1, <1>2
    DEF IInv, Stamped, FilesOwned, ReadsStamped, CutIsOver, FileLostToSameTime,
        FilesHaveRemover, SameTime, FileOf, FileName

(* A step of the handler that touches no file.                             *)
LEMMA GoKeepsIInv ==
  ASSUME IInv, NEW r \in Req, NEW from, NEW to, Go(r, from, to),
         \/ from = "new" /\ to = "show"
         \/ from = "show" /\ to = "shown"
         \/ from = "shown" /\ to = "end",
         UNCHANGED <<clock, stamp, file, read, cut>>
  PROVE  IInv'
  <1>1. /\ step' = [step EXCEPT ![r] = to]
        /\ step[r] \in {"new", "show", "shown"}
        /\ to \in {"show", "shown", "end"}
    BY DEF Go
  <1>2. Types'
    BY <1>1 DEF IInv, Types
  <1>3. Stamped' /\ CutIsOver'
    BY <1>1 DEF IInv, Types, Stamped, CutIsOver, Go
  <1>4. FilesOwned' /\ ReadsStamped'
    BY DEF IInv, FilesOwned, ReadsStamped
  <1>5. FileLostToSameTime'
    BY <1>1 DEF IInv, Types, FileLostToSameTime, SameTime, FileOf, FileName
  <1>6. FilesHaveRemover'
    BY <1>1 DEF IInv, Types, FilesHaveRemover
  <1>7. QED
    BY <1>2, <1>3, <1>4, <1>5, <1>6 DEF IInv

(* A file is written under the current time; its command is started, or    *)
(* the request ends and leaves it.                                         *)
LEMMA WriteKeepsIInv ==
  ASSUME IInv, NEW r \in Req, NEW to, Go(r, "shown", to), WriteFile(r),
         \/ to = "create" /\ cut' = cut
         \/ to = "end" /\ cut' = cut \cup {r},
         UNCHANGED <<clock, read>>
  PROVE  IInv'
  <1>1. /\ step' = [step EXCEPT ![r] = to]
        /\ step[r] = "shown" /\ stamp[r] = Nothing
        /\ clock \in 0..MaxClock /\ clock # Nothing /\ r # Nothing
        /\ file' = [file EXCEPT ![clock] = r]
        /\ stamp' = [stamp EXCEPT ![r] = clock]
        /\ read' = read
    BY NothingIsNoName DEF Go, WriteFile, FileName, IInv, Types, Stamped
  <1>2. Types'
    BY <1>1 DEF IInv, Types
  <1>3. Stamped' /\ CutIsOver'
    BY <1>1 DEF IInv, Types, Stamped, CutIsOver
  <1>4. FilesOwned'
    <2> SUFFICES ASSUME NEW t \in 0..MaxClock, file'[t] # Nothing
                 PROVE  stamp'[file'[t]] = t
      BY DEF FilesOwned
    <2>1. CASE t = clock
      BY <1>1, <2>1 DEF IInv, Types
    <2>2. CASE t # clock
      <3>1. file'[t] = file[t] /\ file[t] \in Req /\ stamp[file[t]] = t
        BY <1>1, <2>2 DEF IInv, Types, FilesOwned
      <3>2. file[t] # r
        BY <3>1, <1>1, NothingIsNoName
      <3>3. QED
        BY <1>1, <3>1, <3>2 DEF IInv, Types
    <2>3. QED
      BY <2>1, <2>2
  <1>5. ReadsStamped'
    <2> SUFFICES ASSUME NEW q \in Req, read[q] # Nothing
                 PROVE  stamp'[q] # Nothing /\ stamp'[q] = stamp'[read[q]]
      BY <1>1 DEF ReadsStamped
    <2>1. read[q] \in Req /\ stamp[q] # Nothing /\ stamp[q] = stamp[read[q]]
      BY DEF IInv, Types, ReadsStamped
    <2>2. q # r /\ read[q] # r
      BY <2>1, <1>1
    <2>3. QED
      BY <1>1, <2>1, <2>2 DEF IInv, Types
  <1>6. FileLostToSameTime'
    <2> SUFFICES ASSUME NEW q \in Req, step'[q] \in {"create", "orphan"},
                        file'[stamp'[q]] = Nothing
                 PROVE  \E s \in Req \ {q} :
                          step'[s] = "end" /\ s \notin cut' /\ stamp'[q] = stamp'[s]
      BY DEF FileLostToSameTime, SameTime, FileOf, FileName
    <2>1. q # r
      BY <1>1 DEF IInv, Types
    <2>2. /\ step[q] \in {"create", "orphan"}
          /\ stamp'[q] = stamp[q] /\ stamp[q] \in 0..MaxClock
      BY <1>1, <2>1 DEF IInv, Types, Stamped
    <2>3. file[stamp[q]] = Nothing
      BY <1>1, <2>2 DEF IInv, Types
    <2>4. PICK s \in Req \ {q} : step[s] = "end" /\ s \notin cut /\ stamp[q] = stamp[s]
      BY <2>2, <2>3 DEF IInv, FileLostToSameTime, SameTime, FileOf, FileName
    <2>5. s # r
      BY <2>4, <1>1
    <2>6. QED
      BY <1>1, <2>2, <2>4, <2>5 DEF IInv, Types
  <1>7. FilesHaveRemover'
    <2> SUFFICES ASSUME NEW t \in 0..MaxClock, file'[t] # Nothing
                 PROVE  step'[file'[t]] \in {"create", "created"} \/ file'[t] \in cut'
      BY DEF FilesHaveRemover
    <2>1. CASE t = clock
      BY <1>1, <2>1 DEF IInv, Types
    <2>2. CASE t # clock
      <3>1. file'[t] = file[t] /\ file[t] \in Req
        BY <1>1, <2>2 DEF IInv, Types
      <3>2. step[file[t]] \in {"create", "created"} \/ file[t] \in cut
        BY <3>1 DEF IInv, FilesHaveRemover
      <3>3. CASE file[t] \in cut
        BY <3>1, <3>3
      <3>4. CASE step[file[t]] \in {"create", "created"}
        BY <1>1, <3>1, <3>4 DEF IInv, Types
      <3>5. QED
        BY <3>2, <3>3, <3>4
    <2>3. QED
      BY <2>1, <2>2
  <1>8. QED
    BY <1>2, <1>3, <1>4, <1>5, <1>6, <1>7 DEF IInv

LEMMA RunCreateKeepsIInv ==
  ASSUME IInv, NEW r \in Req, RunCreate(r)
  PROVE  IInv'
  <1>1. PICK to \in {"created", "end"} :
           /\ step' = [step EXCEPT ![r] = to]
           /\ \/ step[r] = "create" /\ to = "created"
              \/ step[r] = "orphan" /\ to = "end"
    BY DEF RunCreate, Go
  <1>2. /\ stamp[r] \in 0..MaxClock
        /\ read' = [read EXCEPT ![r] = file[stamp[r]]]
        /\ UNCHANGED <<clock, stamp, file, cut>>
    BY <1>1 DEF RunCreate, FileOf, FileName, IInv, Types, Stamped
  <1>3. Types'
    BY <1>1, <1>2 DEF IInv, Types
  <1>4. Stamped' /\ FilesOwned' /\ CutIsOver'
    BY <1>1, <1>2 DEF IInv, Types, Stamped, FilesOwned, CutIsOver
  <1>5. ReadsStamped'
    BY <1>2, NothingIsNoName DEF IInv, Types, ReadsStamped, FilesOwned
  <1>6. FileLostToSameTime'
    BY <1>1, <1>2 DEF IInv, Types, FileLostToSameTime, SameTime, FileOf, FileName
  <1>7. FilesHaveRemover'
    <2> SUFFICES ASSUME NEW t \in 0..MaxClock, file[t] # Nothing
                 PROVE  step'[file[t]] \in {"create", "created"} \/ file[t] \in cut
      BY <1>2 DEF FilesHaveRemover
    <2>1. step[file[t]] \in {"create", "created"} \/ file[t] \in cut
      BY DEF IInv, FilesHaveRemover
    <2>2. QED
      BY <1>1, <2>1 DEF IInv, Types
  <1>8. QED
    BY <1>3, <1>4, <1>5, <1>6, <1>7 DEF IInv

(* The file of a request is removed as it ends, or stays.                  *)
LEMMA OnCreatedKeepsIInv ==
  ASSUME IInv, NEW r \in Req, OnCreated(r)
  PROVE  IInv'
  <1>1. /\ step' = [step EXCEPT ![r] = "end"]
        /\ step[r] = "created"
        /\ stamp[r] \in 0..MaxClock
        /\ UNCHANGED <<clock, stamp, read>>
    BY DEF OnCreated, Go, IInv, Types, Stamped
  <1>2. \/ file' = [file EXCEPT ![stamp[r]] = Nothing] /\ cut' = cut
        \/ file' = file /\ cut' = cut \cup {r}
    BY DEF OnCreated, Removed, FileOf, FileName
  <1>3. r \notin cut
    BY <1>1 DEF IInv, CutIsOver
  <1>4. Types'
    BY <1>1, <1>2 DEF IInv, Types
  <1>5. Stamped' /\ ReadsStamped' /\ CutIsOver'
    BY <1>1, <1>2 DEF IInv, Types, Stamped, ReadsStamped, CutIsOver
  <1>6. FilesOwned'
    BY <1>1, <1>2 DEF IInv, Types, FilesOwned
  <1>7. FileLostToSameTime'
    <2> SUFFICES ASSUME NEW q \in Req, step'[q] \in {"create", "orphan"},
                        file'[stamp[q]] = Nothing
                 PROVE  \E s \in Req \ {q} :
                          step'[s] = "end" /\ s \notin cut' /\ stamp[q] = stamp[s]
      BY <1>1 DEF FileLostToSameTime, SameTime, FileOf, FileName
    <2>1. q # r /\ step[q] \in {"create", "orphan"} /\ step'[r] = "end"
      BY <1>1 DEF IInv, Types
    <2>2. CASE file[stamp[q]] = Nothing
      <3>1. PICK s \in Req \ {q} : step[s] = "end" /\ s \notin cut /\ stamp[q] = stamp[s]
        BY <2>1, <2>2 DEF IInv, FileLostToSameTime, SameTime, FileOf, FileName
      <3>2. s # r
        BY <1>1, <3>1
      <3>3. QED
        BY <1>1, <1>2, <3>1, <3>2 DEF IInv, Types
    <2>3. CASE file[stamp[q]] # Nothing
      <3>1. stamp[q] = stamp[r] /\ cut' = cut
        BY <1>1, <1>2, <2>1, <2>3 DEF IInv, Types, Stamped
      <3>2. QED
        BY <1>3, <2>1, <3>1
    <2>4. QED
      BY <2>2, <2>3
  <1>8. FilesHaveRemover'
    <2> SUFFICES ASSUME NEW t \in 0..MaxClock, file'[t] # Nothing
                 PROVE  step'[file'[t]] \in {"create", "created"} \/ file'[t] \in cut'
      BY DEF FilesHaveRemover
    <2>1. file'[t] = file[t] /\ file[t] \in Req
      BY <1>1, <1>2 DEF IInv, Types
    <2>2. step[file[t]] \in {"create", "created"} \/ file[t] \in cut
      BY <2>1 DEF IInv, FilesHaveRemover
    <2>3. stamp[file[t]] = t
      BY <2>1 DEF IInv, FilesOwned
    <2>4. CASE file[t] # r
      BY <1>1, <1>2, <2>1, <2>2, <2>4 DEF IInv, Types
    <2>5. CASE file[t] = r
      <3>1. cut' = cut \cup {r}
        BY <1>1, <1>2, <2>1, <2>3, <2>5 DEF IInv, Types
      <3>2. QED
        BY <2>1, <2>5, <3>1
    <2>6. QED
      BY <2>4, <2>5
  <1>9. QED
    BY <1>4, <1>5, <1>6, <1>7, <1>8 DEF IInv

(* A restart cuts off whoever has written a file.                          *)
LEMMA RestartKeepsIInv ==
  ASSUME IInv, RestartServer
  PROVE  IInv'
  <1>1. /\ clock' = clock + 1 /\ clock < MaxClock
        /\ step' = [r \in Req |-> IF step[r] = "create" THEN "orphan"
                                  ELSE IF r \in AtWork THEN "end" ELSE step[r]]
        /\ cut' = cut \cup {r \in AtWork : stamp[r] # Nothing}
        /\ UNCHANGED <<stamp, file, read>>
    BY DEF RestartServer
  <1>2. \A r \in Req : /\ step[r] \in {"create", "created"} => r \in cut'
                       /\ r \in cut' => r \in cut \/ step[r] \in {"create", "created"}
    BY <1>1 DEF AtWork, IInv, Types, Stamped
  <1>3. \A r \in Req :
          /\ step[r] = "create" => step'[r] = "orphan"
          /\ step[r] \in {"show", "shown", "created"} => step'[r] = "end"
          /\ step[r] \in {"new", "orphan", "end"} => step'[r] = step[r]
    BY <1>1 DEF AtWork, IInv, Types
  <1>4. Types'
    BY <1>1, <1>3, CreateAssumption DEF AtWork, IInv, Types
  <1>5. Stamped'
    BY <1>1, <1>3 DEF IInv, Types, Stamped
  <1>6. FilesOwned' /\ ReadsStamped'
    BY <1>1 DEF IInv, FilesOwned, ReadsStamped
  <1>7. CutIsOver'
    BY <1>2, <1>3, <1>4 DEF IInv, Types, CutIsOver
  <1>8. FileLostToSameTime'
    <2> SUFFICES ASSUME NEW q \in Req, step'[q] \in {"create", "orphan"},
                        file[stamp[q]] = Nothing
                 PROVE  \E s \in Req \ {q} :
                          step'[s] = "end" /\ s \notin cut' /\ stamp[q] = stamp[s]
      BY <1>1 DEF FileLostToSameTime, SameTime, FileOf, FileName
    <2>1. step[q] \in {"create", "orphan"}
      BY <1>3 DEF IInv, Types
    <2>2. PICK s \in Req \ {q} : step[s] = "end" /\ s \notin cut /\ stamp[q] = stamp[s]
      BY <2>1 DEF IInv, FileLostToSameTime, SameTime, FileOf, FileName
    <2>3. QED
      BY <1>2, <1>3, <2>2
  <1>9. FilesHaveRemover'
    <2> SUFFICES ASSUME NEW t \in 0..MaxClock, file[t] # Nothing
                 PROVE  file[t] \in cut'
      BY <1>1 DEF FilesHaveRemover
    <2>1. file[t] \in Req /\ (step[file[t]] \in {"create", "created"} \/ file[t] \in cut)
      BY DEF IInv, Types, FilesHaveRemover
    <2>2. QED
      BY <1>1, <1>2, <2>1
  <1>10. QED
    BY <1>4, <1>5, <1>6, <1>7, <1>8, <1>9 DEF IInv

LEMMA NextKeepsIInv == IInv /\ [Next]_vars => IInv'
  <1> SUFFICES ASSUME IInv, [Next]_vars PROVE IInv'
    OBVIOUS
  <1>1. CASE UNCHANGED vars
    BY <1>1
    DEF vars, IInv, Types, Stamped, FilesOwned, ReadsStamped, CutIsOver,
        FileLostToSameTime, FilesHaveRemover, SameTime, FileOf, FileName
  <1>2. CASE Tick
    BY <1>2, TickKeepsIInv
  <1>3. CASE RestartServer
    BY <1>3, RestartKeepsIInv
  <1>4. ASSUME NEW r \in Req, Receive(r) PROVE IInv'
    BY <1>4, GoKeepsIInv DEF Receive
  <1>5. ASSUME NEW r \in Req, ShowValidator(r) PROVE IInv'
    BY <1>5, GoKeepsIInv DEF ShowValidator
  <1>6. ASSUME NEW r \in Req, OnShown(r) PROVE IInv'
    <2>1. CASE Go(r, "shown", "create") /\ WriteFile(r) /\ UNCHANGED <<clock, read, cut>>
      BY <2>1, WriteKeepsIInv
    <2>2. CASE Go(r, "shown", "end") /\ UNCHANGED <<clock, stamp, file, read, cut>>
      BY <2>2, GoKeepsIInv
    <2>3. CASE /\ Go(r, "shown", "end") /\ WriteFile(r) /\ cut' = cut \cup {r}
               /\ UNCHANGED <<clock, read>>
      BY <2>3, WriteKeepsIInv
    <2>4. QED
      BY <1>6, <2>1, <2>2, <2>3 DEF OnShown
  <1>7. ASSUME NEW r \in Req, RunCreate(r) PROVE IInv'
    BY <1>7, RunCreateKeepsIInv
  <1>8. ASSUME NEW r \in Req, OnCreated(r) PROVE IInv'
    BY <1>8, OnCreatedKeepsIInv
  <1>9. QED
    BY <1>1, <1>2, <1>3, <1>4, <1>5, <1>6, <1>7, <1>8 DEF Next

-----------------------------------------------------------------------------
LEMMA IInvAlways == Spec => []IInv
  BY InitIInv, NextKeepsIInv, PTL DEF Spec

(* A create-validator command works on the data of its own request, or of  *)
(* one that wrote its file in the same millisecond (handleCreateValidator).*)
THEOREM RequestsInterfereAtSameTimeOnly == Spec => []InterfereAtSameTimeOnly
  <1>1. IInv => InterfereAtSameTimeOnly
    BY DEF IInv, ReadsStamped, InterfereAtSameTimeOnly, OwnDataUnlessSameTime, SameTime
  <1>2. QED
    BY <1>1, IInvAlways, PTL

(* A temporary file that no callback will remove is one of a request that  *)
(* was cut off: by a restart, as its command was not started, or as the    *)
(* removal failed.                                                         *)
THEOREM OnlyCutOffLeaveFiles == Spec => []FilesHaveRemover
  <1>1. IInv => FilesHaveRemover
    BY DEF IInv
  <1>2. QED
    BY <1>1, IInvAlways, PTL

-----------------------------------------------------------------------------
(* Sequences of sequences, joined up to the n-th.                          *)
Joined(F, n) == FlattenSeq([i \in 1..n |-> F[i]])

JoinStep(it, F, i) == IF i = 1 THEN F[i] ELSE it[i - 1] \o F[i]

IsJoin(it, F, n) == it = [i \in 1..n |-> JoinStep(it, F, i)]

(* The function that FlattenSeq is defined by exists,                      *)
LEMMA JoinExists ==
  ASSUME NEW S, NEW N \in Nat, NEW F \in [1..N -> Seq(S)], NEW n \in 0..N
  PROVE  \E it \in [1..n -> Seq(S)] : IsJoin(it, F, n)
  <1> DEFINE T == {m \in Nat : m <= N => \E it \in [1..m -> Seq(S)] : IsJoin(it, F, m)}
  <1>1. 0 \in T
    <2> DEFINE it == [i \in 1..0 |-> << >>]
    <2>1. it \in [1..0 -> Seq(S)] /\ IsJoin(it, F, 0)
      BY DEF IsJoin
    <2> HIDE DEF it
    <2>2. QED
      BY <2>1
  <1>2. ASSUME NEW m \in T
        PROVE  m + 1 \in T
    <2>1. SUFFICES ASSUME m + 1 <= N
                   PROVE  \E it \in [1..m + 1 -> Seq(S)] : IsJoin(it, F, m + 1)
      OBVIOUS
    <2>2. PICK g \in [1..m -> Seq(S)] : IsJoin(g, F, m)
      BY <2>1
    <2>3. \A i \in 1..m : g[i] = JoinStep(g, F, i)
      BY <2>2 DEF IsJoin
    <2> DEFINE it == [i \in 1..m + 1 |-> IF i <= m THEN g[i] ELSE JoinStep(g, F, i)]
    <2>4. F[m + 1] \in Seq(S)
      BY <2>1
    <2>5. m + 1 # 1 => g[m] \o F[m + 1] \in Seq(S)
      <3>1. SUFFICES ASSUME m + 1 # 1 PROVE g[m] \o F[m + 1] \in Seq(S)
        OBVIOUS
      <3>2. g[m] \in Seq(S)
        BY <3>1
      <3>3. QED
        BY <2>4, <3>2, ConcatProperties
    <2>6. JoinStep(g, F, m + 1) \in Seq(S)
      BY <2>4, <2>5 DEF JoinStep
    <2>7. it \in [1..m + 1 -> Seq(S)]
      BY <2>6
    <2>8. ASSUME NEW i \in 1..m + 1
          PROVE  it[i] = JoinStep(it, F, i)
      <3>1. i # 1 => it[i - 1] = g[i - 1]
        OBVIOUS
      <3>2. JoinStep(it, F, i) = JoinStep(g, F, i)
        BY <3>1 DEF JoinStep
      <3>3. QED
        BY <2>3, <3>2
    <2> HIDE DEF it
    <2>9. IsJoin(it, F, m + 1)
      BY <2>7, <2>8 DEF IsJoin
    <2>10. QED
      BY <2>7, <2>9
  <1>3. T = Nat
    <2> HIDE DEF T
    <2>1. T \in SUBSET Nat
      BY DEF T
    <2>2. QED
      BY <1>1, <1>2, <2>1, NatSetInduction
  <1>4. n \in T
    <2> HIDE DEF T
    <2>1. QED
      BY <1>3
  <1>5. QED
    BY <1>4

(* and is the same for sequences that agree.                               *)
AlikeTo(f, g, m) == \A i \in 1..m : f[i] = g[i]

LEMMA JoinUnique ==
  ASSUME NEW F, NEW n \in Nat, NEW m \in Nat, m <= n, NEW f, NEW g,
         IsJoin(f, F, m), IsJoin(g, F, n)
  PROVE  AlikeTo(f, g, m)
  <1> DEFINE T == {k \in Nat : k + 1 <= m => f[k + 1] = g[k + 1]}
  <1>0. /\ \A i \in 1..m : f[i] = JoinStep(f, F, i)
        /\ \A i \in 1..n : g[i] = JoinStep(g, F, i)
    BY DEF IsJoin
  <1>1. 0 \in T
    BY <1>0 DEF JoinStep
  <1>2. ASSUME NEW k \in T
        PROVE  k + 1 \in T
    <2>1. SUFFICES ASSUME k + 2 <= m
                   PROVE  f[k + 2] = g[k + 2]
      OBVIOUS
    <2>2. f[k + 1] = g[k + 1]
      BY <2>1
    <2>3. f[k + 2] = JoinStep(f, F, k + 2) /\ g[k + 2] = JoinStep(g, F, k + 2)
      BY <1>0, <2>1
    <2>4. (k + 2) - 1 = k + 1 /\ k + 2 # 1
      OBVIOUS
    <2>5. QED
      BY <2>2, <2>3, <2>4 DEF JoinStep
  <1>3. T = Nat
    <2> HIDE DEF T
    <2>1. T \in SUBSET Nat
      BY DEF T
    <2>2. QED
      BY <1>1, <1>2, <2>1, NatSetInduction
  <1>4. QED
    <2>1. SUFFICES ASSUME NEW i \in 1..m PROVE f[i] = g[i]
      BY DEF AlikeTo
    <2>2. i - 1 \in T
      <3> HIDE DEF T
      <3>1. QED
        BY <1>3
    <2>3. (i - 1) + 1 = i /\ i <= m /\ i - 1 \in Nat
      OBVIOUS
    <2>4. QED
      BY <2>2, <2>3

FlattenStep(it, G, i) == IF i = 1 THEN G[i] ELSE it[i - 1] \o G[i]

Flattens(it, G) == it = [i \in 1..Len(G) |-> FlattenStep(it, G, i)]

(* What the library's definition comes to.                                 *)
LEMMA FlattenDef ==
  ASSUME NEW G, Len(G) # 0
  PROVE  FlattenSeq(G) = (CHOOSE it : Flattens(it, G))[Len(G)]
  BY DEF FlattenSeq, Flattens, FlattenStep

JoinedBy(S, F, n) ==
  \E it \in [1..n -> Seq(S)] : IsJoin(it, F, n) /\ Joined(F, n) = it[n]

(* It has the joined sequences as its values.                              *)
LEMMA JoinedIs ==
  ASSUME NEW S, NEW N \in Nat, NEW F \in [1..N -> Seq(S)], NEW n \in 1..N
  PROVE  JoinedBy(S, F, n)
  <1> DEFINE G == [i \in 1..n |-> F[i]]
             flatten == CHOOSE it : Flattens(it, G)
  <1>1. Len(G) = n /\ n # 0
    OBVIOUS
  <1>2. FlattenSeq(G) = flatten[n]
    BY <1>1, FlattenDef
  <1>3. \A it : Flattens(it, G) <=> IsJoin(it, F, n)
    <2>1. ASSUME NEW it
          PROVE  [i \in 1..n |-> JoinStep(it, F, i)]
                   = [i \in 1..Len(G) |-> FlattenStep(it, G, i)]
      <3>1. \A i \in 1..n : JoinStep(it, F, i) = FlattenStep(it, G, i)
        BY DEF JoinStep, FlattenStep
      <3>2. QED
        BY <1>1, <3>1
    <2>2. QED
      BY <2>1 DEF IsJoin, Flattens
  <1>4. \E it \in [1..n -> Seq(S)] : IsJoin(it, F, n)
    BY JoinExists
  <1>5. IsJoin(flatten, F, n)
    <2>1. \E it : Flattens(it, G)
      BY <1>3, <1>4
    <2>2. Flattens(flatten, G)
      BY <2>1
    <2>3. QED
      BY <1>3, <2>2
  <1> HIDE DEF flatten
  <1>6. PICK it \in [1..n -> Seq(S)] : IsJoin(it, F, n)
    BY <1>4
  <1>7. it[n] = flatten[n]
    BY <1>5, <1>6, JoinUnique DEF AlikeTo
  <1>8. QED
    BY <1>2, <1>6, <1>7 DEF Joined, JoinedBy

(* One sequence more is put at the end.                                    *)
LEMMA JoinedStep ==
  ASSUME NEW S, NEW N \in Nat, NEW F \in [1..N -> Seq(S)]
  PROVE  /\ Joined(F, 0) = << >>
         /\ Joined(F, N) = FlattenSeq(F)
         /\ \A n \in 0..N : Joined(F, n) \in Seq(S)
         /\ \A n \in 1..N : Joined(F, n) = Joined(F, n - 1) \o F[n]
  <1>1. Joined(F, 0) = << >>
    <2> DEFINE G == [i \in 1..0 |-> F[i]]
    <2>1. G = << >> /\ Len(G) = 0
      OBVIOUS
    <2>2. FlattenSeq(G) = << >>
      BY <2>1 DEF FlattenSeq
    <2>3. QED
      BY <2>2 DEF Joined
  <1>2. Joined(F, N) = FlattenSeq(F)
    <2>1. F = [i \in 1..N |-> F[i]]
      OBVIOUS
    <2>2. QED
      BY <2>1 DEF Joined
  <1>3. ASSUME NEW n \in 1..N
        PROVE  Joined(F, n) \in Seq(S)
    <2>1. JoinedBy(S, F, n)
      BY JoinedIs
    <2>2. QED
      BY <2>1 DEF JoinedBy
  <1>4. ASSUME NEW n \in 0..N
        PROVE  Joined(F, n) \in Seq(S)
    <2>1. CASE n = 0
      BY <1>1, <2>1, EmptySeq
    <2>2. CASE n \in 1..N
      BY <1>3, <2>2
    <2>3. QED
      BY <2>1, <2>2
  <1>5. ASSUME NEW n \in 1..N
        PROVE  Joined(F, n) = Joined(F, n - 1) \o F[n]
    <2>0. JoinedBy(S, F, n)
      BY JoinedIs
    <2>1. PICK it \in [1..n -> Seq(S)] : IsJoin(it, F, n) /\ Joined(F, n) = it[n]
      BY <2>0 DEF JoinedBy
    <2>2. it[n] = JoinStep(it, F, n)
      <3>1. \A i \in 1..n : it[i] = JoinStep(it, F, i)
        BY <2>1 DEF IsJoin
      <3>2. QED
        BY <3>1
    <2>3. CASE n = 1
      <3>1. Joined(F, n) = F[1] /\ F[1] \in Seq(S)
        BY <2>1, <2>2, <2>3 DEF JoinStep
      <3>2. << >> \o F[1] = F[1]
        BY <3>1, ConcatEmptySeq
      <3>3. QED
        BY <1>1, <2>3, <3>1, <3>2
    <2>4. CASE n # 1
      <3>1. n - 1 \in 1..N
        BY <2>4
      <3>0. JoinedBy(S, F, n - 1)
        BY <3>1, JoinedIs
      <3>2. PICK g \in [1..n - 1 -> Seq(S)] : IsJoin(g, F, n - 1) /\ Joined(F, n - 1) = g[n - 1]
        BY <3>0 DEF JoinedBy
      <3>3. g[n - 1] = it[n - 1]
        <4> DEFINE m == n - 1
        <4>1. m \in Nat /\ n \in Nat /\ m <= n /\ m \in 1..m
          BY <3>1
        <4>2. IsJoin(g, F, m) /\ IsJoin(it, F, n)
          BY <2>1, <3>2
        <4> HIDE DEF m
        <4>3. AlikeTo(g, it, m)
          BY ONLY <4>1, <4>2, JoinUnique
        <4>4. g[m] = it[m]
          BY ONLY <4>1, <4>3 DEF AlikeTo
        <4>5. QED
          BY ONLY <4>4 DEF m
      <3>4. QED
        BY <2>1, <2>2, <2>4, <3>2, <3>3 DEF JoinStep
    <2>5. QED
      BY <2>3, <2>4
  <1>6. QED
    BY <1>1, <1>2, <1>4, <1>5

(* All of them make what FlattenSeq does.                                  *)
LEMMA JoinedAll ==
  ASSUME NEW S, NEW N \in Nat, NEW F \in [1..N -> Seq(S)]
  PROVE  Joined(F, N) = FlattenSeq(F) /\ FlattenSeq(F) \in Seq(S)
  <1>1. /\ Joined(F, 0) = << >>
        /\ Joined(F, N) = FlattenSeq(F)
        /\ \A n \in 0..N : Joined(F, n) \in Seq(S)
        /\ \A n \in 1..N : Joined(F, n) = Joined(F, n - 1) \o F[n]
    BY JoinedStep
  <1>2. QED
    BY <1>1

(* Inv, which relates how many have been joined and the result, holds of   *)
(* nothing and is kept by each sequence that is put at the end.            *)
KeptByJoin(Inv, S, F, N) ==
  /\ <<0, << >> >> \in Inv
  /\ \A n \in 1..N : \A s \in Seq(S) : <<n - 1, s>> \in Inv => <<n, s \o F[n]>> \in Inv

(* Then it holds of what has been joined.                                  *)
LEMMA JoinedInduction ==
  ASSUME NEW S, NEW N \in Nat, NEW F \in [1..N -> Seq(S)], NEW Inv,
         KeptByJoin(Inv, S, F, N)
  PROVE  \A n \in 0..N : <<n, Joined(F, n)>> \in Inv
  <1> DEFINE T == {m \in Nat : m <= N => <<m, Joined(F, m)>> \in Inv}
  <1>0. /\ Joined(F, 0) = << >>
        /\ \A n \in 0..N : Joined(F, n) \in Seq(S)
        /\ \A n \in 1..N : Joined(F, n) = Joined(F, n - 1) \o F[n]
    BY JoinedStep
  <1>1. 0 \in T
    BY <1>0 DEF KeptByJoin
  <1>2. ASSUME NEW m \in T
        PROVE  m + 1 \in T
    <2>1. SUFFICES ASSUME m + 1 <= N
                   PROVE  <<m + 1, Joined(F, m + 1)>> \in Inv
      OBVIOUS
    <2>2. m + 1 \in 1..N /\ (m + 1) - 1 = m /\ m \in 0..N
      BY <2>1
    <2>3. Joined(F, m + 1) = Joined(F, m) \o F[m + 1]
      BY <1>0, <2>2
    <2>4. <<m, Joined(F, m)>> \in Inv
      BY <2>2
    <2>5. <<m + 1, Joined(F, m) \o F[m + 1]>> \in Inv
      BY <1>0, <2>2, <2>4 DEF KeptByJoin
    <2>6. QED
      BY <2>3, <2>5
  <1>3. T = Nat
    <2> HIDE DEF T
    <2>1. T \in SUBSET Nat
      BY DEF T
    <2>2. QED
      BY <1>1, <1>2, <2>1, NatSetInduction
  <1>4. ASSUME NEW n \in 0..N
        PROVE  <<n, Joined(F, n)>> \in Inv
    <2>1. n \in T
      <3> HIDE DEF T
      <3>1. QED
        BY <1>3
    <2>2. QED
      BY <2>1
  <1>5. QED
    BY <1>4

Splits(s, p, t) == s = p \o t

(* What is put at the end of a sequence is put at the end of its tail.     *)
LEMMA SplitsStep ==
  ASSUME NEW S, NEW p \in Seq(S), NEW t \in Seq(S), NEW u \in Seq(S), NEW s,
         Splits(s, p, t)
  PROVE  Splits(s \o u, p, t \o u)
  <1>1. (p \o t) \o u = p \o (t \o u)
    BY ConcatAssociative
  <1>2. QED
    BY <1>1 DEF Splits

StartsWith(s, p, S) == \E t \in Seq(S) : s = p \o t

(* What has been joined up to n is a prefix of the whole.                  *)
LEMMA JoinedPrefix ==
  ASSUME NEW S, NEW N \in Nat, NEW F \in [1..N -> Seq(S)], NEW m \in 0..N
  PROVE  StartsWith(FlattenSeq(F), Joined(F, m), S)
  <1> DEFINE p == Joined(F, m)
  <1>0. /\ Joined(F, 0) = << >>
        /\ Joined(F, N) = FlattenSeq(F)
        /\ \A n \in 0..N : Joined(F, n) \in Seq(S)
        /\ \A n \in 1..N : Joined(F, n) = Joined(F, n - 1) \o F[n]
    BY JoinedStep
  <1>1. p \in Seq(S)
    BY <1>0
  <1>2. p \o << >> = p /\ << >> \in Seq(S)
    BY <1>1, ConcatEmptySeq, EmptySeq
  <1> DEFINE Good(n) == \E t \in Seq(S) : Joined(F, n) = p \o t
             T == {n \in Nat : n <= N /\ n >= m => Good(n)}
  <1>3. 0 \in T
    <2>1. m = 0 => Good(0)
      BY <1>2
    <2> HIDE DEF Good
    <2>2. QED
      BY <2>1
  <1>4. ASSUME NEW n \in T
        PROVE  n + 1 \in T
    <2>1. ASSUME n + 1 <= N, n + 1 = m
          PROVE  Good(n + 1)
      BY <1>2, <2>1
    <2>0. n <= N /\ n >= m => Good(n)
      <3> HIDE DEF Good
      <3>1. QED
        OBVIOUS
    <2>2. ASSUME n + 1 <= N, n >= m
          PROVE  Good(n + 1)
      <3>0. Good(n)
        <4> HIDE DEF Good
        <4>1. QED
          BY <2>0, <2>2
      <3>1. PICK t \in Seq(S) : Joined(F, n) = p \o t
        BY <3>0
      <3>2. n + 1 \in 1..N /\ (n + 1) - 1 = n
        BY <2>2
      <3>3. Joined(F, n + 1) = Joined(F, n) \o F[n + 1] /\ F[n + 1] \in Seq(S)
        BY <1>0, <3>2
      <3> HIDE DEF p
      <3>4. Joined(F, n) \o F[n + 1] = p \o (t \o F[n + 1])
        <4>1. Splits(Joined(F, n), p, t)
          BY <3>1 DEF Splits
        <4>2. Splits(Joined(F, n) \o F[n + 1], p, t \o F[n + 1])
          BY <1>1, <3>3, <4>1, SplitsStep
        <4>3. QED
          BY <4>2 DEF Splits
      <3>5. t \o F[n + 1] \in Seq(S)
        BY <3>3, ConcatProperties
      <3>6. QED
        BY <3>1, <3>3, <3>4, <3>5
    <2> HIDE DEF Good
    <2>3. QED
      BY <2>1, <2>2
  <1>5. N \in T
    <2> HIDE DEF T, Good
    <2>1. T \in SUBSET Nat
      BY DEF T
    <2>2. QED
      BY <1>3, <1>4, <2>1, NatSetInduction
  <1>6. Good(N)
    <2> HIDE DEF Good
    <2>1. QED
      BY <1>5
  <1>7. QED
    BY <1>0, <1>6 DEF StartsWith

-----------------------------------------------------------------------------
(* What is chosen among a sequence.                                        *)
Kept(s, K, n) == [i \in 1..n |-> IF s[i] \in K THEN <<s[i]>> ELSE << >>]

(* Choosing is joining sequences of one element or none.                   *)
LEMMA KeptIs ==
  ASSUME NEW S, NEW s \in Seq(S), NEW K
  PROVE  /\ Len(s) \in Nat
         /\ Among(s, K) = FlattenSeq(Kept(s, K, Len(s)))
         /\ Kept(s, K, Len(s)) \in [1..Len(s) -> Seq(S \cap K)]
         /\ Kept(s, K, Len(s)) \in [1..Len(s) -> Seq(S)]
  <1>1. Len(s) \in Nat /\ \A i \in 1..Len(s) : s[i] \in S
    BY LenProperties
  <1>2. ASSUME NEW i \in 1..Len(s)
        PROVE  /\ (IF s[i] \in K THEN <<s[i]>> ELSE << >>) \in Seq(S \cap K)
               /\ (IF s[i] \in K THEN <<s[i]>> ELSE << >>) \in Seq(S)
    <2>1. << >> \in Seq(S \cap K) /\ << >> \in Seq(S)
      BY EmptySeq
    <2>2. s[i] \in S
      BY <1>1
    <2>3. s[i] \in K => <<s[i]>> \in Seq(S \cap K)
      BY <2>2
    <2>4. <<s[i]>> \in Seq(S)
      BY <2>2
    <2>5. QED
      BY <2>1, <2>3, <2>4
  <1>3. QED
    BY <1>1, <1>2 DEF Among, Kept

(* What is chosen is in K.                                                 *)
LEMMA AmongType ==
  ASSUME NEW S, NEW s \in Seq(S), NEW K
  PROVE  Among(s, K) \in Seq(S \cap K) /\ Among(s, K) \in Seq(S)
  <1> DEFINE F == Kept(s, K, Len(s))
             N == Len(s)
  <1>1. N \in Nat /\ Among(s, K) = FlattenSeq(F)
    BY KeptIs
  <1>2. F \in [1..N -> Seq(S \cap K)] /\ F \in [1..N -> Seq(S)]
    BY KeptIs
  <1> HIDE DEF F, N
  <1>3. Joined(F, N) = FlattenSeq(F)
    BY <1>1, <1>2, JoinedStep
  <1>4. Joined(F, N) \in Seq(S \cap K)
    <2>1. \A n \in 0..N : Joined(F, n) \in Seq(S \cap K)
      BY <1>1, <1>2, JoinedStep
    <2>2. QED
      BY <1>1, <2>1
  <1>5. Joined(F, N) \in Seq(S)
    <2>1. \A n \in 0..N : Joined(F, n) \in Seq(S)
      BY <1>1, <1>2, JoinedStep
    <2>2. QED
      BY <1>1, <2>1
  <1>6. QED
    BY <1>1, <1>3, <1>4, <1>5

(* Nothing, *)
LEMMA AmongNone ==
  ASSUME NEW S, NEW s \in Seq(S), NEW K, S \cap K = {}
  PROVE  Among(s, K) = << >>
  <1>1. Among(s, K) \in Seq({})
    BY AmongType
  <1>2. QED
    BY <1>1

(* or all.                                                                 *)
LEMMA AmongAll ==
  ASSUME NEW S, NEW s \in Seq(S), NEW K, S \subseteq K
  PROVE  Among(s, K) = s
  <1> DEFINE F == Kept(s, K, Len(s))
             N == Len(s)
             Inv == {x \in (0..N) \X Seq(S) : x[2] = SubSeq(s, 1, x[1])}
  <1>1. N \in Nat /\ Among(s, K) = FlattenSeq(F) /\ F \in [1..N -> Seq(S)]
    BY KeptIs
  <1>2. \A i \in 1..N : s[i] \in S /\ F[i] = <<s[i]>>
    BY LenProperties DEF Kept
  <1>3. <<0, << >> >> \in Inv
    <2>1. SubSeq(s, 1, 0) = << >>
      BY SubSeqEmpty
    <2>2. 0 \in 0..N /\ << >> \in Seq(S)
      BY <1>1, EmptySeq
    <2> HIDE DEF F, N
    <2>3. QED
      BY <2>1, <2>2
  <1>4. ASSUME NEW n \in 1..N, NEW t \in Seq(S), <<n - 1, t>> \in Inv
        PROVE  <<n, t \o F[n]>> \in Inv
    <2>1. t = SubSeq(s, 1, n - 1)
      BY <1>4
    <2>2. SubSeq(s, 1, n) = SubSeq(s, 1, n - 1) \o <<s[n]>>
      <3>1. 1 \in 1..Len(s) /\ n \in 1..Len(s)
        OBVIOUS
      <3>2. QED
        BY <3>1, SubSeqRecursiveSecond
    <2>3. t \o F[n] = SubSeq(s, 1, n)
      BY <1>2, <2>1, <2>2
    <2>4. t \o F[n] \in Seq(S)
      BY <1>1, ConcatProperties
    <2>5. n \in 0..N
      OBVIOUS
    <2> HIDE DEF F, N
    <2>6. QED
      BY <2>3, <2>4, <2>5
  <1>5. \A n \in 0..N : <<n, Joined(F, n)>> \in Inv
    <2> HIDE DEF F, N, Inv
    <2>1. KeptByJoin(Inv, S, F, N)
      BY <1>3, <1>4 DEF KeptByJoin
    <2>2. QED
      BY <1>1, <2>1, JoinedInduction
  <1>6. Joined(F, N) = SubSeq(s, 1, N)
    <2> HIDE DEF F, N
    <2>1. <<N, Joined(F, N)>> \in Inv
      <3> HIDE DEF Inv
      <3>1. QED
        BY <1>1, <1>5
    <2>2. QED
      BY <2>1
  <1>7. Joined(F, N) = FlattenSeq(F)
    <2> HIDE DEF F, N
    <2>1. QED
      BY <1>1, JoinedStep
  <1>8. SubSeq(s, 1, N) = s
    BY SubSeqFull
  <1>9. QED
    BY <1>1, <1>6, <1>7, <1>8

(* Among two sequences is among one and then among the other.              *)
LEMMA AmongBoth ==
  ASSUME NEW S, NEW s \in Seq(S), NEW t \in Seq(S), NEW K
  PROVE  Among(s \o t, K) = Among(s, K) \o Among(t, K)
  <1> DEFINE F == Kept(s \o t, K, Len(s \o t))
             A == Kept(s, K, Len(s))
             B == Kept(t, K, Len(t))
             m == Len(s)
             N == Len(t)
  <1>1. /\ m \in Nat /\ Among(s, K) = FlattenSeq(A) /\ A \in [1..m -> Seq(S)]
        /\ N \in Nat /\ Among(t, K) = FlattenSeq(B) /\ B \in [1..N -> Seq(S)]
    BY KeptIs
  <1>2. /\ s \o t \in Seq(S)
        /\ Len(s \o t) = m + N
        /\ \A i \in 1..m : (s \o t)[i] = s[i]
        /\ \A i \in 1..N : (s \o t)[m + i] = t[i]
    BY <1>1
  <1>3. Among(s \o t, K) = FlattenSeq(F) /\ F \in [1..m + N -> Seq(S)]
    BY <1>2, KeptIs
  <1>4. \A i \in 1..m : F[i] = A[i]
    BY <1>1, <1>2 DEF Kept
  <1>5. \A i \in 1..N : F[m + i] = B[i]
    BY <1>1, <1>2 DEF Kept
  <1> HIDE DEF F, A, B, m, N
  <1>6. Joined(F, m) = FlattenSeq(A)
    <2>1. [i \in 1..m |-> F[i]] = A
      BY <1>1, <1>4
    <2>2. QED
      BY <2>1 DEF Joined
  <1>7. /\ m + N \in Nat
        /\ Joined(F, m + N) = FlattenSeq(F)
        /\ \A n \in 0..m + N : Joined(F, n) \in Seq(S)
        /\ \A n \in 1..m + N : Joined(F, n) = Joined(F, n - 1) \o F[n]
    <2>1. m + N \in Nat
      BY <1>1
    <2>2. QED
      BY <1>3, <2>1, JoinedStep
  <1> DEFINE p == Joined(F, m)
             Inv == {x \in (0..N) \X Seq(S) : Joined(F, m + x[1]) = p \o x[2]}
  <1>8. p \in Seq(S)
    BY <1>1, <1>7
  <1>9. <<0, << >> >> \in Inv
    <2>1. p \o << >> = p /\ << >> \in Seq(S)
      BY <1>8, ConcatEmptySeq, EmptySeq
    <2>2. m + 0 = m /\ 0 \in 0..N
      BY <1>1
    <2>3. QED
      BY <2>1, <2>2
  <1>10. ASSUME NEW n \in 1..N, NEW u \in Seq(S), <<n - 1, u>> \in Inv
         PROVE  <<n, u \o B[n]>> \in Inv
    <2>1. Joined(F, m + (n - 1)) = p \o u
      BY <1>10
    <2>2. m + n \in 1..m + N /\ (m + n) - 1 = m + (n - 1) /\ n \in 0..N
      BY <1>1
    <2>3. Joined(F, m + n) = Joined(F, m + (n - 1)) \o B[n]
      BY <1>5, <1>7, <2>2
    <2>4. B[n] \in Seq(S)
      BY <1>1
    <2> HIDE DEF p
    <2>5. Splits(Joined(F, m + (n - 1)), p, u)
      BY <2>1 DEF Splits
    <2>6. Splits(Joined(F, m + (n - 1)) \o B[n], p, u \o B[n])
      BY <1>8, <2>4, <2>5, SplitsStep
    <2>7. Joined(F, m + n) = p \o (u \o B[n])
      BY <2>3, <2>6 DEF Splits
    <2>8. u \o B[n] \in Seq(S)
      BY <2>4, ConcatProperties
    <2>9. QED
      BY <2>2, <2>7, <2>8
  <1>11. \A n \in 0..N : <<n, Joined(B, n)>> \in Inv
    <2> HIDE DEF Inv
    <2>1. KeptByJoin(Inv, S, B, N)
      BY <1>9, <1>10 DEF KeptByJoin
    <2>2. QED
      BY <1>1, <2>1, JoinedInduction
  <1>12. Joined(F, m + N) = p \o Joined(B, N)
    <2>1. <<N, Joined(B, N)>> \in Inv
      <3> HIDE DEF Inv
      <3>1. QED
        BY <1>1, <1>11
    <2> HIDE DEF p
    <2>2. QED
      BY <2>1
  <1>13. Joined(B, N) = FlattenSeq(B)
    BY <1>1, JoinedStep
  <1>14. QED
    BY <1>1, <1>3, <1>6, <1>7, <1>12, <1>13

-----------------------------------------------------------------------------
(* Transactions by block.  F has those of the blocks ks, in this order.    *)
OfBlocks(F, ks, N) ==
  /\ N \in Nat
  /\ ks \in [1..N -> Nat]
  /\ \A i, j \in 1..N : i < j => ks[i] > ks[j]
  /\ F \in [1..N -> Seq(Tx)]
  /\ \A i \in 1..N : F[i] \in Seq(InBlock(ks[i]))

(* Newest block first.                                                     *)
Descends(s) == \A i \in 1..Len(s) - 1 : s[i].height >= s[i + 1].height

(* Transactions of a block have its height,                                *)
LEMMA Heights ==
  ASSUME NEW h, NEW s \in Seq(InBlock(h))
  PROVE  s \in Seq(Tx) /\ \A i \in 1..Len(s) : s[i].height = h
  <1>1. InBlock(h) \subseteq Tx
    BY DEF InBlock
  <1>2. s \in Seq(Tx)
    BY <1>1, SeqMonotonic
  <1>3. \A i \in 1..Len(s) : s[i] \in InBlock(h)
    BY ElementOfSeq
  <1>4. QED
    BY <1>2, <1>3 DEF InBlock

(* which is a number.                                                      *)
LEMMA TxHeight ==
  ASSUME ListingAssumption, NEW s \in Seq(Tx)
  PROVE  \A i \in 1..Len(s) : s[i].height \in Nat
  <1>1. \A i \in 1..Len(s) : s[i] \in Tx
    BY ElementOfSeq
  <1>2. \A t \in Tx : t.height \in Nat
    BY DEF Tx, ListingAssumption
  <1>3. QED
    BY <1>1, <1>2

(* Blocks with falling heights make a sequence that descends.              *)
LEMMA BlocksDescend ==
  ASSUME ListingAssumption, NEW F, NEW ks, NEW N, OfBlocks(F, ks, N)
  PROVE  FlattenSeq(F) \in Seq(Tx) /\ Descends(FlattenSeq(F))
  <1> DEFINE Start(n, s) == n = 0 => s = << >>
             Low(n, s) == n > 0 => \A i \in 1..Len(s) : s[i].height >= ks[n]
             Inv == {x \in (0..N) \X Seq(Tx) :
                       /\ Start(x[1], x[2])
                       /\ Low(x[1], x[2])
                       /\ Descends(x[2])}
  <1>0. /\ N \in Nat /\ ks \in [1..N -> Nat] /\ F \in [1..N -> Seq(Tx)]
        /\ \A i, j \in 1..N : i < j => ks[i] > ks[j]
        /\ \A i \in 1..N : F[i] \in Seq(InBlock(ks[i]))
    BY DEF OfBlocks
  <1>1. <<0, << >> >> \in Inv
    <2>1. << >> \in Seq(Tx) /\ Len(<< >>) = 0 /\ 0 \in 0..N
      BY <1>0, EmptySeq
    <2>2. Descends(<< >>)
      BY <2>1 DEF Descends
    <2>3. Start(0, << >>) /\ Low(0, << >>)
      OBVIOUS
    <2> HIDE DEF Start, Low
    <2>4. PICK e \in Seq(Tx) : e = << >>
      BY <2>1
    <2>5. 0 \in 0..N /\ Descends(e) /\ Start(0, e) /\ Low(0, e)
      BY <2>1, <2>2, <2>3, <2>4
    <2>6. <<0, e>> \in Inv
      BY <2>5
    <2>7. QED
      BY <2>4, <2>6
  <1>2. ASSUME NEW n \in 1..N, NEW s \in Seq(Tx), <<n - 1, s>> \in Inv
        PROVE  <<n, s \o F[n]>> \in Inv
    <2> DEFINE t == F[n]
               u == s \o t
    <2>1. /\ Start(n - 1, s)
          /\ Low(n - 1, s)
          /\ Descends(s)
      <3> HIDE DEF Start, Low
      <3>1. QED
        BY <1>2
    <2>2. t \in Seq(Tx) /\ \A i \in 1..Len(t) : t[i].height = ks[n]
      BY <1>0, Heights
    <2>3. \A i \in 1..Len(s) : s[i].height \in Nat
      BY TxHeight
    <2>4. ks[n] \in Nat
      BY <1>0
    <2>5. \A i \in 1..Len(s) : s[i].height >= ks[n]
      <3>1. CASE n = 1
        BY <2>1, <3>1
      <3>2. CASE n > 1
        <4>1. ks[n - 1] > ks[n] /\ ks[n - 1] \in Nat
          BY ONLY <1>0, <3>2
        <4>2. \A i \in 1..Len(s) : s[i].height >= ks[n - 1]
          BY <2>1, <3>2
        <4>3. QED
          BY ONLY <2>3, <2>4, <4>1, <4>2
      <3>3. QED
        BY <3>1, <3>2
    <2> HIDE DEF t
    <2>6. /\ u \in Seq(Tx)
          /\ Len(s) \in Nat /\ Len(t) \in Nat
          /\ Len(u) = Len(s) + Len(t)
          /\ \A i \in 1..Len(s) : u[i] = s[i]
          /\ \A i \in Len(s) + 1..Len(s) + Len(t) : u[i] = t[i - Len(s)]
      BY <2>2, ConcatProperties, LenProperties
    <2> HIDE DEF u
    <2>7. ASSUME NEW i \in Len(s) + 1..Len(u)
          PROVE  u[i].height = ks[n]
      <3>1. i \in Len(s) + 1..Len(s) + Len(t) /\ i - Len(s) \in 1..Len(t)
        BY <2>6
      <3>2. u[i] = t[i - Len(s)]
        BY <2>6, <3>1
      <3>3. t[i - Len(s)].height = ks[n]
        BY <2>2, <3>1
      <3>4. QED
        BY <3>2, <3>3
    <2>8. ASSUME NEW i \in 1..Len(u)
          PROVE  u[i].height >= ks[n]
      <3>1. CASE i \in 1..Len(s)
        BY <2>5, <2>6, <3>1
      <3>2. CASE i \in Len(s) + 1..Len(u)
        BY <2>4, <2>7, <3>2
      <3>3. QED
        BY <2>6, <3>1, <3>2
    <2>9. Descends(u)
      <3>1. SUFFICES ASSUME NEW i \in 1..Len(u) - 1
                     PROVE  u[i].height >= u[i + 1].height
        BY DEF Descends
      <3>2. CASE i + 1 <= Len(s)
        <4>1. i \in 1..Len(s) - 1 /\ i \in 1..Len(s) /\ i + 1 \in 1..Len(s)
          BY <2>6, <3>2
        <4>2. s[i].height >= s[i + 1].height
          BY <2>1, <4>1 DEF Descends
        <4>3. QED
          BY <2>6, <4>1, <4>2
      <3>3. CASE i + 1 > Len(s)
        <4>1. i + 1 \in Len(s) + 1..Len(u) /\ i \in 1..Len(u)
          BY <2>6, <3>3
        <4>2. u[i + 1].height = ks[n] /\ u[i].height >= ks[n]
          BY <2>7, <2>8, <4>1
        <4>3. QED
          BY <4>2
      <3>4. QED
        BY <2>6, <3>2, <3>3
    <2>10. Start(n, u) /\ Low(n, u) /\ n \in 0..N
      BY <2>8
    <2> HIDE DEF Start, Low
    <2>11. <<n, u>> \in Inv
      BY <2>6, <2>9, <2>10
    <2>12. QED
      BY <2>11 DEF u, t
  <1>3. \A n \in 0..N : <<n, Joined(F, n)>> \in Inv
    <2> HIDE DEF Inv
    <2>1. KeptByJoin(Inv, Tx, F, N)
      BY <1>1, <1>2 DEF KeptByJoin
    <2>2. QED
      BY <1>0, <2>1, JoinedInduction
  <1>4. <<N, Joined(F, N)>> \in Inv
    <2> HIDE DEF Inv
    <2>1. QED
      BY <1>0, <1>3
  <1>5. Joined(F, N) = FlattenSeq(F) /\ FlattenSeq(F) \in Seq(Tx)
    BY <1>0, JoinedAll
  <1>6. QED
    <2> HIDE DEF Start, Low
    <2>1. QED
      BY <1>4, <1>5

(* A product of natural numbers is one.                                    *)
LEMMA Product ==
  ASSUME NEW a \in Nat, NEW b \in Nat
  PROVE  a * b \in Nat
  OBVIOUS

(* A page of a sequence that descends does.                                *)
LEMMA PageDescends ==
  ASSUME ListingAssumption, NEW s \in Seq(Tx), Descends(s),
         NEW page \in Nat \ {0}, NEW limit \in Nat
  PROVE  Descends(PageOf(s, page, limit))
  <1> DEFINE m == (page - 1) * limit + 1
             n == IF page * limit < Len(s) THEN page * limit ELSE Len(s)
             p == PageOf(s, page, limit)
  <1>1. p = SubSeq(s, m, n)
    BY DEF PageOf
  <1>2. m \in Nat \ {0} /\ n \in Nat /\ n <= Len(s)
    <2>1. page - 1 \in Nat /\ Len(s) \in Nat
      BY LenProperties
    <2>2. (page - 1) * limit \in Nat /\ page * limit \in Nat
      BY ONLY <2>1, page \in Nat, limit \in Nat, Product
    <2>3. PICK a \in Nat, b \in Nat : a = (page - 1) * limit /\ b = page * limit
      BY <2>2
    <2>4. m = a + 1 /\ n = IF b < Len(s) THEN b ELSE Len(s)
      BY <2>3
    <2>5. QED
      BY ONLY <2>1, <2>3, <2>4
  <1> HIDE DEF m, n, p
  <1>3. \A i \in m..n : s[i] \in Tx
    <2>1. \A i \in m..n : i \in 1..Len(s)
      BY <1>2
    <2>2. QED
      BY <2>1, ElementOfSeq
  <1>4. /\ Len(p) = IF m <= n THEN n - m + 1 ELSE 0
        /\ \A i \in 1..n - m + 1 : p[i] = s[m + i - 1]
    <2>1. m \in Int /\ n \in Int
      BY <1>2
    <2>2. QED
      BY <1>1, <1>3, <2>1, SubSeqProperties
  <1>5. ASSUME NEW i \in 1..Len(p) - 1
        PROVE  p[i].height >= p[i + 1].height
    <2>1. m <= n /\ i \in 1..n - m + 1 /\ i + 1 \in 1..n - m + 1
      <3> DEFINE l == IF m <= n THEN n - m + 1 ELSE 0
      <3>1. l = Len(p)
        BY <1>4
      <3> HIDE DEF l
      <3>2. i \in 1..l - 1
        BY <3>1
      <3>3. QED
        BY ONLY <1>2, <3>2 DEF l
    <2>2. p[i] = s[m + i - 1] /\ p[i + 1] = s[m + (i + 1) - 1]
      BY <1>4, <2>1
    <2>3. m + i - 1 \in 1..Len(s) - 1 /\ m + (i + 1) - 1 = (m + i - 1) + 1
      BY <1>2, <2>1, LenProperties
    <2>4. s[m + i - 1].height >= s[(m + i - 1) + 1].height
      BY <2>3 DEF Descends
    <2>5. QED
      BY <2>2, <2>3, <2>4
  <1>6. QED
    BY <1>5 DEF Descends, p

(* Among blocks, those of one height are one of them or nothing.           *)
NoneAmong(F, ks, n, h) ==
  (\A i \in 1..n : ks[i] # h) => Among(Joined(F, n), InBlock(h)) = << >>

OneAmong(F, ks, n, h) ==
  \A i \in 1..n : ks[i] = h => Among(Joined(F, n), InBlock(h)) = F[i]

LEMMA AmongBlocks ==
  ASSUME ListingAssumption, NEW F, NEW ks, NEW N, OfBlocks(F, ks, N), NEW h,
         NEW n \in 0..N
  PROVE  /\ Joined(F, n) \in Seq(Tx)
         /\ NoneAmong(F, ks, n, h)
         /\ OneAmong(F, ks, n, h)
  <1> DEFINE K == InBlock(h)
             None(m, s) == (\A i \in 1..m : ks[i] # h) => Among(s, K) = << >>
             One(m, s) == \A i \in 1..m : ks[i] = h => Among(s, K) = F[i]
             Inv == {x \in (0..N) \X Seq(Tx) : None(x[1], x[2]) /\ One(x[1], x[2])}
  <1>0. /\ N \in Nat /\ ks \in [1..N -> Nat] /\ F \in [1..N -> Seq(Tx)]
        /\ \A i, j \in 1..N : i < j => ks[i] > ks[j]
        /\ \A i \in 1..N : F[i] \in Seq(InBlock(ks[i]))
    BY DEF OfBlocks
  <1>1. <<0, << >> >> \in Inv
    <2>1. PICK e \in Seq(Tx) : e = << >>
      BY EmptySeq
    <2>2. Among(e, K) = << >>
      <3>1. e \in Seq({})
        BY <2>1, EmptySeq
      <3>2. QED
        BY <3>1, AmongNone
    <2>3. None(0, e) /\ One(0, e) /\ 0 \in 0..N
      BY <1>0, <2>2
    <2> HIDE DEF None, One
    <2>4. <<0, e>> \in Inv
      BY <2>3
    <2>5. QED
      BY <2>1, <2>4
  <1>2. ASSUME NEW m \in 1..N, NEW s \in Seq(Tx), <<m - 1, s>> \in Inv
        PROVE  <<m, s \o F[m]>> \in Inv
    <2> DEFINE t == F[m]
               u == s \o t
    <2>1. None(m - 1, s) /\ One(m - 1, s)
      <3> HIDE DEF None, One
      <3>1. QED
        BY <1>2
    <2>2. t \in Seq(Tx) /\ t \in Seq(InBlock(ks[m]))
      BY <1>0
    <2>3. Among(s, K) \in Seq(Tx)
      BY AmongType
    <2>4. u \in Seq(Tx)
      BY <2>2, ConcatProperties
    <2>5. Among(u, K) = Among(s, K) \o Among(t, K)
      <3> HIDE DEF t, K
      <3>1. QED
        BY ONLY <2>2, AmongBoth
    <2>6. CASE ks[m] = h
      <3>1. Among(t, K) = t
        BY <2>2, <2>6, AmongAll
      <3>2. \A i \in 1..m - 1 : ks[i] # h
        <4>1. \A i \in 1..m - 1 : i \in 1..N /\ i < m
          BY <1>0
        <4>2. \A i \in 1..m - 1 : ks[i] > ks[m] /\ ks[i] \in Nat /\ ks[m] \in Nat
          BY <1>0, <4>1
        <4>3. QED
          BY <2>6, <4>2
      <3>3. Among(s, K) = << >>
        BY <2>1, <3>2
      <3>4. << >> \o t = t
        BY <2>2, ConcatEmptySeq
      <3>5. Among(u, K) = F[m]
        BY <2>5, <3>1, <3>3, <3>4
      <3>6. None(m, u) /\ One(m, u)
        <4> HIDE DEF u, K
        <4>1. QED
          BY <2>6, <3>2, <3>5
      <3>7. m \in 0..N
        OBVIOUS
      <3> HIDE DEF None, One, u
      <3>8. <<m, u>> \in Inv
        BY <2>4, <3>6, <3>7
      <3>9. QED
        BY <3>8 DEF u
    <2>7. CASE ks[m] # h
      <3>1. InBlock(ks[m]) \cap K = {}
        BY <2>7 DEF InBlock
      <3>2. Among(t, K) = << >>
        BY <2>2, <3>1, AmongNone
      <3>3. Among(s, K) \o << >> = Among(s, K)
        BY <2>3, ConcatEmptySeq
      <3>4. Among(u, K) = Among(s, K)
        BY <2>5, <3>2, <3>3
      <3>5. None(m, u) /\ One(m, u)
        <4> HIDE DEF u, K
        <4>1. QED
          BY ONLY <2>1, <2>7, <3>4
      <3>6. m \in 0..N
        OBVIOUS
      <3> HIDE DEF None, One, u
      <3>7. <<m, u>> \in Inv
        BY <2>4, <3>5, <3>6
      <3>8. QED
        BY <3>7 DEF u
    <2>8. QED
      BY <2>6, <2>7
  <1>3. \A m \in 0..N : <<m, Joined(F, m)>> \in Inv
    <2> HIDE DEF Inv
    <2>1. KeptByJoin(Inv, Tx, F, N)
      BY <1>1, <1>2 DEF KeptByJoin
    <2>2. QED
      BY <1>0, <2>1, JoinedInduction
  <1>4. <<n, Joined(F, n)>> \in Inv
    <2> HIDE DEF Inv
    <2>1. QED
      BY <1>3
  <1>5. Joined(F, n) \in Seq(Tx) /\ None(n, Joined(F, n)) /\ One(n, Joined(F, n))
    <2> HIDE DEF None, One
    <2>1. QED
      BY <1>4
  <1>6. QED
    BY <1>5 DEF NoneAmong, OneAmong

-----------------------------------------------------------------------------
(* The blocks of a chain.                                                  *)
LEMMA Chain ==
  ASSUME ListingAssumption, chain \in Chains
  PROVE  /\ Latest \in 1..MaxHeight
         /\ MaxHeight \in Nat
         /\ \A h \in 1..Latest : Txs(h) \in Seq(InBlock(h))
  <1>1. PICK n \in 1..MaxHeight : chain \in [1..n -> Blocks]
    BY DEF Chains
  <1>2. MaxHeight \in Nat /\ MaxTxs \in Nat /\ BlockLimit \in Nat
    BY DEF ListingAssumption
  <1>3. Latest = n
    BY <1>1, <1>2 DEF Latest
  <1>4. ASSUME NEW h \in 1..Latest
        PROVE  Txs(h) \in Seq(InBlock(h))
    <2>0. chain[h] \in Blocks
      BY <1>1, <1>3
    <2>1. PICK k \in 0..MaxTxs : chain[h] \in [1..k -> Kind]
      BY <2>0 DEF Blocks
    <2> DEFINE n1 == IF k < BlockLimit THEN k ELSE BlockLimit
    <2>2. n1 \in 0..k /\ n1 \in Nat /\ Len(chain[h]) = k
      BY <1>2, <2>1
    <2>a. 1..n1 \subseteq 1..k
      BY <1>2, <2>1, <2>2
    <2> HIDE DEF n1
    <2>3. ASSUME NEW i \in 1..n1
          PROVE  [height |-> h, place |-> i, kind |-> chain[h][i]] \in InBlock(h)
      <3>1. h \in 1..MaxHeight /\ i \in 1..MaxTxs /\ chain[h][i] \in Kind
        BY <1>1, <1>2, <1>3, <2>1, <2>a
      <3>2. QED
        BY <3>1 DEF InBlock, Tx
    <2>4. Txs(h) = [i \in 1..n1 |-> [height |-> h, place |-> i, kind |-> chain[h][i]]]
      BY <2>2 DEF Txs, n1
    <2> HIDE DEF InBlock
    <2>5. Txs(h) \in [1..n1 -> InBlock(h)]
      BY <2>3, <2>4
    <2>6. QED
      BY <2>2, <2>5
  <1>5. QED
    BY <1>1, <1>2, <1>3, <1>4

(* What a query gives is in the block that was asked for.                  *)
LEMMA FetchType ==
  ASSUME ListingAssumption, chain \in Chains, NEW h, NEW filtered
  PROVE  Fetch(h, filtered) \in Seq(InBlock(h)) /\ Fetch(h, filtered) \in Seq(Tx)
  <1>1. InBlock(h) \subseteq Tx
    BY DEF InBlock
  <1>2. Fetch(h, filtered) \in Seq(InBlock(h))
    <2>1. CASE h \in 1..Latest /\ h \notin down
      <3>1. Txs(h) \in Seq(InBlock(h))
        BY <2>1, Chain
      <3>2. QED
        BY <2>1, <3>1, AmongType DEF Fetch
    <2>2. CASE ~(h \in 1..Latest /\ h \notin down)
      BY <2>2, EmptySeq DEF Fetch
    <2>3. QED
      BY <2>1, <2>2
  <1>3. QED
    BY <1>1, <1>2, SeqMonotonic

(* Those of the blocks known in advance, and those of all blocks, newest   *)
(* first.                                                                  *)
OfKnown(filtered) == [i \in 1..Len(Known) |-> Fetch(Known[i], filtered)]

OfLatest(filtered) == [i \in 1..Latest |-> Fetch(Latest + 1 - i, filtered)]

Downwards == [i \in 1..Latest |-> Latest + 1 - i]

(* The heights known in advance fall,                                      *)
LEMMA KnownBlocks ==
  ASSUME ListingAssumption, chain \in Chains, NEW filtered
  PROVE  OfBlocks(OfKnown(filtered), Known, Len(Known))
  <1>1. Len(Known) \in Nat /\ Known \in [1..Len(Known) -> Nat]
    BY LenProperties DEF ListingAssumption
  <1>2. \A i, j \in 1..Len(Known) : i < j => Known[i] > Known[j]
    BY DEF ListingAssumption
  <1>3. \A i \in 1..Len(Known) : /\ Fetch(Known[i], filtered) \in Seq(Tx)
                                 /\ Fetch(Known[i], filtered) \in Seq(InBlock(Known[i]))
    BY FetchType
  <1>4. QED
    BY <1>1, <1>2, <1>3 DEF OfBlocks, OfKnown

(* those that are scanned fall,                                            *)
LEMMA LatestBlocks ==
  ASSUME ListingAssumption, chain \in Chains, NEW filtered
  PROVE  OfBlocks(OfLatest(filtered), Downwards, Latest)
  <1>1. Latest \in Nat
    BY Chain
  <1>2. /\ Downwards \in [1..Latest -> Nat]
        /\ \A i \in 1..Latest : Downwards[i] = Latest + 1 - i
    BY <1>1 DEF Downwards
  <1>3. \A i \in 1..Latest : /\ Fetch(Latest + 1 - i, filtered) \in Seq(Tx)
                             /\ Fetch(Latest + 1 - i, filtered) \in Seq(InBlock(Latest + 1 - i))
    BY FetchType
  <1> HIDE DEF Downwards
  <1>4. QED
    BY <1>1, <1>2, <1>3 DEF OfBlocks, OfLatest

(* and those of what has been sorted do.                                   *)
LEMMA SortedBlocks ==
  ASSUME ListingAssumption, chain \in Chains, NEW s \in Seq(Tx)
  PROVE  OfBlocks([i \in 1..Latest |-> Among(s, InBlock(Latest + 1 - i))], Downwards, Latest)
  <1>1. Latest \in Nat
    BY Chain
  <1>2. /\ Downwards \in [1..Latest -> Nat]
        /\ \A i \in 1..Latest : Downwards[i] = Latest + 1 - i
    BY <1>1 DEF Downwards
  <1>3. ASSUME NEW h
        PROVE  Among(s, InBlock(h)) \in Seq(Tx) /\ Among(s, InBlock(h)) \in Seq(InBlock(h))
    <2>1. Among(s, InBlock(h)) \in Seq(Tx \cap InBlock(h)) /\ Among(s, InBlock(h)) \in Seq(Tx)
      BY AmongType
    <2>2. Tx \cap InBlock(h) \subseteq InBlock(h)
      OBVIOUS
    <2>3. QED
      BY <2>1, <2>2, SeqMonotonic
  <1> HIDE DEF Downwards
  <1>4. QED
    BY <1>1, <1>2, <1>3 DEF OfBlocks

(* What the known blocks have given.                                       *)
LEMMA FromKnownIs ==
  ASSUME ListingAssumption, chain \in Chains, NEW filtered
  PROVE  /\ FromKnown(filtered) = FlattenSeq(OfKnown(filtered))
         /\ FromKnown(filtered) = Joined(OfKnown(filtered), Len(Known))
         /\ FromKnown(filtered) \in Seq(Tx)
  <1>1. FromKnown(filtered) = FlattenSeq(OfKnown(filtered))
    BY DEF FromKnown, OfKnown
  <1>2. OfBlocks(OfKnown(filtered), Known, Len(Known))
    BY KnownBlocks
  <1>3. Len(Known) \in Nat /\ OfKnown(filtered) \in [1..Len(Known) -> Seq(Tx)]
    BY <1>2 DEF OfBlocks
  <1>4. /\ Joined(OfKnown(filtered), Len(Known)) = FlattenSeq(OfKnown(filtered))
        /\ FlattenSeq(OfKnown(filtered)) \in Seq(Tx)
    BY <1>3, JoinedAll
  <1>5. QED
    BY <1>1, <1>4

-----------------------------------------------------------------------------
(* The scan.                                                               *)
ScanStep(it, filtered, limit, h) ==
  IF h > Latest THEN FromKnown(filtered)
  ELSE IF Enough(it[h + 1], limit) THEN it[h + 1]
  ELSE it[h + 1] \o Fetch(h, filtered)

IsScan(it, filtered, limit) ==
  it = [h \in StartHeight..Latest + 1 |-> ScanStep(it, filtered, limit, h)]

(* The function that Scanned is defined by.                                *)
LEMMA ScanDef ==
  ASSUME NEW filtered, NEW limit
  PROVE  Scanned(filtered, limit) = (CHOOSE it : IsScan(it, filtered, limit))[StartHeight]
  BY DEF Scanned, IsScan, ScanStep

(* Where the scan starts and where it ends.                                *)
LEMMA ScanHeights ==
  ASSUME ListingAssumption, chain \in Chains
  PROVE  Latest \in Nat \ {0} /\ StartHeight \in 1..Latest
  <1>1. Latest \in Nat \ {0}
    BY Chain
  <1>2. Window \in Nat
    BY DEF ListingAssumption
  <1>3. QED
    BY <1>1, <1>2 DEF StartHeight

PartScan(it, filtered, limit, low) ==
  /\ it \in [low..Latest + 1 -> Seq(Tx)]
  /\ \A h \in low..Latest + 1 : it[h] = ScanStep(it, filtered, limit, h)

(* There is such a function,                                               *)
LEMMA ScanExists ==
  ASSUME ListingAssumption, chain \in Chains, NEW filtered, NEW limit
  PROVE  \E it : IsScan(it, filtered, limit)
  <1> DEFINE Some(m) == \E it : PartScan(it, filtered, limit, Latest + 1 - m)
             T == {m \in Nat : m <= Latest + 1 - StartHeight => Some(m)}
  <1>0. Latest \in Nat \ {0} /\ StartHeight \in 1..Latest
    BY ScanHeights
  <1>1. 0 \in T
    <2> DEFINE it == [h \in Latest + 1..Latest + 1 |-> FromKnown(filtered)]
    <2>1. it \in [Latest + 1..Latest + 1 -> Seq(Tx)]
      BY FromKnownIs
    <2>2. \A h \in Latest + 1..Latest + 1 : it[h] = ScanStep(it, filtered, limit, h)
      BY <1>0 DEF ScanStep
    <2> HIDE DEF it
    <2>3. Latest + 1 - 0 = Latest + 1
      BY <1>0
    <2>4. PartScan(it, filtered, limit, Latest + 1 - 0)
      BY <2>1, <2>2, <2>3 DEF PartScan
    <2>5. QED
      BY <2>4
  <1>2. ASSUME NEW m \in T
        PROVE  m + 1 \in T
    <2>1. SUFFICES ASSUME m + 1 <= Latest + 1 - StartHeight
                   PROVE  Some(m + 1)
      OBVIOUS
    <2>2. Some(m)
      BY ONLY <1>0, <2>1
    <2>3. PICK g : PartScan(g, filtered, limit, Latest + 1 - m)
      BY <2>2
    <2> DEFINE low == Latest + 1 - (m + 1)
               it == [h \in low..Latest + 1 |->
                        IF h = low THEN ScanStep(g, filtered, limit, h) ELSE g[h]]
    <2>4. /\ low \in StartHeight..Latest
          /\ low + 1 = Latest + 1 - m
          /\ low \in Int
      BY <1>0, <2>1
    <2> HIDE DEF low
    <2>5. /\ g \in [low + 1..Latest + 1 -> Seq(Tx)]
          /\ \A h \in low + 1..Latest + 1 : g[h] = ScanStep(g, filtered, limit, h)
      BY <2>3, <2>4 DEF PartScan
    <2>6. ScanStep(g, filtered, limit, low) \in Seq(Tx)
      <3>1. g[low + 1] \in Seq(Tx)
        BY <1>0, <2>4, <2>5
      <3>2. Fetch(low, filtered) \in Seq(Tx)
        BY FetchType
      <3>3. g[low + 1] \o Fetch(low, filtered) \in Seq(Tx)
        BY <3>1, <3>2, ConcatProperties
      <3>4. FromKnown(filtered) \in Seq(Tx)
        BY FromKnownIs
      <3>5. QED
        BY <3>1, <3>3, <3>4 DEF ScanStep
    <2>7. it \in [low..Latest + 1 -> Seq(Tx)]
      <3>1. \A h \in low..Latest + 1 : h # low => h \in low + 1..Latest + 1
        BY <1>0, <2>4
      <3>2. QED
        BY <2>5, <2>6, <3>1
    <2>8. ASSUME NEW h \in low..Latest + 1
          PROVE  it[h] = ScanStep(it, filtered, limit, h)
      <3>1. h <= Latest => it[h + 1] = g[h + 1]
        BY ONLY <1>0, <2>4
      <3>2. ScanStep(it, filtered, limit, h) = ScanStep(g, filtered, limit, h)
        BY ONLY <1>0, <2>4, <3>1 DEF ScanStep
      <3>3. h # low => h \in low + 1..Latest + 1
        BY <1>0, <2>4
      <3>4. QED
        BY <2>5, <3>2, <3>3
    <2> HIDE DEF it
    <2>9. PartScan(it, filtered, limit, low)
      BY <2>7, <2>8 DEF PartScan
    <2>10. QED
      BY <2>9 DEF low
  <1>3. T = Nat
    <2> HIDE DEF T
    <2>1. T \in SUBSET Nat
      BY DEF T
    <2>2. QED
      BY <1>1, <1>2, <2>1, NatSetInduction
  <1>4. Latest + 1 - StartHeight \in T
    <2>1. Latest + 1 - StartHeight \in Nat
      BY <1>0
    <2> HIDE DEF T
    <2>2. QED
      BY <1>3, <2>1
  <1>5. Some(Latest + 1 - StartHeight)
    <2> HIDE DEF Some
    <2>1. QED
      BY <1>0, <1>4
  <1>6. PICK it : PartScan(it, filtered, limit, StartHeight)
    <2>1. Latest + 1 - (Latest + 1 - StartHeight) = StartHeight
      BY <1>0
    <2>2. QED
      BY <1>5, <2>1
  <1>7. IsScan(it, filtered, limit)
    BY <1>6 DEF PartScan, IsScan
  <1>8. QED
    BY <1>7

(* At height h the scan has gone down to some g, and not further than h if *)
(* there is not enough.                                                    *)
ScanIs(s, filtered, g) ==
  s = FromKnown(filtered) \o Joined(OfLatest(filtered), Latest + 1 - g)

ScanAt(s, filtered, limit, h) ==
  \E g \in h..Latest + 1 : ScanIs(s, filtered, g) /\ (g = h \/ Enough(s, limit))

(* and it goes down block by block.                                        *)
LEMMA ScanGoesDown ==
  ASSUME ListingAssumption, chain \in Chains, NEW filtered, NEW limit,
         NEW it, IsScan(it, filtered, limit)
  PROVE  ScanAt(it[StartHeight], filtered, limit, StartHeight)
  <1> DEFINE R == OfLatest(filtered)
             K == FromKnown(filtered)
             At(m) == ScanAt(it[Latest + 1 - m], filtered, limit, Latest + 1 - m)
             T == {m \in Nat : m <= Latest + 1 - StartHeight => At(m)}
  <1>0. Latest \in Nat \ {0} /\ StartHeight \in 1..Latest
    BY ScanHeights
  <1>s. \A h \in StartHeight..Latest + 1 : it[h] = ScanStep(it, filtered, limit, h)
    BY DEF IsScan
  <1>k. K \in Seq(Tx)
    BY FromKnownIs
  <1>r. R \in [1..Latest -> Seq(Tx)] /\ \A i \in 1..Latest : R[i] = Fetch(Latest + 1 - i, filtered)
    BY LatestBlocks DEF OfBlocks, OfLatest
  <1>j. /\ Joined(R, 0) = << >>
        /\ \A n \in 0..Latest : Joined(R, n) \in Seq(Tx)
        /\ \A n \in 1..Latest : Joined(R, n) = Joined(R, n - 1) \o R[n]
    <2> HIDE DEF R
    <2>1. QED
      BY ONLY <1>0, <1>r, JoinedStep
  <1>1. 0 \in T
    <2>1. it[Latest + 1] = K
      <3>1. it[Latest + 1] = ScanStep(it, filtered, limit, Latest + 1)
        BY <1>0, <1>s
      <3>2. Latest + 1 > Latest
        BY <1>0
      <3>3. QED
        BY <3>1, <3>2 DEF ScanStep
    <2>2. K = K \o Joined(R, 0)
      BY <1>k, <1>j, ConcatEmptySeq
    <2>3. Latest + 1 - (Latest + 1) = 0 /\ Latest + 1 - 0 = Latest + 1
      BY <1>0
    <2>4. ScanIs(it[Latest + 1], filtered, Latest + 1)
      BY <2>1, <2>2, <2>3 DEF ScanIs
    <2>5. ScanAt(it[Latest + 1], filtered, limit, Latest + 1)
      BY <1>0, <2>4 DEF ScanAt
    <2>6. QED
      BY <2>3, <2>5
  <1>2. ASSUME NEW m \in T
        PROVE  m + 1 \in T
    <2>1. SUFFICES ASSUME m + 1 <= Latest + 1 - StartHeight
                   PROVE  At(m + 1)
      OBVIOUS
    <2>2. At(m)
      BY <1>0, <2>1
    <2> DEFINE h == Latest + 1 - (m + 1)
    <2>3. /\ h \in StartHeight..Latest
          /\ h + 1 = Latest + 1 - m
          /\ h \in Int
          /\ Latest + 1 - h \in 1..Latest
          /\ Latest + 1 - (h + 1) = (Latest + 1 - h) - 1
          /\ Latest + 1 - (h + 1) \in 0..Latest
          /\ Latest + 1 - (Latest + 1 - h) = h
      BY <1>0, <2>1
    <2>4. ScanAt(it[h + 1], filtered, limit, h + 1)
      BY <2>2, <2>3
    <2> HIDE DEF h
    <2>5. PICK g \in h + 1..Latest + 1 :
            ScanIs(it[h + 1], filtered, g) /\ (g = h + 1 \/ Enough(it[h + 1], limit))
      BY <2>4 DEF ScanAt
    <2>6. it[h] = IF Enough(it[h + 1], limit) THEN it[h + 1]
                  ELSE it[h + 1] \o Fetch(h, filtered)
      BY <1>0, <1>s, <2>3 DEF ScanStep
    <2>7. CASE Enough(it[h + 1], limit)
      <3>1. it[h] = it[h + 1]
        BY <2>6, <2>7
      <3>2. g \in h..Latest + 1 /\ ScanIs(it[h], filtered, g) /\ Enough(it[h], limit)
        BY <1>0, <2>3, <2>5, <2>7, <3>1
      <3>3. QED
        BY <3>2 DEF ScanAt, h
    <2>8. CASE ~Enough(it[h + 1], limit)
      <3>1. it[h] = it[h + 1] \o Fetch(h, filtered) /\ g = h + 1
        BY <2>5, <2>6, <2>8
      <3> DEFINE j == Joined(R, Latest + 1 - (h + 1))
                 f == Fetch(h, filtered)
      <3>2. it[h + 1] = K \o j
        BY <2>5, <3>1 DEF ScanIs
      <3>3. j \in Seq(Tx) /\ f \in Seq(Tx)
        <4>1. j \in Seq(Tx)
          BY <1>j, <2>3
        <4>2. QED
          BY <4>1, FetchType
      <3>4. Joined(R, Latest + 1 - h) = j \o f
        <4>1. R[Latest + 1 - h] = f
          BY <1>r, <2>3
        <4>2. QED
          BY <1>j, <2>3, <4>1
      <3>5. it[h + 1] \o f = K \o (j \o f)
        <4> HIDE DEF K, j, f
        <4>1. Splits(it[h + 1], K, j)
          BY <3>2 DEF Splits
        <4>2. Splits(it[h + 1] \o f, K, j \o f)
          BY <1>k, <3>3, <4>1, SplitsStep
        <4>3. QED
          BY <4>2 DEF Splits
      <3>6. ScanIs(it[h], filtered, h)
        BY <3>1, <3>4, <3>5 DEF ScanIs
      <3>7. h \in h..Latest + 1
        BY <1>0, <2>3
      <3>8. QED
        BY <3>6, <3>7 DEF ScanAt, h
    <2>9. QED
      BY <2>7, <2>8
  <1>3. T = Nat
    <2> HIDE DEF T
    <2>1. T \in SUBSET Nat
      BY DEF T
    <2>2. QED
      BY <1>1, <1>2, <2>1, NatSetInduction
  <1>4. Latest + 1 - StartHeight \in T
    <2>1. Latest + 1 - StartHeight \in Nat
      BY <1>0
    <2> HIDE DEF T
    <2>2. QED
      BY <1>3, <2>1
  <1>5. At(Latest + 1 - StartHeight)
    <2> HIDE DEF At
    <2>1. QED
      BY <1>0, <1>4
  <1>6. QED
    <2>1. Latest + 1 - (Latest + 1 - StartHeight) = StartHeight
      BY <1>0
    <2>2. QED
      BY <1>5, <2>1

(* What has been collected when the scan ends.                             *)
LEMMA ScannedIs ==
  ASSUME ListingAssumption, chain \in Chains, NEW filtered, NEW limit
  PROVE  /\ Scanned(filtered, limit) \in Seq(Tx)
         /\ ScanAt(Scanned(filtered, limit), filtered, limit, StartHeight)
  <1> DEFINE it == CHOOSE it : IsScan(it, filtered, limit)
             s == Scanned(filtered, limit)
  <1>1. IsScan(it, filtered, limit)
    BY ScanExists
  <1>2. s = it[StartHeight]
    BY ScanDef
  <1> HIDE DEF it
  <1>3. ScanAt(s, filtered, limit, StartHeight)
    BY <1>1, <1>2, ScanGoesDown
  <1> HIDE DEF s
  <1>4. PICK g \in StartHeight..Latest + 1 : ScanIs(s, filtered, g)
    BY <1>3 DEF ScanAt
  <1>5. Latest + 1 - g \in 0..Latest
    BY <1>4, ScanHeights
  <1>6. Joined(OfLatest(filtered), Latest + 1 - g) \in Seq(Tx)
    BY <1>5, LatestBlocks, AmongBlocks
  <1>7. FromKnown(filtered) \in Seq(Tx)
    BY FromKnownIs
  <1>8. s \in Seq(Tx)
    BY <1>4, <1>6, <1>7, ConcatProperties DEF ScanIs
  <1>9. QED
    BY <1>3, <1>8 DEF s

-----------------------------------------------------------------------------
(* The answer is in order.                                                 *)
LEMMA AnswerDescends ==
  ASSUME ListingAssumption, chain \in Chains, NEW filtered,
         NEW page \in Nat \ {0}, NEW limit \in Nat
  PROVE  Descends(GetTransactions(filtered, page, limit))
  <1>1. FromKnown(filtered) \in Seq(Tx) /\ Descends(FromKnown(filtered))
    <2>1. OfBlocks(OfKnown(filtered), Known, Len(Known))
      BY KnownBlocks
    <2>2. FlattenSeq(OfKnown(filtered)) \in Seq(Tx) /\ Descends(FlattenSeq(OfKnown(filtered)))
      BY <2>1, BlocksDescend
    <2>3. QED
      BY <2>2, FromKnownIs
  <1> DEFINE s == Scanned(filtered, limit)
             F == [i \in 1..Latest |-> Among(s, InBlock(Latest + 1 - i))]
  <1>2. NewestFirst(s) \in Seq(Tx) /\ Descends(NewestFirst(s))
    <2>1. s \in Seq(Tx)
      BY ScannedIs
    <2> HIDE DEF s
    <2>2. OfBlocks(F, Downwards, Latest)
      BY <2>1, SortedBlocks
    <2>3. NewestFirst(s) = FlattenSeq(F)
      BY DEF NewestFirst
    <2> HIDE DEF F
    <2>4. QED
      BY <2>2, <2>3, BlocksDescend
  <1>3. Descends(PageOf(FromKnown(filtered), page, limit))
    BY <1>1, PageDescends
  <1>4. Descends(PageOf(NewestFirst(s), page, limit))
    BY <1>2, PageDescends
  <1>5. Descends(<< >>)
    BY DEF Descends
  <1>6. QED
    BY <1>3, <1>4, <1>5 DEF GetTransactions

-----------------------------------------------------------------------------
(* The first page is that of the reference.                                *)
CoveredBlocks(filtered) ==
  [i \in 1..Latest |->
     IF Latest + 1 - i \in Covered THEN Among(Txs(Latest + 1 - i), Wanted(filtered)) ELSE << >>]

(* The reference by blocks: those of the window and the known ones.        *)
LEMMA CoveredIs ==
  ASSUME ListingAssumption, chain \in Chains, NEW filtered
  PROVE  /\ Reference(filtered) = FlattenSeq(CoveredBlocks(filtered))
         /\ CoveredBlocks(filtered) \in [1..Latest -> Seq(Tx)]
         /\ \A i \in 1..Latest :
              CoveredBlocks(filtered)[i] =
                IF Latest + 1 - i >= StartHeight \/ Latest + 1 - i \in ToSet(Known)
                THEN Fetch(Latest + 1 - i, filtered) ELSE << >>
  <1>1. Reference(filtered) = FlattenSeq(CoveredBlocks(filtered))
    BY DEF Reference, CoveredBlocks
  <1>2. ASSUME NEW i \in 1..Latest
        PROVE  CoveredBlocks(filtered)[i] =
                 IF Latest + 1 - i >= StartHeight \/ Latest + 1 - i \in ToSet(Known)
                 THEN Fetch(Latest + 1 - i, filtered) ELSE << >>
    <2> DEFINE h == Latest + 1 - i
               a == Among(Txs(h), Wanted(filtered))
    <2>1. h \in 1..Latest
      BY ScanHeights
    <2>2. CoveredBlocks(filtered)[i] = IF h \in Covered THEN a ELSE << >>
      BY DEF CoveredBlocks
    <2>3. Fetch(h, filtered) = IF h \notin down THEN a ELSE << >>
      BY <2>1 DEF Fetch
    <2>4. h \in Covered <=> (h >= StartHeight \/ h \in ToSet(Known)) /\ h \notin down
      BY <2>1 DEF Covered
    <2> HIDE DEF a, h
    <2>5. CoveredBlocks(filtered)[i] =
            IF h >= StartHeight \/ h \in ToSet(Known) THEN Fetch(h, filtered) ELSE << >>
      BY <2>2, <2>3, <2>4
    <2>6. QED
      BY <2>5 DEF h
  <1>3. \A h : Fetch(h, filtered) \in Seq(Tx)
    BY FetchType
  <1>4. << >> \in Seq(Tx)
    BY EmptySeq
  <1>5. \A i \in 1..Latest : CoveredBlocks(filtered)[i] \in Seq(Tx)
    BY <1>2, <1>3, <1>4
  <1>6. CoveredBlocks(filtered) \in [1..Latest -> Seq(Tx)]
    BY <1>5 DEF CoveredBlocks
  <1>7. QED
    BY <1>1, <1>2, <1>6

Sorted(s) == [i \in 1..Latest |-> Among(s, InBlock(Latest + 1 - i))]

(* If the scan has gone down to g, the blocks from g on are those of the   *)
(* reference; those below g too, if it has gone to the end.                *)
LEMMA SortedIs ==
  ASSUME ListingAssumption, chain \in Chains, KnownIsOld, NEW filtered,
         NEW g \in StartHeight..Latest + 1, NEW s \in Seq(Tx), ScanIs(s, filtered, g)
  PROVE  /\ \A i \in 1..Latest + 1 - g : /\ Sorted(s)[i] = OfLatest(filtered)[i]
                                         /\ Sorted(s)[i] = CoveredBlocks(filtered)[i]
         /\ g = StartHeight => Sorted(s) = CoveredBlocks(filtered)
  <1> DEFINE m == Latest + 1 - g
             R == OfLatest(filtered)
             K == FromKnown(filtered)
             j == Joined(R, m)
             C == CoveredBlocks(filtered)
  <1>0. Latest \in Nat \ {0} /\ StartHeight \in 1..Latest /\ m \in 0..Latest
    <2>1. Latest \in Nat \ {0} /\ StartHeight \in 1..Latest
      BY ScanHeights
    <2>2. QED
      BY <2>1
  <1>1. OfBlocks(R, Downwards, Latest) /\ OfBlocks(OfKnown(filtered), Known, Len(Known))
    BY LatestBlocks, KnownBlocks
  <1>2. K \in Seq(Tx) /\ K = Joined(OfKnown(filtered), Len(Known))
    BY FromKnownIs
  <1>3. j \in Seq(Tx)
    BY <1>0, <1>1, AmongBlocks
  <1>4. ASSUME NEW h
        PROVE  Among(s, InBlock(h)) = Among(K, InBlock(h)) \o Among(j, InBlock(h))
    <2>1. s = K \o j
      BY DEF ScanIs
    <2> HIDE DEF K, j
    <2>2. K \in Seq(Tx) /\ j \in Seq(Tx)
      BY <1>2, <1>3
    <2>3. \A D : Among(K \o j, D) = Among(K, D) \o Among(j, D)
      BY ONLY <2>2, AmongBoth
    <2>4. QED
      BY <2>1, <2>3
  <1>5. ASSUME NEW i \in 1..Latest
        PROVE  Sorted(s)[i] = Among(s, InBlock(Latest + 1 - i)) /\ Downwards[i] = Latest + 1 - i
    BY DEF Sorted, Downwards
  <1>6. Len(Known) \in Nat /\ Len(Known) \in 0..Len(Known)
    BY <1>1 DEF OfBlocks
  <1>7. \A h : (\E k \in 1..Len(Known) : Known[k] = h) <=> h \in ToSet(Known)
    <2>1. DOMAIN Known = 1..Len(Known)
      BY LenProperties DEF ListingAssumption
    <2>2. QED
      BY <2>1 DEF ToSet
  <1>8. ASSUME NEW h, h \notin ToSet(Known)
        PROVE  Among(K, InBlock(h)) = << >>
    <2>1. \A k \in 1..Len(Known) : Known[k] # h
      BY <1>7, <1>8
    <2>2. NoneAmong(OfKnown(filtered), Known, Len(Known), h)
      BY <1>1, <1>6, AmongBlocks
    <2>3. QED
      BY <1>2, <2>1, <2>2 DEF NoneAmong
  <1>9. ASSUME NEW h \in ToSet(Known)
        PROVE  Among(K, InBlock(h)) = Fetch(h, filtered)
    <2>1. PICK k \in 1..Len(Known) : Known[k] = h
      BY <1>7
    <2>2. OneAmong(OfKnown(filtered), Known, Len(Known), h)
      BY <1>1, <1>6, AmongBlocks
    <2>3. Among(K, InBlock(h)) = OfKnown(filtered)[k]
      BY <1>2, <2>1, <2>2 DEF OneAmong
    <2>4. QED
      BY <2>1, <2>3 DEF OfKnown
  <1>10. ASSUME NEW i \in 1..m
         PROVE  /\ Sorted(s)[i] = R[i]
                /\ Sorted(s)[i] = C[i]
    <2>1. i \in 1..Latest /\ Latest + 1 - i >= StartHeight
      BY <1>0
    <2>2. Latest + 1 - i \notin ToSet(Known)
      BY <1>0, <2>1 DEF KnownIsOld
    <2>3. Among(K, InBlock(Latest + 1 - i)) = << >>
      BY <1>8, <2>2
    <2>4. Among(j, InBlock(Latest + 1 - i)) = R[i]
      <3>1. Downwards[i] = Latest + 1 - i
        BY <1>5, <2>1
      <3>2. OneAmong(R, Downwards, m, Latest + 1 - i)
        BY <1>0, <1>1, AmongBlocks
      <3>3. QED
        BY <3>1, <3>2 DEF OneAmong
    <2>5. R[i] = Fetch(Latest + 1 - i, filtered) /\ R[i] \in Seq(Tx)
      BY <2>1, FetchType DEF OfLatest
    <2>6. C[i] = Fetch(Latest + 1 - i, filtered)
      BY <2>1, CoveredIs
    <2>7. << >> \o R[i] = R[i]
      BY <2>5, ConcatEmptySeq
    <2>8. Sorted(s)[i] = R[i]
      BY <1>4, <1>5, <2>1, <2>3, <2>4, <2>7
    <2>9. QED
      BY <2>5, <2>6, <2>8
  <1>11. ASSUME g = StartHeight, NEW i \in m + 1..Latest
         PROVE  Sorted(s)[i] = C[i]
    <2> DEFINE h == Latest + 1 - i
    <2>1. i \in 1..Latest /\ h < StartHeight
      BY <1>0, <1>11
    <2>2. Among(j, InBlock(h)) = << >>
      <3>1. ASSUME NEW k \in 1..m
            PROVE  Downwards[k] # h
        <4>1. k \in 1..Latest /\ k < i
          BY <1>0, <1>11
        <4>2. Downwards[k] = Latest + 1 - k
          BY <1>5, <4>1
        <4>3. Latest \in Nat /\ i \in Nat /\ k \in Nat /\ k < i
          BY <1>0, <2>1, <4>1
        <4>4. Latest + 1 - k # Latest + 1 - i
          BY ONLY <4>3
        <4>5. QED
          BY <4>2, <4>4
      <3>2. NoneAmong(R, Downwards, m, h)
        BY <1>0, <1>1, AmongBlocks
      <3>3. QED
        BY <3>1, <3>2 DEF NoneAmong
    <2>3. Among(K, InBlock(h)) = IF h \in ToSet(Known) THEN Fetch(h, filtered) ELSE << >>
      BY <1>8, <1>9
    <2>4. C[i] = IF h \in ToSet(Known) THEN Fetch(h, filtered) ELSE << >>
      <3>1. ~(h >= StartHeight)
        BY <1>0, <2>1
      <3>2. QED
        BY <2>1, <3>1, CoveredIs
    <2>5. C[i] \in Seq(Tx)
      BY <2>1, CoveredIs
    <2>6. C[i] \o << >> = C[i]
      BY <2>5, ConcatEmptySeq
    <2>7. QED
      BY <1>4, <1>5, <2>1, <2>2, <2>3, <2>4, <2>6
  <1>12. ASSUME g = StartHeight
         PROVE  Sorted(s) = C
    <2>1. C \in [1..Latest -> Seq(Tx)]
      BY CoveredIs
    <2>2. \A i \in 1..Latest : i \in 1..m \/ i \in m + 1..Latest
      BY <1>0
    <2>3. \A i \in 1..Latest : Sorted(s)[i] = C[i]
      BY <1>10, <1>11, <1>12, <2>2
    <2>4. Sorted(s) = [i \in 1..Latest |-> Sorted(s)[i]]
      BY DEF Sorted
    <2> HIDE DEF C
    <2>5. QED
      BY <2>1, <2>3, <2>4
  <1>13. QED
    BY <1>10, <1>12

(* What is longer than the first page has that page at its start.          *)
LEMMA PageOfPrefix ==
  ASSUME NEW S, NEW p \in Seq(S), NEW t \in Seq(S), NEW limit \in Nat \ {0}, Len(p) > limit
  PROVE  PageOf(p \o t, 1, limit) = SubSeq(p, 1, limit)
  <1>1. /\ p \o t \in Seq(S)
        /\ Len(p \o t) = Len(p) + Len(t)
        /\ Len(p) \in Nat /\ Len(t) \in Nat
    BY ConcatProperties, LenProperties
  <1>2. /\ (1 - 1) * limit + 1 = 1
        /\ 1 * limit = limit
    OBVIOUS
  <1>3. limit < Len(p \o t)
    BY <1>1
  <1>4. PageOf(p \o t, 1, limit) = SubSeq(p \o t, 1, limit)
    BY <1>2, <1>3 DEF PageOf
  <1>5. SubSeq(p \o t, 1, limit) = SubSeq(p, 1, limit)
    <2>1. 1 \in 1..Len(p) /\ limit \in 1..Len(p)
      BY <1>1
    <2>2. QED
      BY <2>1, SubSeqOfConcat1
  <1>6. QED
    BY <1>4, <1>5

(* What fits on a page is the page.                                        *)
LEMMA PageOfAll ==
  ASSUME NEW S, NEW s \in Seq(S), NEW limit \in Nat, Len(s) <= limit
  PROVE  PageOf(s, 1, limit) = s
  <1>1. Len(s) \in Nat
    BY LenProperties
  <1>2. /\ (1 - 1) * limit + 1 = 1
        /\ 1 * limit = limit
        /\ ~(limit < Len(s)) \/ limit = Len(s)
    BY <1>1
  <1>3. PageOf(s, 1, limit) = SubSeq(s, 1, Len(s))
    BY <1>2 DEF PageOf
  <1>4. QED
    BY <1>3, SubSeqFull

(* The scan stops early only when it has collected more than a page that the *)
(* known blocks have not given: the first page is that of the reference.   *)
LEMMA FirstPage ==
  ASSUME ListingAssumption, chain \in Chains, up, KnownIsOld, NEW filtered,
         NEW limit \in Nat \ {0}, Len(FromKnown(filtered)) < limit
  PROVE  GetTransactions(filtered, 1, limit) = PageOf(Reference(filtered), 1, limit)
  <1> DEFINE s == Scanned(filtered, limit)
             R == OfLatest(filtered)
             K == FromKnown(filtered)
             C == CoveredBlocks(filtered)
             G == Sorted(s)
  <1>0. Latest \in Nat \ {0} /\ StartHeight \in 1..Latest
    BY ScanHeights
  <1>1. s \in Seq(Tx) /\ ScanAt(s, filtered, limit, StartHeight)
    BY ScannedIs
  <1>2. K \in Seq(Tx) /\ Len(K) \in Nat /\ Len(K) < limit
    BY FromKnownIs, LenProperties
  <1>3. GetTransactions(filtered, 1, limit) = PageOf(FlattenSeq(G), 1, limit)
    <2>1. ~EnoughKnown(filtered, limit)
      BY <1>2 DEF EnoughKnown
    <2>2. NewestFirst(s) = FlattenSeq(G)
      BY DEF NewestFirst, Sorted
    <2>3. QED
      BY <2>1, <2>2 DEF GetTransactions
  <1>4. Reference(filtered) = FlattenSeq(C) /\ C \in [1..Latest -> Seq(Tx)]
    BY CoveredIs
  <1> HIDE DEF s
  <1>5. PICK g \in StartHeight..Latest + 1 :
          ScanIs(s, filtered, g) /\ (g = StartHeight \/ Enough(s, limit))
    BY <1>1 DEF ScanAt
  <1> DEFINE m == Latest + 1 - g
             j == Joined(R, m)
  <1>6. /\ m \in 0..Latest
        /\ \A i \in 1..m : G[i] = R[i] /\ G[i] = C[i]
        /\ g = StartHeight => G = C
    <2>1. m \in 0..Latest
      BY <1>0
    <2>2. /\ \A i \in 1..Latest + 1 - g : /\ Sorted(s)[i] = OfLatest(filtered)[i]
                                         /\ Sorted(s)[i] = CoveredBlocks(filtered)[i]
          /\ g = StartHeight => Sorted(s) = CoveredBlocks(filtered)
      BY <1>1, <1>5, SortedIs
    <2>3. QED
      BY <2>1, <2>2
  <1>7. CASE g = StartHeight
    BY <1>3, <1>4, <1>6, <1>7
  <1>8. CASE Enough(s, limit)
    <2>1. j \in Seq(Tx) /\ Len(j) \in Nat
      <3>1. j \in Seq(Tx)
        BY <1>6, LatestBlocks, AmongBlocks
      <3>2. QED
        BY <3>1, LenProperties
    <2>2. Len(j) > limit
      <3>1. s = K \o j
        BY <1>5 DEF ScanIs
      <3> HIDE DEF K, j
      <3>2. Len(s) = Len(K) + Len(j)
        BY <1>2, <2>1, <3>1, ConcatProperties
      <3>3. Len(s) >= limit * 2
        BY <1>8 DEF Enough
      <3>4. QED
        BY <1>2, <2>1, <3>2, <3>3
    <2>3. G \in [1..Latest -> Seq(Tx)]
      <3>1. OfBlocks(G, Downwards, Latest)
        BY <1>1, SortedBlocks DEF Sorted
      <3>2. QED
        BY <3>1 DEF OfBlocks
    <2> HIDE DEF G, C, R, m
    <2>4. Joined(G, m) = j /\ Joined(C, m) = j
      <3>1. /\ [i \in 1..m |-> G[i]] = [i \in 1..m |-> R[i]]
            /\ [i \in 1..m |-> C[i]] = [i \in 1..m |-> R[i]]
        BY <1>6
      <3>2. QED
        BY <3>1 DEF Joined
    <2> HIDE DEF j
    <2>5. StartsWith(FlattenSeq(G), j, Tx) /\ StartsWith(FlattenSeq(C), j, Tx)
      <3>1. StartsWith(FlattenSeq(G), Joined(G, m), Tx)
        BY <1>0, <1>6, <2>3, JoinedPrefix
      <3>2. StartsWith(FlattenSeq(C), Joined(C, m), Tx)
        BY <1>0, <1>4, <1>6, JoinedPrefix
      <3>3. QED
        BY <2>4, <3>1, <3>2
    <2>6. PICK t \in Seq(Tx), u \in Seq(Tx) : FlattenSeq(G) = j \o t /\ FlattenSeq(C) = j \o u
      BY <2>5 DEF StartsWith
    <2>7. PageOf(j \o t, 1, limit) = SubSeq(j, 1, limit)
      BY <2>1, <2>2, PageOfPrefix
    <2>8. PageOf(j \o u, 1, limit) = SubSeq(j, 1, limit)
      BY <2>1, <2>2, PageOfPrefix
    <2>9. QED
      BY <1>3, <1>4, <2>6, <2>7, <2>8
  <1>9. QED
    BY <1>5, <1>7, <1>8

(* A search whose listing holds everything finds what the reference has.   *)
LEMMA SearchFinds ==
  ASSUME ListingAssumption, chain \in Chains, up, KnownIsOld, NEW filtered,
         NEW for, NEW page, NEW limit,
         Len(Reference(filtered)) <= SearchLimit, Len(FromKnown(filtered)) < SearchLimit
  PROVE  SearchTransactions(filtered, for, page, limit)
           = PageOf(Among(Reference(filtered), Matching(for)), page, limit)
  <1>1. SearchLimit \in Nat \ {0} /\ SearchLimit \in Nat
    BY DEF ListingAssumption
  <1>2. GetTransactions(filtered, 1, SearchLimit) = PageOf(Reference(filtered), 1, SearchLimit)
    BY <1>1, FirstPage
  <1>3. Reference(filtered) \in Seq(Tx)
    <2>1. Latest \in Nat
      BY ScanHeights
    <2> DEFINE C == CoveredBlocks(filtered)
               N == Latest
               S == Tx
    <2>2. N \in Nat /\ C \in [1..N -> Seq(S)] /\ Reference(filtered) = FlattenSeq(C)
      BY <2>1, CoveredIs
    <2> HIDE DEF C, N, S
    <2>3. Joined(C, N) = FlattenSeq(C) /\ FlattenSeq(C) \in Seq(S)
      BY <2>2, JoinedAll
    <2>4. Reference(filtered) \in Seq(S)
      BY <2>2, <2>3
    <2>5. QED
      BY <2>4 DEF S
  <1>4. PageOf(Reference(filtered), 1, SearchLimit) = Reference(filtered)
    BY <1>1, <1>3, PageOfAll
  <1>5. QED
    BY <1>2, <1>4 DEF SearchTransactions

-----------------------------------------------------------------------------
(* What the answers say stays true of the chain they were made from.       *)
Asked == chain \in Chains /\ query \in Query

(* A page and its size are numbers from one.                               *)
LEMMA AskedPage ==
  ASSUME query \in Query
  PROVE  query.page \in Nat \ {0} /\ query.limit \in Nat \ {0}
  <1>1. MaxPage \in Nat /\ MaxLimit \in Nat
    BY ListingAssumption DEF ListingAssumption
  <1>2. query.page \in 1..MaxPage /\ query.limit \in 1..MaxLimit
    BY DEF Query
  <1>3. QED
    BY <1>1, <1>2

(* No answer changes the chain or the request.                             *)
LEMMA AskedStays ==
  ASSUME [ListingNext]_listingVars
  PROVE  /\ chain' = chain /\ query' = query /\ search' = search
         /\ up' = up /\ down' = down
         /\ Asked => Asked'
  BY DEF Asked, ListingNext, ListTransactions, Search, listingVars, Chains, Blocks, Query

(* A page of transactions is in order, newest block first.                 *)
THEOREM PagesInOrder == ListingSpec => []PageInOrder
  <1> DEFINE Inv == Asked /\ PageInOrder
  <1>1. ListingInit => Inv
    BY DEF ListingInit, Asked, PageInOrder
  <1>2. Inv /\ [ListingNext]_listingVars => Inv'
    <2>1. SUFFICES ASSUME Inv, [ListingNext]_listingVars
                   PROVE  PageInOrder'
      BY AskedStays
    <2>2. CASE ListTransactions
      <3>1. query.page \in Nat \ {0} /\ query.limit \in Nat
        BY <2>1, AskedPage DEF Asked
      <3>2. Descends(GetTransactions(query.filtered, query.page, query.limit))
        BY <2>1, <3>1, ListingAssumption, AnswerDescends DEF Asked
      <3>3. list' = GetTransactions(query.filtered, query.page, query.limit)
        BY <2>2 DEF ListTransactions
      <3>4. Descends(list')
        BY <3>2, <3>3
      <3>5. QED
        BY <3>4 DEF PageInOrder, Descends
    <2>3. CASE Search
      BY <2>1, <2>3 DEF Search, PageInOrder
    <2>4. CASE UNCHANGED listingVars
      BY <2>1, <2>4 DEF listingVars, PageInOrder
    <2>5. QED
      BY <2>1, <2>2, <2>3, <2>4 DEF ListingNext
  <1>3. QED
    BY <1>1, <1>2, PTL DEF ListingSpec

(* The operators of the properties depend on the chain only.               *)
LEMMA SameChain ==
  ASSUME chain' = chain, down' = down, NEW filtered
  PROVE  /\ KnownIsOld' <=> KnownIsOld
         /\ Len(FromKnown(filtered))' = Len(FromKnown(filtered))
         /\ Reference(filtered)' = Reference(filtered)
  <1>1. Latest' = Latest /\ StartHeight' = StartHeight
    BY DEF Latest, StartHeight
  <1>2. \A h : Txs(h)' = Txs(h)
    BY DEF Txs
  <1>3. \A h : Fetch(h, filtered)' = Fetch(h, filtered)
    BY <1>1, <1>2 DEF Fetch
  <1>4. FromKnown(filtered)' = FromKnown(filtered)
    BY <1>3 DEF FromKnown
  <1>5. KnownIsOld' <=> KnownIsOld
    BY <1>1 DEF KnownIsOld
  <1>6. Covered' = Covered
    BY <1>1 DEF Covered
  <1>7. Reference(filtered)' = Reference(filtered)
    BY <1>1, <1>2, <1>6 DEF Reference
  <1>8. QED
    BY <1>4, <1>5, <1>7

(* Without the latest block a search finds nothing.                        *)
LEMMA NothingFound ==
  ASSUME ~up, NEW filtered, NEW for, NEW page \in Nat \ {0}, NEW limit \in Nat \ {0}
  PROVE  SearchTransactions(filtered, for, page, limit) = << >>
  <1>1. GetTransactions(filtered, 1, SearchLimit) = << >>
    BY DEF GetTransactions
  <1>2. Among(<< >>, Matching(for)) = << >>
    <2>1. << >> \in Seq({}) /\ {} \cap Matching(for) = {}
      BY EmptySeq
    <2>2. QED
      BY <2>1, AmongNone
  <1>3. PageOf(<< >>, page, limit) = << >>
    <2> DEFINE first == (page - 1) * limit + 1
               last == IF page * limit < 0 THEN page * limit ELSE 0
    <2>1. Len(<< >>) = 0
      BY EmptySeq
    <2>2. PageOf(<< >>, page, limit) = SubSeq(<< >>, first, last)
      BY <2>1 DEF PageOf
    <2>3. first \in Nat \ {0} /\ last = 0
      <3>1. \A a, b \in Nat : a * b \in Nat
        OBVIOUS
      <3>2. (page - 1) * limit \in Nat /\ page * limit \in Nat
        BY <3>1
      <3>3. QED
        BY <3>2
    <2> HIDE DEF first, last
    <2>4. QED
      BY <2>2, <2>3
  <1>4. QED
    BY <1>1, <1>2, <1>3 DEF SearchTransactions

ListIsNewest ==
  /\ up
  /\ KnownIsOld
  /\ "list" \in done
  /\ query.page = 1
  /\ Len(FromKnown(query.filtered)) < query.limit
  => list = PageOf(Reference(query.filtered), 1, query.limit)

SearchIsComplete ==
  /\ up
  /\ KnownIsOld
  /\ "search" \in done
  /\ Len(Reference(query.filtered)) <= SearchLimit
  /\ Len(FromKnown(query.filtered)) < SearchLimit
  => found = PageOf(Among(Reference(query.filtered), Matching(search)),
                    query.page, query.limit)

EmptyIfDown == ~up => list = << >> /\ found = << >>

(* For any chain and limits, and any queries that fail: the first page has *)
(* the newest of the transactions that the node gives and that parse, and  *)
(* a search finds all of them that match, if one listing holds everything; *)
(* both are empty if the latest block is not to be had.                    *)
THEOREM FirstPagesAreNewest == ListingSpec => []FirstPageIsNewest
  <1> DEFINE Inv == Asked /\ ListIsNewest /\ SearchIsComplete /\ EmptyIfDown
  <1>1. ListingInit => Inv
    BY DEF ListingInit, Asked, ListIsNewest, SearchIsComplete, EmptyIfDown
  <1>2. Inv /\ [ListingNext]_listingVars => Inv'
    <2>1. SUFFICES ASSUME Inv, [ListingNext]_listingVars
                   PROVE  ListIsNewest' /\ SearchIsComplete' /\ EmptyIfDown'
      BY AskedStays
    <2>2. chain' = chain /\ down' = down /\ query' = query /\ search' = search /\ up' = up
      BY <2>1, AskedStays
    <2>3. /\ KnownIsOld' <=> KnownIsOld
          /\ Len(FromKnown(query.filtered))' = Len(FromKnown(query.filtered))
          /\ Reference(query.filtered)' = Reference(query.filtered)
      BY <2>2, SameChain
    <2>a. query.page \in Nat \ {0} /\ query.limit \in Nat \ {0}
      BY <2>1, AskedPage DEF Asked
    <2>4. CASE ListTransactions
      <3>1. ASSUME up, KnownIsOld, query.page = 1,
                   Len(FromKnown(query.filtered)) < query.limit
            PROVE  list' = PageOf(Reference(query.filtered), 1, query.limit)
        <4>1. list' = GetTransactions(query.filtered, 1, query.limit)
          BY <2>4, <3>1 DEF ListTransactions
        <4>2. QED
          BY <2>1, <2>a, <3>1, <4>1, FirstPage, ListingAssumption DEF Asked
      <3>2. ListIsNewest'
        BY <2>2, <2>3, <3>1 DEF ListIsNewest, PageOf
      <3>3. ("search" \in done' <=> "search" \in done) /\ found' = found
        BY <2>4 DEF ListTransactions
      <3>4. SearchIsComplete'
        BY <2>1, <2>2, <2>3, <3>3 DEF SearchIsComplete, PageOf, Among, Matching
      <3>5. EmptyIfDown'
        BY <2>1, <2>2, <2>4, <3>3 DEF EmptyIfDown, ListTransactions, GetTransactions
      <3>6. QED
        BY <3>2, <3>4, <3>5
    <2>5. CASE Search
      <3>1. found' = SearchTransactions(query.filtered, search, query.page, query.limit)
        BY <2>5 DEF Search
      <3>2. ASSUME up, KnownIsOld,
                   Len(Reference(query.filtered)) <= SearchLimit,
                   Len(FromKnown(query.filtered)) < SearchLimit
            PROVE  found' = PageOf(Among(Reference(query.filtered), Matching(search)),
                                   query.page, query.limit)
        BY <2>1, <3>1, <3>2, SearchFinds, ListingAssumption DEF Asked
      <3>3. SearchIsComplete'
        BY <2>2, <2>3, <3>2 DEF SearchIsComplete, PageOf, Among, Matching
      <3>4. list' = list /\ ("list" \in done' <=> "list" \in done)
        BY <2>5 DEF Search
      <3>5. ListIsNewest'
        BY <2>1, <2>2, <2>3, <3>4 DEF ListIsNewest, PageOf
      <3>6. EmptyIfDown'
        BY <2>1, <2>2, <2>a, <3>1, <3>4, NothingFound DEF EmptyIfDown
      <3>7. QED
        BY <3>3, <3>5, <3>6
    <2>6. CASE UNCHANGED listingVars
      <3>1. done' = done /\ list' = list /\ found' = found
        BY <2>6 DEF listingVars
      <3>2. QED
        BY <2>1, <2>2, <2>3, <3>1 DEF ListIsNewest, SearchIsComplete, EmptyIfDown, PageOf, Among, Matching
    <2>7. QED
      BY <2>1, <2>4, <2>5, <2>6 DEF ListingNext
  <1>3. Inv => FirstPageIsNewest
    BY DEF ListIsNewest, SearchIsComplete, EmptyIfDown, FirstPageIsNewest
  <1>4. QED
    BY <1>1, <1>2, <1>3, PTL DEF ListingSpec
=============================================================================
