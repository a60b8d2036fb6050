---------------------------- MODULE WalletServer ----------------------------
(***************************************************************************)
(* wallet-manager.js between its HTTP clients and a feicoin node.  A POST  *)
(* request becomes a command line that the server runs in a child process  *)
(* (exec); when the process ends, a callback answers the request.  Many    *)
(* processes run at once, and they outlive a restart of the server.        *)
(*                                                                         *)
(* A transaction command reads the account's sequence number from the      *)
(* node's committed state, signs with it and broadcasts: the node checks   *)
(* the sequence (CheckTx), puts the transaction in its mempool or rejects  *)
(* it, and the command exits with status 0 either way.                     *)
(*                                                                         *)
(* Balances are those of one denomination, token.  The node executes one   *)
(* transaction per block: a block of several is a run of such steps in     *)
(* which nobody else acts.                                                 *)
(***************************************************************************)
EXTENDS Integers, Sequences, FiniteSets

CONSTANTS
  Req,         \* POST requests, by identity
  Request,     \* what each asks for: path, from, to (or name), amount
  Account,     \* accounts of the chain, also the names of their keys
  Missing,     \* a field that the request does not carry
  Alice, Bob,  \* the account of /wallet/send-tokens, and the minter
  GenesisBal   \* balances at the start

SendPath  == {"/transfer", "/wallet/send-tokens", "/token/mint"}
OtherPath == {"/validator/delegate", "/validator/undelegate", "/rewards/withdraw"}
KeyPath   == {"/wallet/create", "/wallet/import"}
TxPath    == SendPath \cup OtherPath \cup {"/token/real-mint"}
Path      == TxPath \cup KeyPath \cup {"no such path", "no JSON"}

ASSUME WalletAssumption ==
  /\ IsFiniteSet(Req)
  /\ Request \in [Req -> [path : Path, from : Account \cup {Missing},
                          to : Account \cup {Missing}, amount : Nat]]
  /\ Missing \notin Account
  /\ Alice \in Account /\ Bob \in Account
  /\ GenesisBal \in [Account -> Nat]

VARIABLES
  answer,    \* per request: "unasked", "waiting", then what the client is told
  proc,      \* per request: its child process
  signedSeq, \* per request: the sequence its transaction is signed with
  keyring,   \* the names that have a key in the test keyring
  mempool,   \* the node's mempool: requests, by their transactions
  seq,       \* committed sequence number of each account
  bal,       \* committed balance of each account
  fate,      \* per request: "none", or what executing its transaction came to
  cutOff     \* history: requests whose broadcast lost the node's reply

node == <<mempool, seq, bal, fate>>
vars == <<answer, proc, signedSeq, keyring, mempool, seq, bal, fate, cutOff>>

TypeOK ==
  /\ answer \in [Req -> {"unasked", "waiting", "refused", "ok", "error", "lost"}]
  /\ proc \in [Req -> {"none", "started", "signed", "exit 0", "exit 1"}]
  /\ signedSeq \in [Req -> Nat]
  /\ keyring \subseteq Account
  /\ mempool \in Seq(Req)
  /\ seq \in [Account -> Nat]
  /\ bal \in [Account -> Nat]
  /\ fate \in [Req -> {"none", "done", "failed"}]
  /\ cutOff \subseteq Req

Init ==
  /\ answer = [r \in Req |-> "unasked"]
  /\ proc = [r \in Req |-> "none"]
  /\ signedSeq = [r \in Req |-> 0]
  /\ keyring \in SUBSET Account
  /\ mempool = << >>
  /\ seq = [a \in Account |-> 0]
  /\ bal = GenesisBal
  /\ fate = [r \in Req |-> "none"]
  /\ cutOff = {}

-----------------------------------------------------------------------------
(* The routes and handlers.                                                *)

(* /wallet/send-tokens always spends alice's coins.                        *)
Sender(r) ==
  IF Request[r].path = "/wallet/send-tokens" THEN Alice ELSE Request[r].from

(* Requests answered with status 400 or 404, without running anything.     *)
(* /transfer and the staking handlers check no field; a command line with  *)
(* "undefined" in it is left to fail.                                      *)
Refused(r) ==
  LET q == Request[r]
  IN  \/ q.path \in {"no such path", "no JSON"}
      \/ q.path \in KeyPath /\ q.to = Missing
      \/ /\ q.path \in {"/token/mint", "/token/real-mint", "/rewards/withdraw"}
         /\ Missing \in {q.from, q.to}

Receive(r) ==
  /\ answer[r] = "unasked"
  /\ IF Refused(r)
     THEN /\ answer' = [answer EXCEPT ![r] = "refused"]
          /\ UNCHANGED proc
     ELSE /\ answer' = [answer EXCEPT ![r] = "waiting"]
          /\ proc' = [proc EXCEPT ![r] = "started"]
  /\ UNCHANGED <<signedSeq, keyring, node, cutOff>>

Exited(r) == proc[r] \in {"exit 0", "exit 1"}

(* Mutant of AnswerOf: the test of error is the wrong way round.           *)
SwappedAnswer(r) == IF proc[r] = "exit 1" THEN "ok" ELSE "error"

AnswerOf(r) == IF proc[r] = "exit 0" THEN "ok" ELSE "error"

(* Mutant of Answered: the error branch returns before it answers.         *)
AnsweredIfOk(r) == proc[r] = "exit 0"

Answered(r) == Exited(r)

(* Mutant of AnswerRequest: a command that failed is run again.            *)
RetryRequest(r) ==
  /\ answer[r] = "waiting"
  /\ Exited(r)
  /\ IF proc[r] = "exit 1"
     THEN proc' = [proc EXCEPT ![r] = "started"] /\ UNCHANGED answer
     ELSE answer' = [answer EXCEPT ![r] = AnswerOf(r)] /\ UNCHANGED proc
  /\ UNCHANGED <<signedSeq, keyring, node, cutOff>>

(* executeCommand's callback.                                              *)
AnswerRequest(r) ==
  /\ answer[r] = "waiting"
  /\ Answered(r)
  /\ answer' = [answer EXCEPT ![r] = AnswerOf(r)]
  /\ UNCHANGED <<proc, signedSeq, keyring, node, cutOff>>

(* The server stops and starts: connections break, child processes go on.  *)
RestartServer ==
  /\ \E r \in Req : answer[r] = "waiting"
  /\ answer' = [r \in Req |-> IF answer[r] = "waiting" THEN "lost" ELSE answer[r]]
  /\ UNCHANGED <<proc, signedSeq, keyring, node, cutOff>>

-----------------------------------------------------------------------------
(* The feicoind command line.                                              *)

Exit(r, status) == proc' = [proc EXCEPT ![r] = status]

(* "keys add" asks before it replaces a key and reads the reply from its   *)
(* standard input: for an import that is the mnemonic, which means no; for *)
(* a new wallet it is a pipe that nobody writes to.                        *)
WaitsForReply(r) ==
  /\ proc[r] = "started"
  /\ Request[r].path = "/wallet/create"
  /\ Request[r].to \in keyring

AddKey(r) ==
  /\ proc[r] = "started"
  /\ Request[r].path \in KeyPath
  /\ ~WaitsForReply(r)
  /\ \/ /\ Request[r].to \notin keyring
        /\ keyring' = keyring \cup {Request[r].to}
        /\ Exit(r, "exit 0")
     \/ /\ Exit(r, "exit 1")
        /\ UNCHANGED keyring
  /\ UNCHANGED <<answer, signedSeq, node, cutOff>>

(* Read the key and the committed sequence, and sign.                      *)
Sign(r) ==
  /\ proc[r] = "started"
  /\ Request[r].path \in TxPath
  /\ Sender(r) \in keyring
  /\ Request[r].to # Missing
  /\ signedSeq' = [signedSeq EXCEPT ![r] = seq[Sender(r)]]
  /\ Exit(r, "signed")
  /\ UNCHANGED <<answer, keyring, node, cutOff>>

(* The key or an argument is missing, or the node cannot be reached.       *)
CommandFails(r) ==
  /\ proc[r] \in {"started", "signed"}
  /\ Request[r].path \in TxPath
  /\ Exit(r, "exit 1")
  /\ UNCHANGED <<answer, signedSeq, keyring, node, cutOff>>

Pending(a) == {i \in 1..Len(mempool) : Sender(mempool[i]) = a}

(* Mutant of CheckTx: any sequence that is not used up passes.             *)
CheckTxLoosely(r) == signedSeq[r] >= seq[Sender(r)]

(* The check state counts the transactions that wait in the mempool.       *)
CheckTx(r) == signedSeq[r] = seq[Sender(r)] + Cardinality(Pending(Sender(r)))

(* The reply says whether CheckTx passed, which the exit status does not;  *)
(* the reply may also be lost on the way.                                  *)
Broadcast(r) ==
  /\ proc[r] = "signed"
  /\ mempool' = IF CheckTx(r) THEN Append(mempool, r) ELSE mempool
  /\ \/ Exit(r, "exit 0") /\ UNCHANGED cutOff
     \/ Exit(r, "exit 1") /\ cutOff' = cutOff \cup {r}
  /\ UNCHANGED <<answer, signedSeq, keyring, seq, bal, fate>>

-----------------------------------------------------------------------------
(* The node.                                                               *)

(* What a transaction does to the token balances if it succeeds; staking   *)
(* and rewards are in another denomination.                                *)
Effect(r, b) ==
  LET q == Request[r]
  IN  CASE q.path \in SendPath ->
             [a \in Account |-> b[a] + (IF a = q.to THEN q.amount ELSE 0)
                                     - (IF a = Sender(r) THEN q.amount ELSE 0)]
        [] q.path = "/token/real-mint" -> [b EXCEPT ![q.to] = @ + q.amount]
        [] OTHER -> b

MaySucceed(r) ==
  /\ Request[r].path \in SendPath => bal[Sender(r)] >= Request[r].amount
  /\ Request[r].path = "/token/real-mint" => Sender(r) = Bob

MayFail(r) == ~MaySucceed(r) \/ Request[r].path \in OtherPath

(* The next transaction: its sequence is used up even if it fails.         *)
Deliver ==
  /\ mempool # << >>
  /\ LET r == Head(mempool)
     IN  /\ \/ /\ MaySucceed(r)
               /\ bal' = Effect(r, bal)
               /\ fate' = [fate EXCEPT ![r] = "done"]
            \/ /\ MayFail(r)
               /\ fate' = [fate EXCEPT ![r] = "failed"]
               /\ UNCHANGED bal
         /\ seq' = [seq EXCEPT ![Sender(r)] = @ + 1]
  /\ mempool' = Tail(mempool)
  /\ UNCHANGED <<answer, proc, signedSeq, keyring, cutOff>>

(* The mempool is not kept on disk.                                        *)
RestartNode ==
  /\ mempool # << >>
  /\ mempool' = << >>
  /\ UNCHANGED <<answer, proc, signedSeq, keyring, seq, bal, fate, cutOff>>

Next ==
  \/ \E r \in Req : \/ Receive(r) \/ AnswerRequest(r)
                    \/ AddKey(r) \/ Sign(r) \/ CommandFails(r) \/ Broadcast(r)
  \/ RestartServer
  \/ Deliver
  \/ RestartNode

Spec == Init /\ [][Next]_vars

(* A child process makes steps until it ends, and node's event loop then   *)
(* runs the callback.                                                      *)
Fairness ==
  \A r \in Req :
    /\ WF_vars(AddKey(r) \/ Sign(r) \/ CommandFails(r) \/ Broadcast(r))
    /\ WF_vars(AnswerRequest(r))

FairSpec == Spec /\ Fairness

-----------------------------------------------------------------------------
(* The transactions of an account wait in the mempool with consecutive     *)
(* sequences from the committed one on: what CheckTx let in is never       *)
(* refused for its sequence when it is executed, whatever the processes    *)
(* that signed concurrently, and the blocks and restarts between.          *)
MempoolInSequence ==
  \A i \in 1..Len(mempool) :
    LET a == Sender(mempool[i])
    IN  signedSeq[mempool[i]] =
          seq[a] + Cardinality({j \in 1..i - 1 : Sender(mempool[j]) = a})

OnChain == {r \in Req : fate[r] # "none"}

(* Two requests that signed with the same sequence of the same account     *)
(* (they ran at the same time) are not both executed.                      *)
OnePerSequence ==
  \A r, s \in OnChain :
    Sender(r) = Sender(s) /\ signedSeq[r] = signedSeq[s] => r = s

(* A request that was told of an error has had no effect and will have     *)
(* none, unless its broadcast lost the node's reply.                       *)
ErrorsAreTrue ==
  \A r \in Req :
    answer[r] = "error" /\ r \notin cutOff =>
      fate[r] = "none" /\ \A i \in 1..Len(mempool) : mempool[i] # r

(* Every request is answered, unless the server restarts while it waits,   *)
(* or it is to make a wallet with a key that exists, perhaps since another *)
(* request has been quicker: that command waits for a reply for ever.      *)
EveryRequestAnswered ==
  \A r \in Req :
    answer[r] = "waiting" ~> answer[r] \in {"ok", "error", "lost"} \/ WaitsForReply(r)

(* Requests, processes, mempool and blocks implement the abstract service. *)
Service == INSTANCE TxService
KeepsService == Service!Spec
=============================================================================
