--------------------------- MODULE AccountTransfer ---------------------------
(***************************************************************************)
(* base.perf.asyncTransfer: TransferServiceImpl.transfer() chains          *)
(* AccountServiceImpl.add() calls on CompletableFutures.                   *)
(*                                                                         *)
(* Every supplyAsync/thenApplyAsync body runs on the common pool, in       *)
(* parallel with those of other transfers and with the rest of its own, so *)
(* each body is one or more actions.  A transfer makes at most three add() *)
(* calls, its legs: "debit" takes the amount from the source, "credit"     *)
(* gives it to the target, "refund" is the one in retryTransfer().  The    *)
(* HashMap of balances has no lock: add() reads, and writes in a later     *)
(* step what it computed from the value read.                              *)
(***************************************************************************)
EXTENDS Integers, FiniteSets, Functions

CONSTANTS Transfer,         \* the calls of transfer()
          From, To,         \* [Transfer -> account ids]
          Amount,           \* [Transfer -> JavaInt], the code does not check its sign
          Opening,          \* [accounts of accountMap -> balances]
          IntMax            \* Integer.MAX_VALUE, 2^31 - 1

Leg == {"debit", "credit", "refund"}
Known == DOMAIN Opening

JavaInt == -IntMax - 1 .. IntMax

\* int arithmetic; a sum or a change of sign leaves the range once at most.
Wrap(n) ==
  IF n > IntMax THEN n - 2 * (IntMax + 1)
  ELSE IF n < -IntMax - 1 THEN n + 2 * (IntMax + 1)
  ELSE n

ASSUME TransferAssumption == IsFiniteSet(Transfer)
ASSUME IntAssumption == IntMax \in Nat
ASSUME OpeningAssumption == Opening \in [Known -> 0 .. IntMax]
ASSUME AmountAssumption == Amount \in [Transfer -> JavaInt]

VARIABLES
  balance,    \* accountMap
  leg,        \* progress of the add() body of each leg
  seen,       \* curAmount, read by the add() body of each leg
  at,         \* the stage of each transfer
  result,     \* result, of each transfer
  reply,      \* what the future returned by transfer() completes with
  overwrote   \* history: some put() replaced a value other than the one read

vars == <<balance, leg, seen, at, result, reply, overwrote>>

Progress == {"idle", "asked", "read", "added", "refused", "thrown"}
Stage == {"idle", "debiting", "undoing", "crediting", "recovering", "finished"}
Reply == {"none", "0", "-1", "null"}

Account(x, l) == IF l = "credit" THEN To[x] ELSE From[x]
Delta(x, l) == IF l = "debit" THEN Wrap(-1 * Amount[x]) ELSE Amount[x]

TypeOK ==
  /\ balance \in [Known -> JavaInt]
  /\ leg \in [Transfer -> [Leg -> Progress]]
  /\ seen \in [Transfer -> [Leg -> JavaInt]]
  /\ at \in [Transfer -> Stage]
  /\ result \in [Transfer -> {"0", "-1"}]
  /\ reply \in [Transfer -> Reply]
  /\ overwrote \in BOOLEAN

Init ==
  /\ balance = Opening
  /\ leg = [x \in Transfer |-> [l \in Leg |-> "idle"]]
  /\ seen = [x \in Transfer |-> [l \in Leg |-> 0]]
  /\ at = [x \in Transfer |-> "idle"]
  /\ result = [x \in Transfer |-> "-1"]
  /\ reply = [x \in Transfer |-> "none"]
  /\ overwrote = FALSE

-----------------------------------------------------------------------------
(* AccountServiceImpl.add                                                  *)

\* Faulty variant: the test for sufficient funds is missing.
ReadUnchecked(x, l) ==
  /\ leg[x][l] = "asked"
  /\ leg' = [leg EXCEPT ![x][l] = IF Account(x, l) \in Known THEN "read" ELSE "thrown"]
  /\ seen' = IF Account(x, l) \in Known
             THEN [seen EXCEPT ![x][l] = balance[Account(x, l)]] ELSE seen
  /\ UNCHANGED <<balance, at, result, reply, overwrote>>

\* The body runs up to its put(): an unknown account throws, a sum below zero
\* is refused, and so is one that has passed the largest int.
Read(x, l) ==
  /\ leg[x][l] = "asked"
  /\ \/ /\ Account(x, l) \notin Known
        /\ leg' = [leg EXCEPT ![x][l] = "thrown"]
        /\ UNCHANGED seen
     \/ /\ Account(x, l) \in Known
        /\ leg' = [leg EXCEPT ![x][l] =
             IF Wrap(balance[Account(x, l)] + Delta(x, l)) < 0 THEN "refused" ELSE "read"]
        /\ seen' = [seen EXCEPT ![x][l] = balance[Account(x, l)]]
  /\ UNCHANGED <<balance, at, result, reply, overwrote>>

\* Faulty variant: put(accountId, amount).
PutAmountOnly(x, l) ==
  LET a == Account(x, l) IN
  /\ leg[x][l] = "read"
  /\ balance' = [balance EXCEPT ![a] = Delta(x, l)]
  /\ overwrote' = (overwrote \/ balance[a] # seen[x][l])
  /\ leg' = [leg EXCEPT ![x][l] = "added"]
  /\ UNCHANGED <<seen, at, result, reply>>

\* accountMap.put(accountId, curAmount + amount), with the value read before;
\* the leg's future completes with 0.
Put(x, l) ==
  LET a == Account(x, l) IN
  /\ leg[x][l] = "read"
  /\ balance' = [balance EXCEPT ![a] = Wrap(seen[x][l] + Delta(x, l))]
  /\ overwrote' = (overwrote \/ balance[a] # seen[x][l])
  /\ leg' = [leg EXCEPT ![x][l] = "added"]
  /\ UNCHANGED <<seen, at, result, reply>>

-----------------------------------------------------------------------------
(* TransferServiceImpl.transfer and retryTransfer                          *)

\* The caller calls transfer(): the debit is handed to the pool.
Call(x) ==
  /\ at[x] = "idle"
  /\ at' = [at EXCEPT ![x] = "debiting"]
  /\ leg' = [leg EXCEPT ![x]["debit"] = "asked"]
  /\ UNCHANGED <<balance, seen, result, reply, overwrote>>

\* The debit is done: start the credit ...
Debited(x) ==
  /\ at[x] = "debiting"
  /\ leg[x]["debit"] = "added"
  /\ leg' = [leg EXCEPT ![x]["credit"] = "asked"]
  /\ at' = [at EXCEPT ![x] = "crediting"]
  /\ UNCHANGED <<balance, seen, result, reply, overwrote>>

\* ... and, without waiting for it, return result.get().  That is the initial -1,
\* unless retryTransfer() has set it before: in the else branch always, and when
\* the credit failed at once perhaps.
Answer(x) ==
  /\ at[x] \in {"crediting", "recovering", "finished"}
  /\ reply[x] = "none"
  /\ reply' = [reply EXCEPT ![x] = result[x]]
  /\ UNCHANGED <<balance, leg, seen, at, result, overwrote>>

\* The debit was refused: the else branch calls retryTransfer() all the same,
\* which adds the amount to the source.
DebitRefused(x) ==
  /\ at[x] = "debiting"
  /\ leg[x]["debit"] = "refused"
  /\ leg' = [leg EXCEPT ![x]["refund"] = "asked"]
  /\ at' = [at EXCEPT ![x] = "undoing"]
  /\ UNCHANGED <<balance, seen, result, reply, overwrote>>

\* Faulty variant: without exceptionally() the caller's get() throws.
DebitThrewUncaught(x) ==
  /\ at[x] = "debiting"
  /\ leg[x]["debit"] = "thrown"
  /\ at' = [at EXCEPT ![x] = "finished"]
  /\ reply' = [reply EXCEPT ![x] = "exception"]
  /\ UNCHANGED <<balance, leg, seen, result, overwrote>>

\* The source is not known: exceptionally() answers null.
DebitThrew(x) ==
  /\ at[x] = "debiting"
  /\ leg[x]["debit"] = "thrown"
  /\ at' = [at EXCEPT ![x] = "finished"]
  /\ reply' = [reply EXCEPT ![x] = "null"]
  /\ UNCHANGED <<balance, leg, seen, result, overwrote>>

Credited(x) ==
  /\ at[x] = "crediting"
  /\ leg[x]["credit"] = "added"
  /\ at' = [at EXCEPT ![x] = "finished"]
  /\ UNCHANGED <<balance, leg, seen, result, reply, overwrote>>

\* Faulty variant: a failed credit is logged and no more.
CreditFailureIgnored(x) ==
  /\ at[x] = "crediting"
  /\ leg[x]["credit"] \in {"refused", "thrown"}
  /\ at' = [at EXCEPT ![x] = "finished"]
  /\ UNCHANGED <<balance, leg, seen, result, reply, overwrote>>

\* The credit was refused, or its account is not known: retryTransfer().
CreditFailed(x) ==
  /\ at[x] = "crediting"
  /\ leg[x]["credit"] \in {"refused", "thrown"}
  /\ leg' = [leg EXCEPT ![x]["refund"] = "asked"]
  /\ at' = [at EXCEPT ![x] = "recovering"]
  /\ UNCHANGED <<balance, seen, result, reply, overwrote>>

\* Faulty variant: retryTransfer() does not return before the refund has succeeded.
RetryUntilSuccess(x) ==
  /\ at[x] \in {"undoing", "recovering"}
  /\ leg[x]["refund"] = "added"
  /\ result' = [result EXCEPT ![x] = "0"]
  /\ at' = [at EXCEPT ![x] = "finished"]
  /\ UNCHANGED <<balance, leg, seen, reply, overwrote>>

\* retryTransfer() looks at success right after it has started the refund and
\* leaves the loop whatever it sees (retryTimes is 1, the loop goes on from 5).
\* success is set by thenAccept, some time after the refund's put().  What it
\* returns goes to result, except after a refused credit: there it becomes the
\* value of a future that nobody reads.
RetryTransfer(x) ==
  /\ at[x] \in {"undoing", "recovering"}
  /\ \E success \in IF leg[x]["refund"] = "added" THEN BOOLEAN ELSE {FALSE} :
       result' = IF leg[x]["credit"] = "refused" THEN result
                 ELSE [result EXCEPT ![x] = IF success THEN "0" ELSE "-1"]
  /\ at' = [at EXCEPT ![x] = "finished"]
  /\ UNCHANGED <<balance, leg, seen, reply, overwrote>>

-----------------------------------------------------------------------------
Continue(x) ==
  \/ Debited(x)
  \/ DebitRefused(x)
  \/ DebitThrew(x)
  \/ Credited(x)
  \/ CreditFailed(x)
  \/ RetryTransfer(x)

Add(x, l) == Read(x, l) \/ Put(x, l)

Work(x) == Continue(x) \/ Answer(x) \/ \E l \in Leg : Add(x, l)

Next == \E x \in Transfer : Call(x) \/ Work(x)

Spec == Init /\ [][Next]_vars

\* The common pool runs every body that was handed to it.  A body runs once, so
\* fairness to what a transfer has to do is fairness to each of its bodies.
Fairness == \A x \in Transfer : WF_vars(Work(x))

LiveSpec == Spec /\ Fairness

-----------------------------------------------------------------------------
\* However the unlocked reads and writes of concurrent transfers interleave, no
\* account is ever overdrawn: what put() writes is the value that was checked.
NeverOverdrawn == \A a \in Known : balance[a] >= 0

\* The balance of an account is the opening balance plus every add() that
\* completed on it, exactly, unless two add() calls overlapped on one account
\* so that a put() overwrote another: a lost update is the only way the books
\* can go wrong.
Applied(a) ==
  {xl \in Transfer \X Leg : leg[xl[1]][xl[2]] = "added" /\ Account(xl[1], xl[2]) = a}

Ledger ==
  ~overwrote =>
    \A a \in Known :
      balance[a] = Opening[a] +
        SumFunction([xl \in Applied(a) |-> Delta(xl[1], xl[2])])

Idle(x) == \A l \in Leg : leg[x][l] # "asked" /\ leg[x][l] # "read"

\* Once all the work of a transfer has come to rest, money that left the source
\* has reached the target or has come back, never both; it is neither only when
\* the source has grown so full in the meantime that the refund overflowed an int
\* and add() refused it.  A target was credited only out of a debited source.
RefundOverflows(x) ==
  leg[x]["refund"] = "refused" /\ seen[x]["refund"] + Amount[x] > IntMax

NothingVanishes ==
  \A x \in Transfer :
    /\ at[x] = "finished" /\ Idle(x) /\ Amount[x] >= 0 /\ leg[x]["debit"] = "added" =>
         (leg[x]["credit"] = "added") # (leg[x]["refund"] = "added" \/ RefundOverflows(x))
    /\ leg[x]["credit"] = "added" => leg[x]["debit"] = "added"

\* The future of every call completes, and so does all the work behind it: from
\* some point on, whoever has called has an answer and nothing of it is under way.
CallsComplete ==
  <>[](\A x \in Transfer :
         at[x] # "idle" => reply[x] # "none" /\ at[x] = "finished" /\ Idle(x))

\* TransferService.java: "@return: -1:Failed, 0: successfully".  When all the
\* work of a transfer is over, its reply says whether it moved the money.
ReplyTellsOutcome ==
  \A x \in Transfer :
    at[x] = "finished" /\ Idle(x) =>
      (reply[x] = "0" <=> leg[x]["credit"] = "added")
=============================================================================
