-------------------------- MODULE PaymentLedgerProofs --------------------------
(***************************************************************************)
(* Theorems about PaymentLedger, for any orders, commands, amounts and     *)
(* number of deliveries.                                                   *)
(***************************************************************************)
EXTENDS PaymentLedger, FiniteSetTheorems, TLAPS

-----------------------------------------------------------------------------
(* Type correctness *)

Run ==
  [at : Steps \cup Answers \cup {"dead"}, command : Commands, amount : Nat,
   outcome : {None, "captured", "authorized", "refunded", "failed"}]

LEMMA IdleOrRun ==
  ASSUME TypeOK, NEW d \in Deliveries
  PROVE  /\ calls[d].at # "idle" => calls[d] \in Run
         /\ calls[d].at = "idle" <=> calls[d] = Idle
<1>1. calls[d] \in {Idle} \cup Run
  BY DEF TypeOK, Call, Run
<1>2. Idle.at = "idle"
  BY DEF Idle
<1>3. \A r \in Run : r.at # "idle"
  BY DEF Run, Steps, Answers
<1> QED BY <1>1, <1>2, <1>3

LEMMA GoesOn ==
  ASSUME TypeOK, NEW d \in Deliveries, calls[d].at # "idle",
         NEW at \in Steps \cup Answers \cup {"dead"}, Goes(d, at)
  PROVE  /\ calls' \in [Deliveries -> Call]
         /\ calls'[d].at = at /\ calls'[d].command = calls[d].command
         /\ calls'[d].amount = calls[d].amount /\ calls'[d].outcome = calls[d].outcome
         /\ calls'[d] # Idle
         /\ \A e \in Deliveries \ {d} : calls'[e] = calls[e]
<1>1. calls[d] \in Run
  BY IdleOrRun
<1>2. calls' = [calls EXCEPT ![d].at = at] /\ calls \in [Deliveries -> Call]
  BY DEF Goes, TypeOK
<1>3. /\ calls'[d] \in Run /\ calls'[d].at = at
      /\ calls'[d].command = calls[d].command
      /\ calls'[d].amount = calls[d].amount /\ calls'[d].outcome = calls[d].outcome
  BY <1>1, <1>2 DEF Run
<1>4. \A e \in Deliveries \ {d} : calls'[e] = calls[e]
  BY <1>2
<1>5. calls' \in [Deliveries -> Call]
  BY <1>2, <1>3 DEF Call, Run
<1>6. at # "idle"
  BY DEF Steps, Answers
<1> QED BY <1>3, <1>4, <1>5, <1>6 DEF Idle

LEMMA RefundTyped ==
  ASSUME TypeOK, NEW d \in Deliveries, refunds[d] # Unrecorded
  PROVE  refunds[d] \in Refund
BY DEF TypeOK

LEMMA PaymentTyped ==
  ASSUME TypeOK, NEW d \in Deliveries, payments[d] # Unrecorded
  PROVE  payments[d] \in Payment
BY DEF TypeOK

LEMMA RememberedIsAnswer ==
  ASSUME NEW c PROVE Remembered(c) \in {"ok", "declined"}
BY DEF Remembered

(* The steps of a run, as what they make of it. *)

LEMMA LookUpMoves ==
  ASSUME TypeOK, NEW d \in Deliveries, NEW c \in Commands, LookUp(d, c)
  PROVE  /\ calls' \in [Deliveries -> Call]
         /\ calls'[d] # Idle /\ calls'[d].command = c
         /\ claimed[c] # None => calls'[d].at = Remembered(c)
         /\ claimed[c] = None /\ c \in Captures => calls'[d].at = "charging"
         /\ claimed[c] = None /\ c \in Collections =>
              calls'[d].at = "recording" /\ calls'[d].outcome = "captured"
         /\ claimed[c] = None /\ c \in Refunds => calls'[d].at = "reading"
         /\ \A e \in Deliveries \ {d} : calls'[e] = calls[e]
<1> USE CommandsApart
<1> DEFINE at == CASE claimed[c] # None -> Remembered(c)
                   [] claimed[c] = None /\ c \in Captures    -> "charging"
                   [] claimed[c] = None /\ c \in Collections -> "recording"
                   [] claimed[c] = None /\ c \in Refunds     -> "reading"
           outcome == IF c \in Collections THEN "captured" ELSE None
           new == [at |-> at, command |-> c, amount |-> 0, outcome |-> outcome]
<1>1. /\ claimed[c] # None => at = Remembered(c)
      /\ claimed[c] = None /\ c \in Captures => at = "charging"
      /\ claimed[c] = None /\ c \in Collections => at = "recording"
      /\ claimed[c] = None /\ c \in Refunds => at = "reading"
  BY DEF Takings
<1>2. at \in {"ok", "declined", "charging", "recording", "reading"}
  BY <1>1, RememberedIsAnswer DEF Commands, Takings
<1>3. /\ calls' = [calls EXCEPT ![d] = new] /\ calls \in [Deliveries -> Call]
  BY DEF LookUp, TypeOK
<1>4. calls'[d] = new /\ \A e \in Deliveries \ {d} : calls'[e] = calls[e]
  BY <1>3
<1> HIDE DEF at
<1>5. new \in Run
  BY <1>2 DEF Run, Steps, Answers
<1>6. calls' \in [Deliveries -> Call]
  BY <1>3, <1>5 DEF Call, Run
<1>7. new # Idle
  BY <1>2 DEF Idle
<1> QED BY <1>1, <1>4, <1>6, <1>7

LEMMA ProviderAnswers ==
  ASSUME TypeOK, NEW d \in Deliveries, calls[d].at # "idle",
         NEW at \in {"recording", "deciding"},
         NEW outcome \in {"captured", "authorized", "refunded", "failed"},
         calls' = [calls EXCEPT ![d].at = at, ![d].outcome = outcome]
  PROVE  /\ calls' \in [Deliveries -> Call]
         /\ calls'[d].at = at /\ calls'[d].outcome = outcome
         /\ calls'[d].command = calls[d].command /\ calls'[d] # Idle
         /\ \A e \in Deliveries \ {d} : calls'[e] = calls[e]
<1>1. calls[d] \in Run
  BY IdleOrRun
<1>2. calls \in [Deliveries -> Call]
  BY DEF TypeOK
<1>3. /\ calls'[d] \in Run /\ calls'[d].at = at /\ calls'[d].outcome = outcome
      /\ calls'[d].command = calls[d].command
  BY <1>1, <1>2 DEF Run, Steps
<1>4. \A e \in Deliveries \ {d} : calls'[e] = calls[e]
  BY <1>2
<1>5. calls' \in [Deliveries -> Call]
  BY <1>2, <1>3 DEF Call, Run
<1>6. Idle.at = "idle" /\ at # "idle"
  BY DEF Idle
<1>7. calls'[d] # Idle
  BY <1>3, <1>6
<1> QED BY <1>3, <1>4, <1>5, <1>7

LEMMA ShareRead ==
  ASSUME TypeOK, NEW d \in Deliveries, calls[d].command \in Refunds, ReadShare(d),
         \A o \in Orders : allocations[o].refunded <= allocations[o].captured
  PROVE  /\ calls' \in [Deliveries -> Call]
         /\ calls'[d].at \in {"nothing", "exceeds", "reserving"}
         /\ calls'[d].at = "reserving" => calls'[d].amount > 0
         /\ calls'[d].command = calls[d].command /\ calls'[d] # Idle
         /\ \A e \in Deliveries \ {d} : calls'[e] = calls[e]
<1> DEFINE r == RefundOf[calls[d].command]
           amount == IF r.amount = 0 THEN Remaining(r.order) ELSE r.amount
<1>1. r.order \in Orders /\ r.amount \in Nat
  BY SharesArePaid
<1>2. Remaining(r.order) \in Nat
  <2>1. allocations[r.order] \in [captured : Nat, refunded : Nat]
    BY <1>1 DEF TypeOK
  <2> QED BY <1>1, <2>1 DEF Remaining
<1>3. calls[d] \in Run /\ calls[d].at # "idle" /\ calls \in [Deliveries -> Call]
  BY IdleOrRun DEF ReadShare, At, TypeOK
<1>4. CASE Goes(d, "nothing") \/ Goes(d, "exceeds")
  <2>1. PICK at \in {"nothing", "exceeds"} : Goes(d, at)
    BY <1>4
  <2> QED BY <1>3, <2>1, GoesOn DEF Answers
<1>5. CASE /\ ~(amount = 0 \/ amount > Remaining(r.order))
           /\ allocations[r.order].captured # 0
           /\ calls' = [calls EXCEPT ![d].at = "reserving", ![d].amount = amount]
  <2>1. amount \in Nat /\ amount > 0
    BY <1>1, <1>2, <1>5
  <2> HIDE DEF amount
  <2>2. /\ calls'[d] \in Run /\ calls'[d].at = "reserving" /\ calls'[d].amount = amount
        /\ calls'[d].command = calls[d].command
    BY <1>3, <1>5, <2>1 DEF Run, Steps
  <2>3. \A e \in Deliveries \ {d} : calls'[e] = calls[e]
    BY <1>3, <1>5
  <2>4. calls' \in [Deliveries -> Call]
    BY <1>3, <1>5, <2>2 DEF Call, Run
  <2> QED BY <2>1, <2>2, <2>3, <2>4 DEF Idle
<1> QED BY <1>4, <1>5 DEF ReadShare

-----------------------------------------------------------------------------
(* The inductive invariant *)

Untouched(d) ==
  payments[d] = Unrecorded /\ refunds[d] = Unrecorded /\ d \notin sentBack

(* How far a run got says what it is a run of and what it wrote.             *)
Stands(d) ==
  LET at == calls[d].at
  IN  /\ at \in {"idle", "charging", "recording", "reading", "reserving"} => Untouched(d)
      /\ at \in {"charging", "recording"} => calls[d].command \in Takings
      /\ at = "recording" => calls[d].outcome \in {"captured", "authorized", "failed"}
      /\ at \in {"reading", "reserving", "sending", "deciding"} => calls[d].command \in Refunds
      /\ at = "reserving" => calls[d].amount > 0
      /\ at \in {"sending", "deciding"} =>
           refunds[d] # Unrecorded /\ refunds[d].status = "pending"
      /\ at = "sending" => d \notin sentBack
      /\ at = "deciding" => calls[d].outcome \in {"refunded", "failed"}

CallsStand == \A d \in Deliveries : Stands(d)

(* A record is remembered by the command of the run that made it.            *)
RecordsAreClaimed ==
  \A d \in Deliveries :
    /\ payments[d] # Unrecorded =>
         /\ calls[d] # Idle /\ calls[d].command = payments[d].command
         /\ claimed[calls[d].command] = d
    /\ refunds[d] # Unrecorded =>
         /\ calls[d] # Idle /\ calls[d].command \in Refunds
         /\ claimed[calls[d].command] = d

ClaimsAreRecorded ==
  \A c \in Commands :
    claimed[c] # None =>
      /\ calls[claimed[c]] # Idle /\ calls[claimed[c]].command = c
      /\ c \in Takings => payments[claimed[c]] # Unrecorded
      /\ c \in Refunds => refunds[claimed[c]] # Unrecorded

(* What the provider sent back is never let go of.                           *)
Kept(d) ==
  /\ refunds[d] # Unrecorded
  /\ \/ refunds[d].status = "refunded"
     \/ /\ refunds[d].status = "pending"
        /\ calls[d].outcome = "refunded" /\ calls[d].at \in {"deciding", "dead"}

SentIsKept == \A d \in sentBack : Kept(d)

Live(o) == {d \in RefundsOf(o) : refunds[d].status # "failed"}

Back(ds) == UNION {Units(d, refunds[d].amount) : d \in ds}

Balanced(o) ==
  /\ IsFiniteSet(Back(Live(o)))
  /\ allocations[o].refunded = Cardinality(Back(Live(o)))
  /\ allocations[o].refunded <= allocations[o].captured

BooksKept == \A o \in Orders : Balanced(o)

(* A captured payment holds every order it names.                            *)
PaidIsAllocated ==
  \A d \in Deliveries : payments[d].status = "captured" =>
    \A o \in Named(payments[d].command) : allocations[o].captured > 0

PaidByOne ==
  \A d, e \in Deliveries :
    (/\ payments[d].status = "captured" /\ payments[e].status = "captured"
     /\ Named(payments[d].command) \cap Named(payments[e].command) # {})
      => d = e

AnswerStands(d) ==
  Answered(d) /\ calls[d].command \in Takings =>
    claimed[calls[d].command] # None /\ calls[d].at = Remembered(calls[d].command)

AnswersStand == \A d \in Deliveries : AnswerStands(d)

LedgerInv ==
  /\ TypeOK
  /\ CallsStand
  /\ RecordsAreClaimed
  /\ ClaimsAreRecorded
  /\ SentIsKept
  /\ BooksKept
  /\ PaidIsAllocated
  /\ PaidByOne
  /\ AnswersStand

LEMMA LedgerInitial == Init => LedgerInv
<1> SUFFICES ASSUME Init PROVE LedgerInv
  OBVIOUS
<1>1. TypeOK
  BY CommandsApart DEF Init, TypeOK, Call, NoShare
<1>2. /\ \A d \in Deliveries : calls[d] = Idle /\ calls[d].at = "idle" /\ Untouched(d)
      /\ \A d \in Deliveries : payments[d].status = None
      /\ \A c \in Commands : claimed[c] = None
  BY DEF Init, Idle, Untouched, Unrecorded
<1>3. CallsStand
  BY <1>2 DEF CallsStand, Stands
<1>4. RecordsAreClaimed /\ ClaimsAreRecorded /\ PaidIsAllocated /\ PaidByOne
  BY <1>2 DEF RecordsAreClaimed, ClaimsAreRecorded, PaidIsAllocated, PaidByOne, Untouched, None
<1>5. SentIsKept /\ AnswersStand
  BY <1>2 DEF Init, SentIsKept, AnswersStand, AnswerStands, Answered
<1>6. BooksKept
  <2> SUFFICES ASSUME NEW o \in Orders PROVE Balanced(o)
    BY DEF BooksKept
  <2>1. Back(Live(o)) = {}
    BY <1>2 DEF Back, Live, RefundsOf, Untouched
  <2>2. allocations[o].refunded = 0 /\ allocations[o].captured = 0
    BY DEF Init, NoShare
  <2> QED BY <2>1, <2>2, FS_EmptySet DEF Balanced
<1> QED BY <1>1, <1>3, <1>4, <1>5, <1>6 DEF LedgerInv

-----------------------------------------------------------------------------
(* Steps that write no record *)

LEMMA NothingRecorded ==
  ASSUME LedgerInv, NEW d \in Deliveries,
         UNCHANGED <<payments, refunds, allocations, claimed, sentBack>>,
         calls' \in [Deliveries -> Call], charged' \in SUBSET Deliveries,
         calls'[d] # Idle, calls[d] = Idle \/ calls'[d].command = calls[d].command,
         \A e \in Deliveries \ {d} : calls'[e] = calls[e],
         Stands(d)', AnswerStands(d)', d \in sentBack => Kept(d)'
  PROVE  LedgerInv'
<1> USE DEF LedgerInv
<1>1. TypeOK'
  BY DEF TypeOK
<1>2. CallsStand'
  BY DEF CallsStand, Stands, Untouched
<1>3. RecordsAreClaimed'
  BY DEF RecordsAreClaimed
<1>4. ClaimsAreRecorded'
  BY DEF ClaimsAreRecorded, TypeOK
<1>5. SentIsKept'
  BY DEF SentIsKept, Kept, TypeOK
<1>6. BooksKept'
  BY DEF BooksKept, Balanced, Back, Live, RefundsOf
<1>7. PaidIsAllocated' /\ PaidByOne'
  BY DEF PaidIsAllocated, PaidByOne
<1>8. AnswersStand'
  BY DEF AnswersStand, AnswerStands, Answered, Remembered
<1> QED BY <1>1, <1>2, <1>3, <1>4, <1>5, <1>6, <1>7, <1>8

LEMMA LookUpKeeps ==
  ASSUME LedgerInv, NEW d \in Deliveries, NEW c \in Commands, LookUp(d, c)
  PROVE  LedgerInv'
<1> USE CommandsApart DEF LedgerInv
<1>1. /\ calls' \in [Deliveries -> Call]
      /\ calls'[d] # Idle /\ calls'[d].command = c
      /\ claimed[c] # None => calls'[d].at = Remembered(c)
      /\ claimed[c] = None /\ c \in Captures => calls'[d].at = "charging"
      /\ claimed[c] = None /\ c \in Collections =>
           calls'[d].at = "recording" /\ calls'[d].outcome = "captured"
      /\ claimed[c] = None /\ c \in Refunds => calls'[d].at = "reading"
      /\ \A e \in Deliveries \ {d} : calls'[e] = calls[e]
  BY LookUpMoves
<1>2. UNCHANGED <<payments, refunds, allocations, claimed, charged, sentBack>>
  BY DEF LookUp
<1>3. calls[d] = Idle /\ Untouched(d)
  BY IdleOrRun DEF LookUp, At, CallsStand, Stands
<1>4. c \in Captures \/ c \in Collections \/ c \in Refunds
  BY DEF Commands, Takings
<1>5. Stands(d)'
  BY <1>1, <1>2, <1>3, <1>4, RememberedIsAnswer DEF Stands, Untouched, Takings
<1>6. AnswerStands(d)'
  <2>1. Remembered(c)' = Remembered(c)
    BY <1>2 DEF Remembered
  <2>2. CASE claimed[c] # None
    BY <1>1, <1>2, <2>1, <2>2 DEF AnswerStands
  <2>3. CASE claimed[c] = None
    <3>1. calls'[d].at \in {"charging", "recording", "reading"}
      BY <1>1, <1>4, <2>3
    <3> QED BY <3>1 DEF AnswerStands, Answered
  <2> QED BY <2>2, <2>3
<1>7. d \notin sentBack
  BY <1>3 DEF Untouched
<1>8. charged' \in SUBSET Deliveries
  BY <1>2 DEF TypeOK
<1> HIDE DEF LedgerInv
<1> QED BY <1>1, <1>2, <1>3, <1>5, <1>6, <1>7, <1>8, NothingRecorded

LEMMA DiesKeeps ==
  ASSUME LedgerInv, NEW d \in Deliveries, Dies(d)
  PROVE  LedgerInv'
<1> USE DEF LedgerInv
<1>1. calls[d].at # "idle" /\ Goes(d, "dead") /\ calls[d].at \in Steps
  BY DEF Dies, Steps
<1>2. /\ calls' \in [Deliveries -> Call]
      /\ calls'[d].at = "dead" /\ calls'[d].command = calls[d].command
      /\ calls'[d].outcome = calls[d].outcome /\ calls'[d] # Idle
      /\ \A e \in Deliveries \ {d} : calls'[e] = calls[e]
  BY <1>1, GoesOn
<1>3. UNCHANGED <<payments, refunds, allocations, claimed, charged, sentBack>>
  BY DEF Dies
<1>4. Stands(d)' /\ AnswerStands(d)'
  BY <1>2 DEF Stands, AnswerStands, Answered
<1>5. d \in sentBack => Kept(d)'
  BY <1>2, <1>3 DEF SentIsKept, Kept
<1>6. charged' \in SUBSET Deliveries
  BY <1>3 DEF TypeOK
<1> HIDE DEF LedgerInv
<1> QED BY <1>2, <1>3, <1>4, <1>5, <1>6, NothingRecorded

LEMMA ChargeKeeps ==
  ASSUME LedgerInv, NEW d \in Deliveries, Charge(d)
  PROVE  LedgerInv'
<1> USE DEF LedgerInv
<1>1. PICK outcome \in {"captured", "authorized", "failed"} :
        /\ calls' = [calls EXCEPT ![d].at = "recording", ![d].outcome = outcome]
        /\ charged' = IF outcome = "captured" THEN charged \cup {d} ELSE charged
  BY DEF Charge
<1>2. /\ calls[d].at = "charging" /\ Untouched(d) /\ calls[d].command \in Takings
      /\ UNCHANGED <<payments, refunds, allocations, claimed, sentBack>>
  BY DEF Charge, At, CallsStand, Stands
<1>3. /\ calls' \in [Deliveries -> Call]
      /\ calls'[d].at = "recording" /\ calls'[d].outcome = outcome
      /\ calls'[d].command = calls[d].command /\ calls'[d] # Idle
      /\ \A e \in Deliveries \ {d} : calls'[e] = calls[e]
  BY <1>1, <1>2, ProviderAnswers
<1>4. Stands(d)' /\ AnswerStands(d)'
  BY <1>2, <1>3 DEF Stands, AnswerStands, Answered, Untouched
<1>5. d \notin sentBack /\ charged' \in SUBSET Deliveries
  BY <1>1, <1>2 DEF Untouched, TypeOK
<1> HIDE DEF LedgerInv
<1> QED BY <1>2, <1>3, <1>4, <1>5, NothingRecorded

LEMMA AnswersAlike ==
  ASSUME LedgerInv, NEW d \in Deliveries, calls[d].at \in {"recording", "reserving"},
         NEW at \in {"ok", "declined", "duplicateKey", "exceeds"}, Goes(d, at),
         at \in {"ok", "declined"} =>
           claimed[calls[d].command] # None /\ at = Remembered(calls[d].command),
         UNCHANGED <<payments, refunds, allocations, claimed, charged, sentBack>>
  PROVE  LedgerInv'
<1> USE DEF LedgerInv
<1>1. Untouched(d) /\ calls[d].at # "idle"
  BY DEF CallsStand, Stands
<1>2. /\ calls' \in [Deliveries -> Call]
      /\ calls'[d].at = at /\ calls'[d].command = calls[d].command /\ calls'[d] # Idle
      /\ \A e \in Deliveries \ {d} : calls'[e] = calls[e]
  BY <1>1, GoesOn DEF Answers
<1>3. Stands(d)'
  BY <1>2 DEF Stands
<1>4. AnswerStands(d)'
  <2>1. \A c : Remembered(c)' = Remembered(c)
    BY DEF Remembered
  <2> QED BY <1>2, <2>1 DEF AnswerStands, Answered
<1>5. d \notin sentBack /\ charged' \in SUBSET Deliveries
  BY <1>1 DEF Untouched, TypeOK
<1> HIDE DEF LedgerInv
<1> QED BY <1>2, <1>3, <1>4, <1>5, NothingRecorded

LEMMA CaptureNotRecordedKeeps ==
  ASSUME LedgerInv, NEW d \in Deliveries, CaptureNotRecorded(d)
  PROVE  LedgerInv'
<1>1. /\ calls[d].at = "recording"
      /\ UNCHANGED <<payments, refunds, allocations, claimed, charged, sentBack>>
  BY DEF CaptureNotRecorded, At
<1>2. CASE claimed[calls[d].command] # None /\ Goes(d, Remembered(calls[d].command))
  BY <1>1, <1>2, RememberedIsAnswer, AnswersAlike
<1>3. CASE Goes(d, "duplicateKey")
  BY <1>1, <1>3, AnswersAlike
<1> QED BY <1>2, <1>3 DEF CaptureNotRecorded

LEMMA RefundNotReservedKeeps ==
  ASSUME LedgerInv, NEW d \in Deliveries, RefundNotReserved(d)
  PROVE  LedgerInv'
<1>1. /\ calls[d].at = "reserving"
      /\ UNCHANGED <<payments, refunds, allocations, claimed, charged, sentBack>>
  BY DEF RefundNotReserved, At
<1>2. CASE claimed[calls[d].command] # None /\ Goes(d, Remembered(calls[d].command))
  BY <1>1, <1>2, RememberedIsAnswer, AnswersAlike
<1>3. CASE Goes(d, "exceeds")
  BY <1>1, <1>3, AnswersAlike
<1> QED BY <1>2, <1>3 DEF RefundNotReserved

LEMMA ReadShareKeeps ==
  ASSUME LedgerInv, NEW d \in Deliveries, ReadShare(d)
  PROVE  LedgerInv'
<1> USE DEF LedgerInv
<1>1. /\ calls[d].at = "reading" /\ Untouched(d) /\ calls[d].command \in Refunds
      /\ UNCHANGED <<payments, refunds, allocations, claimed, charged, sentBack>>
  BY DEF ReadShare, At, CallsStand, Stands
<1>2. /\ calls' \in [Deliveries -> Call]
      /\ calls'[d].at \in {"nothing", "exceeds", "reserving"}
      /\ calls'[d].at = "reserving" => calls'[d].amount > 0
      /\ calls'[d].command = calls[d].command /\ calls'[d] # Idle
      /\ \A e \in Deliveries \ {d} : calls'[e] = calls[e]
  <2>1. \A o \in Orders : allocations[o].refunded <= allocations[o].captured
    BY DEF BooksKept, Balanced
  <2> QED BY <1>1, <2>1, ShareRead
<1>3. Stands(d)' /\ AnswerStands(d)'
  BY <1>1, <1>2 DEF Stands, AnswerStands, Answered, Untouched
<1>4. d \notin sentBack /\ charged' \in SUBSET Deliveries
  BY <1>1 DEF Untouched, TypeOK
<1> HIDE DEF LedgerInv
<1> QED BY <1>1, <1>2, <1>3, <1>4, NothingRecorded

-----------------------------------------------------------------------------
(* Taking money *)

LEMMA RecordCaptureKeeps ==
  ASSUME LedgerInv, NEW d \in Deliveries, RecordCapture(d)
  PROVE  LedgerInv'
<1> USE CommandsApart, SharesArePaid DEF LedgerInv
<1> DEFINE captured == calls[d].outcome = "captured"
           at == IF captured THEN "ok" ELSE "declined"
<1>1. /\ calls[d].at = "recording" /\ Untouched(d) /\ calls[d].command \in Takings
      /\ calls[d].outcome \in {"captured", "authorized", "failed"}
  BY DEF RecordCapture, At, CallsStand, Stands
<1>2. PICK c \in Takings : c = calls[d].command
  BY <1>1
<1>3. c \in Commands /\ c \notin Refunds
  BY DEF Commands
<1>4. /\ claimed[c] = None
      /\ captured => ~PaidFor(c)
      /\ payments' = [payments EXCEPT ![d] = [command |-> c, status |-> calls[d].outcome]]
      /\ claimed' = [claimed EXCEPT ![c] = d]
      /\ allocations' =
           [o \in Orders |-> IF captured /\ o \in Named(c)
                             THEN [captured |-> Shares[c][o], refunded |-> 0]
                             ELSE allocations[o]]
      /\ UNCHANGED <<refunds, charged, sentBack>>
  BY <1>2 DEF RecordCapture
<1>5. /\ calls' \in [Deliveries -> Call]
      /\ calls'[d].at = at /\ calls'[d].command = c /\ calls'[d] # Idle
      /\ \A e \in Deliveries \ {d} : calls'[e] = calls[e]
  <2>1. Goes(d, at) /\ at \in Answers /\ calls[d].at # "idle"
    BY <1>1 DEF RecordCapture, Answers
  <2> HIDE DEF at
  <2> QED BY <1>2, <2>1, GoesOn
<1>6. /\ payments'[d].command = c /\ payments'[d].status = calls[d].outcome
      /\ payments'[d] # Unrecorded /\ payments'[d] \in Payment
      /\ \A e \in Deliveries \ {d} : payments'[e] = payments[e]
  BY <1>1, <1>4 DEF TypeOK, Payment, Unrecorded, None
<1>7. claimed'[c] = d /\ \A k \in Commands \ {c} : claimed'[k] = claimed[k]
  BY <1>3, <1>4 DEF TypeOK
<1>8. \A o \in Orders :
        /\ captured /\ o \in Named(c) =>
             /\ allocations'[o].captured = Shares[c][o] /\ Shares[c][o] \in Nat
             /\ Shares[c][o] > 0 /\ allocations'[o].refunded = 0
        /\ ~(captured /\ o \in Named(c)) => allocations'[o] = allocations[o]
  BY <1>4 DEF Named
<1>9. TypeOK'
  <2>1. payments' \in [Deliveries -> Payment \cup {Unrecorded}]
    BY <1>4, <1>6 DEF TypeOK
  <2>2. allocations' \in [Orders -> [captured : Nat, refunded : Nat]]
    BY <1>4 DEF TypeOK
  <2>3. claimed' \in [Commands -> Deliveries \cup {None}]
    BY <1>3, <1>4 DEF TypeOK
  <2> QED BY <1>4, <1>5, <2>1, <2>2, <2>3 DEF TypeOK
<1>10. CallsStand'
  BY <1>4, <1>5, <1>6 DEF CallsStand, Stands, Untouched
<1>11. RecordsAreClaimed'
  <2>1. \A e \in Deliveries \ {d} :
          (payments[e] # Unrecorded \/ refunds[e] # Unrecorded) =>
            calls[e].command \in Commands /\ calls[e].command # c
    <3> SUFFICES ASSUME NEW e \in Deliveries \ {d},
                        payments[e] # Unrecorded \/ refunds[e] # Unrecorded
                 PROVE  calls[e].command \in Commands /\ calls[e].command # c
      OBVIOUS
    <3>1. calls[e] # Idle /\ claimed[calls[e].command] = e
      BY DEF RecordsAreClaimed
    <3>2. calls[e].command \in Commands
      BY <3>1, IdleOrRun DEF Run
    <3> QED BY <1>4, <3>1, <3>2
  <2> QED BY <1>1, <1>4, <1>5, <1>6, <1>7, <2>1 DEF RecordsAreClaimed, Untouched
<1>12. ClaimsAreRecorded'
  <2> SUFFICES ASSUME NEW k \in Commands, claimed'[k] # None
               PROVE  /\ calls'[claimed'[k]] # Idle /\ calls'[claimed'[k]].command = k
                      /\ k \in Takings => payments'[claimed'[k]] # Unrecorded
                      /\ k \in Refunds => refunds'[claimed'[k]] # Unrecorded
    BY DEF ClaimsAreRecorded
  <2>1. CASE k = c
    BY <1>3, <1>5, <1>6, <1>7, <2>1
  <2>2. CASE k # c
    <3>1. /\ claimed'[k] = claimed[k] /\ claimed[k] \in Deliveries /\ claimed[k] # None
          /\ calls[claimed[k]] # Idle /\ calls[claimed[k]].command = k
      BY <1>7, <2>2 DEF ClaimsAreRecorded, TypeOK
    <3>2. claimed[k] # d
      BY <1>2, <2>2, <3>1
    <3> QED BY <1>4, <1>5, <1>6, <3>1, <3>2 DEF ClaimsAreRecorded
  <2> QED BY <2>1, <2>2
<1>13. SentIsKept'
  BY <1>1, <1>4, <1>5 DEF SentIsKept, Kept, TypeOK, Untouched
<1>14. BooksKept'
  <2> SUFFICES ASSUME NEW o \in Orders PROVE Balanced(o)'
    BY DEF BooksKept
  <2>1. Balanced(o) /\ Back(Live(o))' = Back(Live(o))
    BY <1>4 DEF BooksKept, Back, Live, RefundsOf
  <2>2. CASE captured /\ o \in Named(c)
    <3>1. allocations[o].captured = 0 /\ allocations[o].refunded = 0
      <4>1. ~(allocations[o].captured > 0)
        BY <1>4, <2>2 DEF PaidFor
      <4>2. allocations[o].captured \in Nat /\ allocations[o].refunded \in Nat
        BY DEF TypeOK
      <4> QED BY <2>1, <4>1, <4>2 DEF Balanced
    <3> QED BY <1>8, <2>1, <2>2, <3>1 DEF Balanced
  <2>3. CASE ~(captured /\ o \in Named(c))
    BY <1>8, <2>1, <2>3 DEF Balanced
  <2> QED BY <2>2, <2>3
<1>15. \A o \in Orders : allocations[o].captured > 0 => allocations'[o].captured > 0
  BY <1>8
<1>16. PaidIsAllocated'
  BY <1>2, <1>6, <1>8, <1>15 DEF PaidIsAllocated, Named
<1>17. PaidByOne'
  <2> SUFFICES ASSUME NEW e \in Deliveries \ {d}, captured,
                      payments[e].status = "captured",
                      Named(c) \cap Named(payments[e].command) # {}
               PROVE  FALSE
    BY <1>6 DEF PaidByOne, Named
  <2> QED BY <1>4 DEF PaidIsAllocated, PaidFor, Named
<1>18. AnswersStand'
  <2> SUFFICES ASSUME NEW e \in Deliveries PROVE AnswerStands(e)'
    BY DEF AnswersStand
  <2>1. CASE e = d
    <3>1. Remembered(c)' = at
      BY <1>3, <1>6, <1>7 DEF Remembered
    <3>2. claimed'[c] # None
      BY <1>7
    <3> QED BY <1>5, <2>1, <3>1, <3>2 DEF AnswerStands
  <2>2. CASE e # d
    <3> SUFFICES ASSUME NEW k \in Takings, k = calls[e].command, Answered(e)
                 PROVE  claimed'[k] # None /\ calls[e].at = Remembered(k)'
      BY <1>5, <2>2 DEF AnswerStands, Answered, Remembered
    <3>1. claimed[k] # None /\ calls[e].at = Remembered(k) /\ k \in Commands
      BY DEF AnswersStand, AnswerStands, Commands
    <3>2. claimed'[k] = claimed[k] /\ claimed[k] \in Deliveries
      BY <1>4, <1>7, <3>1 DEF TypeOK
    <3>3. claimed[k] # d
      BY <1>1, <3>1 DEF ClaimsAreRecorded, Untouched
    <3>4. Remembered(k)' = Remembered(k)
      BY <1>4, <1>6, <3>2, <3>3 DEF Remembered
    <3> QED BY <3>1, <3>2, <3>4
  <2> QED BY <2>1, <2>2
<1> QED BY <1>9, <1>10, <1>11, <1>12, <1>13, <1>14, <1>16, <1>17, <1>18

-----------------------------------------------------------------------------
(* Counting what was given back *)

LEMMA UnitsSize ==
  ASSUME NEW id, NEW n \in Nat
  PROVE  IsFiniteSet(Units(id, n)) /\ Cardinality(Units(id, n)) = n
<1>1. IsFiniteSet(1 .. n) /\ Cardinality(1 .. n) = n
  BY FS_Interval
<1>2. IsFiniteSet({id}) /\ Cardinality({id}) = 1
  BY FS_Singleton
<1> QED BY <1>1, <1>2, FS_Product DEF Units

LEMMA AddUnits ==
  ASSUME NEW S, IsFiniteSet(S), NEW id, NEW n \in Nat, S \cap Units(id, n) = {}
  PROVE  /\ IsFiniteSet(S \cup Units(id, n))
         /\ Cardinality(S \cup Units(id, n)) = Cardinality(S) + n
<1>1. Cardinality(S) \in Nat /\ Cardinality({}) = 0
  BY FS_CardinalityType, FS_EmptySet
<1>2. IsFiniteSet(Units(id, n)) /\ Cardinality(Units(id, n)) = n
  BY UnitsSize
<1>3. /\ IsFiniteSet(S \cup Units(id, n))
      /\ Cardinality(S \cup Units(id, n))
           = Cardinality(S) + n - Cardinality(S \cap Units(id, n))
  BY <1>2, FS_Union
<1>4. Cardinality(S \cap Units(id, n)) = 0
  BY <1>1
<1> QED BY <1>1, <1>3, <1>4

LEMMA RemoveUnits ==
  ASSUME NEW S, IsFiniteSet(S), NEW id, NEW n \in Nat, Units(id, n) \subseteq S
  PROVE  /\ IsFiniteSet(S \ Units(id, n))
         /\ Cardinality(S \ Units(id, n)) = Cardinality(S) - n
<1>1. S \cap Units(id, n) = Units(id, n)
  OBVIOUS
<1>2. Cardinality(Units(id, n)) = n
  BY UnitsSize
<1>3. /\ IsFiniteSet(S \ Units(id, n))
      /\ Cardinality(S \ Units(id, n))
           = Cardinality(S) - Cardinality(S \cap Units(id, n))
  BY FS_Difference
<1> QED BY <1>1, <1>2, <1>3

LEMMA RefundAdded ==
  ASSUME NEW d \in Deliveries, refunds \in [Deliveries -> Refund \cup {Unrecorded}],
         refunds[d] = Unrecorded, NEW r \in Refund, r.status = "pending",
         refunds' = [refunds EXCEPT ![d] = r], NEW o \in Orders
  PROVE  /\ Back(Live(o)) \cap Units(d, r.amount) = {}
         /\ Back(Live(o))' = IF r.order = o THEN Back(Live(o)) \cup Units(d, r.amount)
                                            ELSE Back(Live(o))
<1>1. d \notin Live(o) /\ r # Unrecorded
  BY DEF Live, RefundsOf, Refund, Unrecorded, None
<1>2. Live(o)' = IF r.order = o THEN Live(o) \cup {d} ELSE Live(o)
  BY <1>1 DEF Live, RefundsOf
<1>3. /\ \A e \in Live(o) : refunds'[e].amount = refunds[e].amount
      /\ refunds'[d].amount = r.amount
  BY <1>1 DEF Live
<1>4. Back(Live(o)) \cap Units(d, r.amount) = {}
  BY <1>1 DEF Back, Units
<1>5. CASE r.order = o
  BY <1>2, <1>3, <1>4, <1>5 DEF Back, Units
<1>6. CASE r.order # o
  BY <1>2, <1>3, <1>4, <1>6 DEF Back, Units
<1> QED BY <1>5, <1>6

LEMMA RefundDecided ==
  ASSUME NEW d \in Deliveries, refunds \in [Deliveries -> Refund \cup {Unrecorded}],
         refunds[d] # Unrecorded, refunds[d].status = "pending",
         NEW s \in {"refunded", "failed"},
         refunds' = [refunds EXCEPT ![d].status = s], NEW o \in Orders
  PROVE  Back(Live(o))' =
           IF s = "failed" /\ refunds[d].order = o
           THEN Back(Live(o)) \ Units(d, refunds[d].amount) ELSE Back(Live(o))
<1>1. /\ refunds[d] \in Refund /\ refunds'[d] \in Refund
      /\ refunds'[d].order = refunds[d].order /\ refunds'[d].amount = refunds[d].amount
      /\ refunds'[d].status = s /\ refunds'[d] # Unrecorded
      /\ \A e \in Deliveries \ {d} : refunds'[e] = refunds[e]
  BY DEF Refund, Unrecorded, None
<1>2. Live(o)' = IF s = "failed" THEN Live(o) \ {d} ELSE Live(o)
  BY <1>1 DEF Live, RefundsOf
<1>3. d \in Live(o) <=> refunds[d].order = o
  BY <1>1 DEF Live, RefundsOf
<1>4. \A e \in Deliveries : refunds'[e].amount = refunds[e].amount
  BY <1>1
<1>5. Live(o) \subseteq Deliveries
  BY DEF Live, RefundsOf
<1>6. CASE s = "failed" /\ refunds[d].order = o
  BY <1>2, <1>3, <1>4, <1>5, <1>6 DEF Back, Units
<1>7. CASE ~(s = "failed" /\ refunds[d].order = o)
  <2>1. Live(o)' = Live(o)
    BY <1>2, <1>3, <1>7
  <2> QED BY <1>4, <1>5, <1>7, <2>1 DEF Back, Units
<1> QED BY <1>6, <1>7

LEMMA UnitsOfLive ==
  ASSUME NEW o, NEW d \in Live(o)
  PROVE  Units(d, refunds[d].amount) \subseteq Back(Live(o))
BY DEF Back

-----------------------------------------------------------------------------
(* Giving money back *)

LEMMA ReserveRefundKeeps ==
  ASSUME LedgerInv, NEW d \in Deliveries, ReserveRefund(d)
  PROVE  LedgerInv'
<1> USE CommandsApart, SharesArePaid DEF LedgerInv
<1>1. /\ calls[d].at = "reserving" /\ Untouched(d) /\ calls[d].command \in Refunds
      /\ calls[d].amount > 0
  BY DEF ReserveRefund, At, CallsStand, Stands
<1>2. PICK c \in Refunds : c = calls[d].command
  BY <1>1
<1>3. PICK n \in Nat \ {0} : n = calls[d].amount
  <2>1. calls[d] \in Run
    BY <1>1, IdleOrRun
  <2> QED BY <1>1, <2>1 DEF Run
<1>4. PICK p \in Orders : p = RefundOf[c].order
  OBVIOUS
<1>5. c \in Commands /\ c \notin Takings
  BY DEF Commands
<1>6. /\ claimed[c] = None
      /\ n <= Remaining(p)
      /\ allocations' = [allocations EXCEPT ![p].refunded = @ + n]
      /\ refunds' = [refunds EXCEPT ![d] = [order |-> p, amount |-> n, status |-> "pending"]]
      /\ claimed' = [claimed EXCEPT ![c] = d]
      /\ UNCHANGED <<payments, charged, sentBack>>
  BY <1>2, <1>3, <1>4 DEF ReserveRefund
<1>7. /\ calls' \in [Deliveries -> Call]
      /\ calls'[d].at = "sending" /\ calls'[d].command = c /\ calls'[d] # Idle
      /\ \A e \in Deliveries \ {d} : calls'[e] = calls[e]
  <2>1. Goes(d, "sending") /\ calls[d].at # "idle"
    BY <1>1 DEF ReserveRefund
  <2> QED BY <1>2, <2>1, GoesOn DEF Steps
<1>8. PICK r \in Refund : r = [order |-> p, amount |-> n, status |-> "pending"]
  BY DEF Refund
<1>9. r.order = p /\ r.amount = n /\ r.status = "pending" /\ r # Unrecorded
  BY <1>8 DEF Unrecorded, None
<1>10. /\ refunds' = [refunds EXCEPT ![d] = r]
       /\ refunds'[d] = r /\ \A e \in Deliveries \ {d} : refunds'[e] = refunds[e]
  BY <1>6, <1>8 DEF TypeOK
<1>11. claimed'[c] = d /\ \A k \in Commands \ {c} : claimed'[k] = claimed[k]
  BY <1>5, <1>6 DEF TypeOK
<1>12. /\ \A o \in Orders : /\ allocations[o].captured \in Nat
                             /\ allocations[o].refunded \in Nat
       /\ \A o \in Orders : /\ allocations'[o].captured = allocations[o].captured
                             /\ allocations'[o].refunded =
                                  allocations[o].refunded + (IF o = p THEN n ELSE 0)
  BY <1>6 DEF TypeOK
<1>13. TypeOK'
  <2>1. refunds' \in [Deliveries -> Refund \cup {Unrecorded}]
    BY <1>10 DEF TypeOK
  <2>2. allocations' \in [Orders -> [captured : Nat, refunded : Nat]]
    BY <1>6 DEF TypeOK
  <2>3. claimed' \in [Commands -> Deliveries \cup {None}]
    BY <1>5, <1>6 DEF TypeOK
  <2> QED BY <1>6, <1>7, <2>1, <2>2, <2>3 DEF TypeOK
<1>14. CallsStand'
  BY <1>1, <1>2, <1>6, <1>7, <1>9, <1>10 DEF CallsStand, Stands, Untouched
<1>15. RecordsAreClaimed'
  <2>1. \A e \in Deliveries \ {d} :
          (payments[e] # Unrecorded \/ refunds[e] # Unrecorded) =>
            calls[e].command \in Commands /\ calls[e].command # c
    <3> SUFFICES ASSUME NEW e \in Deliveries \ {d},
                        payments[e] # Unrecorded \/ refunds[e] # Unrecorded
                 PROVE  calls[e].command \in Commands /\ calls[e].command # c
      OBVIOUS
    <3>1. calls[e] # Idle /\ claimed[calls[e].command] = e
      BY DEF RecordsAreClaimed
    <3>2. calls[e].command \in Commands
      BY <3>1, IdleOrRun DEF Run
    <3> QED BY <1>6, <3>1, <3>2
  <2> QED BY <1>1, <1>6, <1>7, <1>10, <1>11, <2>1 DEF RecordsAreClaimed, Untouched
<1>16. ClaimsAreRecorded'
  <2> SUFFICES ASSUME NEW k \in Commands, claimed'[k] # None
               PROVE  /\ calls'[claimed'[k]] # Idle /\ calls'[claimed'[k]].command = k
                      /\ k \in Takings => payments'[claimed'[k]] # Unrecorded
                      /\ k \in Refunds => refunds'[claimed'[k]] # Unrecorded
    BY DEF ClaimsAreRecorded
  <2>1. CASE k = c
    BY <1>5, <1>7, <1>9, <1>10, <1>11, <2>1
  <2>2. CASE k # c
    <3>1. /\ claimed'[k] = claimed[k] /\ claimed[k] \in Deliveries /\ claimed[k] # None
          /\ calls[claimed[k]] # Idle /\ calls[claimed[k]].command = k
      BY <1>11, <2>2 DEF ClaimsAreRecorded, TypeOK
    <3>2. claimed[k] # d
      BY <1>2, <2>2, <3>1
    <3> QED BY <1>6, <1>7, <1>10, <3>1, <3>2 DEF ClaimsAreRecorded
  <2> QED BY <2>1, <2>2
<1>17. SentIsKept'
  BY <1>1, <1>6, <1>7, <1>10 DEF SentIsKept, Kept, TypeOK, Untouched
<1>18. BooksKept'
  <2> SUFFICES ASSUME NEW o \in Orders PROVE Balanced(o)'
    BY DEF BooksKept
  <2>1. Balanced(o)
    BY DEF BooksKept
  <2>2. /\ Back(Live(o)) \cap Units(d, n) = {}
        /\ Back(Live(o))' = IF p = o THEN Back(Live(o)) \cup Units(d, n) ELSE Back(Live(o))
    <3>1. refunds \in [Deliveries -> Refund \cup {Unrecorded}] /\ refunds[d] = Unrecorded
      BY <1>1 DEF TypeOK, Untouched
    <3>2. r.status = "pending" /\ refunds' = [refunds EXCEPT ![d] = r]
      BY <1>9, <1>10
    <3>3. /\ Back(Live(o)) \cap Units(d, r.amount) = {}
          /\ Back(Live(o))' = IF r.order = o THEN Back(Live(o)) \cup Units(d, r.amount)
                                             ELSE Back(Live(o))
      BY <3>1, <3>2, RefundAdded
    <3> QED BY <1>9, <3>3
  <2>3. CASE p = o
    <3>1. /\ IsFiniteSet(Back(Live(o)) \cup Units(d, n))
          /\ Cardinality(Back(Live(o)) \cup Units(d, n)) = Cardinality(Back(Live(o))) + n
      BY <2>1, <2>2, AddUnits DEF Balanced
    <3>2. allocations[o].refunded + n <= allocations[o].captured
      BY <1>6, <1>12, <2>3 DEF Remaining
    <3> QED BY <1>12, <2>1, <2>2, <2>3, <3>1, <3>2 DEF Balanced
  <2>4. CASE p # o
    BY <1>12, <2>1, <2>2, <2>4 DEF Balanced
  <2> QED BY <2>3, <2>4
<1>19. PaidIsAllocated' /\ PaidByOne'
  BY <1>6, <1>12 DEF PaidIsAllocated, PaidByOne, Named
<1>20. AnswersStand'
  <2> SUFFICES ASSUME NEW e \in Deliveries, NEW k \in Takings,
                      k = calls'[e].command, Answered(e)'
               PROVE  claimed'[k] # None /\ calls'[e].at = Remembered(k)'
    BY DEF AnswersStand, AnswerStands, Remembered
  <2>1. e # d
    BY <1>7 DEF Answered
  <2>2. claimed[k] # None /\ calls[e].at = Remembered(k)
    BY <1>7, <2>1 DEF AnswersStand, AnswerStands, Answered
  <2>3. claimed'[k] = claimed[k]
    BY <1>5, <1>11 DEF Commands
  <2>4. Remembered(k)' = Remembered(k)
    BY <1>6, <2>3 DEF Remembered
  <2> QED BY <1>7, <2>1, <2>2, <2>3, <2>4
<1> QED BY <1>13, <1>14, <1>15, <1>16, <1>17, <1>18, <1>19, <1>20

LEMMA SendBackKeeps ==
  ASSUME LedgerInv, NEW d \in Deliveries, SendBack(d)
  PROVE  LedgerInv'
<1> USE CommandsApart DEF LedgerInv
<1>1. PICK outcome \in {"refunded", "failed"} :
        /\ calls' = [calls EXCEPT ![d].at = "deciding", ![d].outcome = outcome]
        /\ sentBack' = IF outcome = "refunded" THEN sentBack \cup {d} ELSE sentBack
  BY DEF SendBack
<1>2. /\ calls[d].at = "sending" /\ refunds[d] # Unrecorded /\ refunds[d].status = "pending"
      /\ calls[d].command \in Refunds /\ d \notin sentBack
      /\ UNCHANGED <<payments, refunds, allocations, claimed, charged>>
  BY DEF SendBack, At, CallsStand, Stands
<1>3. /\ calls' \in [Deliveries -> Call]
      /\ calls'[d].at = "deciding" /\ calls'[d].outcome = outcome
      /\ calls'[d].command = calls[d].command /\ calls'[d] # Idle
      /\ \A e \in Deliveries \ {d} : calls'[e] = calls[e]
  BY <1>1, <1>2, ProviderAnswers
<1>4. calls[d] # Idle
  BY <1>2, IdleOrRun
<1>5. TypeOK'
  BY <1>1, <1>2, <1>3 DEF TypeOK
<1>6. CallsStand'
  BY <1>1, <1>2, <1>3 DEF CallsStand, Stands, Untouched
<1>7. RecordsAreClaimed'
  BY <1>2, <1>3, <1>4 DEF RecordsAreClaimed
<1>8. ClaimsAreRecorded'
  BY <1>2, <1>3, <1>4 DEF ClaimsAreRecorded, TypeOK
<1>9. SentIsKept'
  BY <1>1, <1>2, <1>3 DEF SentIsKept, Kept, TypeOK
<1>10. BooksKept'
  BY <1>2 DEF BooksKept, Balanced, Back, Live, RefundsOf
<1>11. PaidIsAllocated' /\ PaidByOne'
  BY <1>2 DEF PaidIsAllocated, PaidByOne
<1>12. AnswersStand'
  BY <1>2, <1>3 DEF AnswersStand, AnswerStands, Answered, Remembered
<1> QED BY <1>5, <1>6, <1>7, <1>8, <1>9, <1>10, <1>11, <1>12

LEMMA RefundDecisionKeeps ==
  ASSUME LedgerInv, NEW d \in Deliveries, DecideRefund(d)
  PROVE  LedgerInv'
<1> USE CommandsApart DEF LedgerInv
<1>1. /\ calls[d].at = "deciding" /\ refunds[d] # Unrecorded /\ refunds[d].status = "pending"
      /\ calls[d].command \in Refunds /\ calls[d].outcome \in {"refunded", "failed"}
  BY DEF DecideRefund, At, CallsStand, Stands
<1>2. PICK s \in {"refunded", "failed"} : s = calls[d].outcome
  BY <1>1
<1>3. PICK r \in Refund : r = refunds[d]
  BY <1>1 DEF TypeOK
<1>4. r.order \in Orders /\ r.amount \in Nat \ {0} /\ r.status = "pending" /\ d \in Live(r.order)
  BY <1>1, <1>3 DEF Refund, Live, RefundsOf
<1>5. /\ refunds' = [refunds EXCEPT ![d].status = s]
      /\ allocations' = IF s = "refunded" THEN allocations
                        ELSE [allocations EXCEPT ![r.order].refunded = @ - r.amount]
      /\ UNCHANGED <<payments, claimed, charged, sentBack>>
  BY <1>2, <1>3 DEF DecideRefund
<1>6. /\ calls' \in [Deliveries -> Call]
      /\ calls'[d].at \in {"ok", "declined"} /\ calls'[d].command = calls[d].command
      /\ calls'[d] # Idle
      /\ \A e \in Deliveries \ {d} : calls'[e] = calls[e]
  <2>1. PICK at \in {"ok", "declined"} : Goes(d, at)
    BY DEF DecideRefund
  <2>2. calls[d].at # "idle" /\ at \in Answers
    BY <1>1 DEF Answers
  <2> QED BY <2>1, <2>2, GoesOn
<1>7. /\ refunds'[d] = [r EXCEPT !.status = s] /\ refunds'[d] \in Refund
      /\ refunds'[d] # Unrecorded /\ refunds'[d].status = s
      /\ \A e \in Deliveries \ {d} : refunds'[e] = refunds[e]
  BY <1>3, <1>5 DEF TypeOK, Refund, Unrecorded, None
<1>8. /\ \A o \in Orders : /\ allocations[o].captured \in Nat
                            /\ allocations[o].refunded \in Nat
      /\ \A o \in Orders :
           /\ allocations'[o].captured = allocations[o].captured
           /\ allocations'[o].refunded = allocations[o].refunded
                - (IF s = "failed" /\ o = r.order THEN r.amount ELSE 0)
  BY <1>4, <1>5 DEF TypeOK
<1>9. BooksKept'
  <2> SUFFICES ASSUME NEW o \in Orders PROVE Balanced(o)'
    BY DEF BooksKept
  <2>1. Balanced(o)
    BY DEF BooksKept
  <2>2. Back(Live(o))' = IF s = "failed" /\ r.order = o
                         THEN Back(Live(o)) \ Units(d, r.amount) ELSE Back(Live(o))
    <3>1. refunds \in [Deliveries -> Refund \cup {Unrecorded}]
      BY DEF TypeOK
    <3> QED BY <1>1, <1>3, <1>5, <3>1, RefundDecided
  <2>3. CASE s = "failed" /\ r.order = o
    <3>1. Units(d, r.amount) \subseteq Back(Live(o))
      BY <1>3, <1>4, <2>3, UnitsOfLive
    <3>2. /\ IsFiniteSet(Back(Live(o)) \ Units(d, r.amount))
          /\ Cardinality(Back(Live(o)) \ Units(d, r.amount))
               = Cardinality(Back(Live(o))) - r.amount
      BY <1>4, <2>1, <3>1, RemoveUnits DEF Balanced
    <3>3. r.amount \in Nat
      BY <1>4
    <3> QED BY <1>8, <2>1, <2>2, <2>3, <3>2, <3>3 DEF Balanced
  <2>4. CASE ~(s = "failed" /\ r.order = o)
    BY <1>8, <2>1, <2>2, <2>4 DEF Balanced
  <2> QED BY <2>3, <2>4
<1>10. TypeOK'
  <2>1. refunds' \in [Deliveries -> Refund \cup {Unrecorded}]
    BY <1>5, <1>7 DEF TypeOK
  <2>2. \A o \in Orders : allocations'[o].refunded \in Nat
    <3> SUFFICES ASSUME NEW o \in Orders PROVE allocations'[o].refunded \in Nat
      OBVIOUS
    <3> QED BY <1>9, FS_CardinalityType DEF BooksKept, Balanced
  <2>3. allocations' \in [Orders -> [captured : Nat, refunded : Nat]]
    <3>1. CASE s = "refunded"
      BY <1>5, <3>1 DEF TypeOK
    <3>2. CASE s = "failed"
      <4>1. allocations' = [allocations EXCEPT ![r.order].refunded = @ - r.amount]
        BY <1>5, <3>2
      <4>2. allocations[r.order].refunded - r.amount \in Nat
        BY <1>4, <1>8, <2>2, <3>2
      <4>3. /\ [allocations[r.order] EXCEPT !.refunded = @ - r.amount]
                 \in [captured : Nat, refunded : Nat]
            /\ allocations \in [Orders -> [captured : Nat, refunded : Nat]]
        BY <1>4, <4>2 DEF TypeOK
      <4> QED BY <1>4, <4>1, <4>3
    <3> QED BY <3>1, <3>2
  <2> QED BY <1>5, <1>6, <2>1, <2>3 DEF TypeOK
<1>11. calls[d] # Idle
  BY <1>1, IdleOrRun
<1>12. CallsStand'
  BY <1>5, <1>6, <1>7 DEF CallsStand, Stands, Untouched
<1>13. RecordsAreClaimed'
  <2> SUFFICES ASSUME NEW e \in Deliveries
               PROVE  /\ payments[e] # Unrecorded =>
                           /\ calls'[e] # Idle /\ calls'[e].command = payments[e].command
                           /\ claimed[calls'[e].command] = e
                      /\ refunds'[e] # Unrecorded =>
                           /\ calls'[e] # Idle /\ calls'[e].command \in Refunds
                           /\ claimed[calls'[e].command] = e
    BY <1>5 DEF RecordsAreClaimed
  <2>1. calls'[e].command = calls[e].command /\ (calls[e] # Idle => calls'[e] # Idle)
    BY <1>6
  <2>2. refunds'[e] # Unrecorded => refunds[e] # Unrecorded
    BY <1>1, <1>7
  <2> QED BY <2>1, <2>2 DEF RecordsAreClaimed
<1>14. ClaimsAreRecorded'
  BY <1>5, <1>6, <1>7, <1>11 DEF ClaimsAreRecorded, TypeOK
<1>15. SentIsKept'
  <2> SUFFICES ASSUME NEW e \in sentBack PROVE Kept(e)'
    BY <1>5 DEF SentIsKept
  <2>1. e \in Deliveries /\ Kept(e)
    BY DEF SentIsKept, TypeOK
  <2>2. CASE e = d
    <3>1. s = "refunded"
      BY <1>2, <1>3, <1>4, <2>1, <2>2 DEF Kept
    <3> QED BY <1>7, <2>2, <3>1 DEF Kept
  <2>3. CASE e # d
    BY <1>6, <1>7, <2>1, <2>3 DEF Kept
  <2> QED BY <2>2, <2>3
<1>16. PaidIsAllocated' /\ PaidByOne'
  BY <1>5, <1>8 DEF PaidIsAllocated, PaidByOne, Named
<1>17. AnswersStand'
  <2> SUFFICES ASSUME NEW e \in Deliveries, NEW k \in Takings,
                      k = calls'[e].command, Answered(e)'
               PROVE  claimed'[k] # None /\ calls'[e].at = Remembered(k)'
    BY DEF AnswersStand, AnswerStands, Remembered
  <2>1. e # d
    BY <1>1, <1>6
  <2>2. claimed[k] # None /\ calls[e].at = Remembered(k)
    BY <1>6, <2>1 DEF AnswersStand, AnswerStands, Answered
  <2>3. Remembered(k)' = Remembered(k)
    BY <1>5 DEF Remembered
  <2> QED BY <1>5, <1>6, <2>1, <2>2, <2>3
<1> QED BY <1>9, <1>10, <1>12, <1>13, <1>14, <1>15, <1>16, <1>17

-----------------------------------------------------------------------------
(* Theorems *)

LEMMA LedgerStep == LedgerInv /\ [Next]_vars => LedgerInv'
<1> SUFFICES ASSUME LedgerInv, [Next]_vars PROVE LedgerInv'
  OBVIOUS
<1>1. ASSUME NEW d \in Deliveries, NEW c \in Commands, LookUp(d, c) PROVE LedgerInv'
  BY <1>1, LookUpKeeps
<1>2. ASSUME NEW d \in Deliveries, Dies(d) \/ Charge(d) PROVE LedgerInv'
  BY <1>2, DiesKeeps, ChargeKeeps
<1>3. ASSUME NEW d \in Deliveries, RecordCapture(d) \/ CaptureNotRecorded(d) PROVE LedgerInv'
  BY <1>3, RecordCaptureKeeps, CaptureNotRecordedKeeps
<1>4. ASSUME NEW d \in Deliveries, ReadShare(d) \/ ReserveRefund(d) \/ RefundNotReserved(d)
      PROVE  LedgerInv'
  BY <1>4, ReadShareKeeps, ReserveRefundKeeps, RefundNotReservedKeeps
<1>5. ASSUME NEW d \in Deliveries, SendBack(d) \/ DecideRefund(d) PROVE LedgerInv'
  BY <1>5, SendBackKeeps, RefundDecisionKeeps
<1>6. CASE UNCHANGED vars
  <2> USE <1>6 DEF vars, LedgerInv
  <2>1. TypeOK' /\ CallsStand'
    BY DEF TypeOK, CallsStand, Stands, Untouched
  <2>2. RecordsAreClaimed' /\ ClaimsAreRecorded' /\ SentIsKept'
    BY DEF RecordsAreClaimed, ClaimsAreRecorded, SentIsKept, Kept
  <2>3. BooksKept'
    BY DEF BooksKept, Balanced, Back, Live, RefundsOf
  <2>4. PaidIsAllocated' /\ PaidByOne' /\ AnswersStand'
    BY DEF PaidIsAllocated, PaidByOne, AnswersStand, AnswerStands, Answered, Remembered
  <2> QED BY <2>1, <2>2, <2>3, <2>4
<1> QED BY <1>1, <1>2, <1>3, <1>4, <1>5, <1>6 DEF Next

LEMMA LedgerAlways == Spec => []LedgerInv
BY LedgerInitial, LedgerStep, PTL DEF Spec

(* Every row is one the schema allows, for every number of deliveries.  It   *)
(* is not inductive alone: that no refund of less than nothing is ever asked *)
(* for rests on the books.                                                   *)
THEOREM TypeCorrect == Spec => []TypeOK
<1>1. LedgerInv => TypeOK
  BY DEF LedgerInv
<1> QED BY <1>1, LedgerAlways, PTL

(* What is off an order's share is what its refunds took, those declined     *)
(* aside, for any number of racing refunds and wherever one died.            *)
THEOREM BooksBalanceAlways == Spec => []BooksBalance
<1>1. LedgerInv => BooksBalance
  BY DEF LedgerInv, BooksKept, Balanced, Back, Live, BooksBalance, Amount
<1> QED BY <1>1, LedgerAlways, PTL

(* The provider never sends back more than was taken for an order, nor the   *)
(* money of one command twice.                                               *)
THEOREM NeverMoreBackAlways == Spec => []NeverMoreBackThanTaken
<1>1. LedgerInv => NeverMoreBackThanTaken
  <2> SUFFICES ASSUME LedgerInv PROVE NeverMoreBackThanTaken
    OBVIOUS
  <2>1. \A d \in sentBack : d \in Deliveries /\ Kept(d)
    BY DEF LedgerInv, SentIsKept, TypeOK
  <2>2. ASSUME NEW o \in Orders
        PROVE  Amount(sentBack \cap RefundsOf(o)) <= allocations[o].captured
    <3>1. Balanced(o) /\ allocations[o] \in [captured : Nat, refunded : Nat]
      BY DEF LedgerInv, BooksKept, TypeOK
    <3>2. Back(sentBack \cap RefundsOf(o)) \subseteq Back(Live(o))
      BY <2>1 DEF Back, Live, Kept
    <3>3. /\ Cardinality(Back(sentBack \cap RefundsOf(o))) <= Cardinality(Back(Live(o)))
          /\ Cardinality(Back(sentBack \cap RefundsOf(o))) \in Nat
      BY <3>1, <3>2, FS_Subset, FS_CardinalityType DEF Balanced
    <3>4. Amount(sentBack \cap RefundsOf(o)) = Cardinality(Back(sentBack \cap RefundsOf(o)))
      BY DEF Amount, Back
    <3> QED BY <3>1, <3>3, <3>4 DEF Balanced
  <2>3. \A d, e \in sentBack : calls[d].command = calls[e].command => d = e
    BY <2>1 DEF LedgerInv, RecordsAreClaimed, Kept
  <2> QED BY <2>2, <2>3 DEF NeverMoreBackThanTaken
<1> QED BY <1>1, LedgerAlways, PTL

(* One payment to an order, and one answer to the deliveries of a capture.   *)
THEOREM PaidOnceAlways == Spec => []PaidOnce
<1>1. LedgerInv => PaidOnce
  <2> SUFFICES ASSUME LedgerInv, NEW d \in Deliveries, NEW e \in Deliveries
               PROVE  /\ (/\ payments[d].status = "captured"
                          /\ payments[e].status = "captured"
                          /\ Named(payments[d].command) \cap Named(payments[e].command) # {})
                            => d = e
                      /\ (/\ Answered(d) /\ Answered(e)
                          /\ calls[d].command = calls[e].command
                          /\ calls[d].command \in Takings)
                            => calls[d].at = calls[e].at
    BY DEF PaidOnce
  <2>1. AnswerStands(d) /\ AnswerStands(e) /\ PaidByOne
    BY DEF LedgerInv, AnswersStand
  <2> QED BY <2>1 DEF AnswerStands, PaidByOne
<1> QED BY <1>1, LedgerAlways, PTL

================================================================================
