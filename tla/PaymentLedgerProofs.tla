------------------------- MODULE PaymentLedgerProofs -------------------------
(***************************************************************************)
(* Proofs about PaymentLedger, for any number of requests in flight, any   *)
(* price, any amounts and a ledger of any length.                          *)
(*                                                                         *)
(* The ledger's sum is a recursive function, so the first lemmas show what *)
(* it returns: a least row at which a claim about the running totals fails *)
(* would have a row before it at which the claim holds (LeastNumber).      *)
(*                                                                         *)
(* The argument then: whatever writes a row writes it under the row lock,  *)
(* and leaves in the column either what was there or the new sum           *)
(* (StepsWrite); a pay-out in flight was begun on a cancelled booking,     *)
(* whose refund row no longer changes, for no more than was owed           *)
(* (PayOutsFit).                                                           *)
(***************************************************************************)
EXTENDS PaymentLedger, WellFoundedInduction, TLAPS

Row == [kind : Kinds, amount : Int, reverses : 0 .. MaxEntries]

\* A set of numbers that is not empty has a least one.
LEMMA LeastNumber ==
    ASSUME NEW S \in SUBSET Nat, S # {}
    PROVE  \E n \in S : \A m \in S : n <= m
<1>1. PICK n \in S : \A m \in S : ~(<<m, n>> \in OpToRel(<, Nat))
  BY NatLessThanWellFounded, WFMin
<1>2. \A m \in S : ~(m < n)
  BY <1>1 DEF OpToRel
<1>3. QED
  BY <1>2

\* Sums is what its equation says: the running totals of any ledger exist.
LEMMA SumsExist ==
    ASSUME NEW rows \in Seq(Row)
    PROVE  Sums(rows) = [n \in 0 .. Len(rows) |->
                            IF n = 0 THEN 0 ELSE Sums(rows)[n - 1] + rows[n].amount]
<1> DEFINE Running(n, f) ==
             f = [k \in 0 .. n |-> IF k = 0 THEN 0 ELSE f[k - 1] + rows[k].amount]
           Missing == {n \in 0 .. Len(rows) : ~ \E f : Running(n, f)}
<1>1. Len(rows) \in Nat
  OBVIOUS
<1>2. Missing = {}
  <2>1. SUFFICES ASSUME Missing # {}
                 PROVE  FALSE
    OBVIOUS
  <2>2. PICK n \in Missing : \A m \in Missing : n <= m
    <3>1. Missing \in SUBSET Nat
      BY <1>1
    <3>2. QED
      BY <2>1, <3>1, LeastNumber
  <2>3. n # 0
    <3>1. Running(0, [k \in 0 .. 0 |-> 0])
      OBVIOUS
    <3>2. QED
      BY <3>1
  <2>4. PICK f : Running(n - 1, f)
    <3>1. n - 1 \in 0 .. Len(rows) /\ n - 1 < n
      BY <1>1, <2>3
    <3>2. n - 1 \notin Missing
      BY <1>1, <2>2, <3>1, SMTT(30)
    <3>3. QED
      BY <3>1, <3>2
  <2> DEFINE g == [k \in 0 .. n |-> IF k = n THEN f[n - 1] + rows[n].amount ELSE f[k]]
  <2>5. Running(n, g)
    BY <1>1, <2>3, <2>4
  <2>6. QED
    BY <2>5
<1>3. \E f : Running(Len(rows), f)
  BY <1>1, <1>2
<1>4. QED
  BY <1>3 DEF Sums

LEMMA RowsHaveAmounts ==
    ASSUME NEW rows \in Seq(Row)
    PROVE  Len(rows) \in Nat /\ \A n \in 1 .. Len(rows) : rows[n] \in Row /\ rows[n].amount \in Int
<1>1. Len(rows) \in Nat /\ \A n \in 1 .. Len(rows) : rows[n] \in Row
  OBVIOUS
<1>2. \A e \in Row : e.amount \in Int
  BY DEF Row
<1>3. QED
  BY <1>1, <1>2

\* The running totals one by one: none at first, then one row more.
LEMMA SumsStep ==
    ASSUME NEW rows \in Seq(Row)
    PROVE  /\ Sums(rows)[0] = 0
           /\ \A n \in 1 .. Len(rows) : Sums(rows)[n] = Sums(rows)[n - 1] + rows[n].amount
<1>1. Len(rows) \in Nat
  OBVIOUS
<1> DEFINE s == Sums(rows)
<1>2. s = [n \in 0 .. Len(rows) |-> IF n = 0 THEN 0 ELSE s[n - 1] + rows[n].amount]
  BY SumsExist
<1> HIDE DEF s
<1>3. s[0] = 0 /\ \A n \in 1 .. Len(rows) : s[n] = s[n - 1] + rows[n].amount
  BY <1>1, <1>2
<1>4. QED
  BY <1>3 DEF s

LEMMA SumsType ==
    ASSUME NEW rows \in Seq(Row)
    PROVE  \A n \in 0 .. Len(rows) : Sums(rows)[n] \in Int
<1> DEFINE Bad == {n \in 0 .. Len(rows) : Sums(rows)[n] \notin Int}
<1>1. SUFFICES ASSUME Bad # {}
               PROVE  FALSE
  OBVIOUS
<1>2. Bad \in SUBSET Nat /\ Len(rows) \in Nat
  BY RowsHaveAmounts
<1>3. PICK n \in Bad : \A m \in Bad : n <= m
  BY <1>1, <1>2, LeastNumber
<1>4. n \in 1 .. Len(rows) /\ Sums(rows)[n - 1] \in Int
  BY <1>2, <1>3, SumsStep
<1>5. Sums(rows)[n] = Sums(rows)[n - 1] + rows[n].amount
  BY <1>4, SumsStep
<1>6. QED
  BY <1>4, <1>5, RowsHaveAmounts

\* A new row leaves the earlier totals alone ...
LEMMA SumsOfMore ==
    ASSUME NEW rows \in Seq(Row), NEW e \in Row
    PROVE  \A n \in 0 .. Len(rows) : Sums(Append(rows, e))[n] = Sums(rows)[n]
<1> DEFINE more == Append(rows, e)
           Bad == {n \in 0 .. Len(rows) : Sums(more)[n] # Sums(rows)[n]}
<1>1. SUFFICES ASSUME Bad # {}
               PROVE  FALSE
  OBVIOUS
<1>2. /\ Len(rows) \in Nat /\ more \in Seq(Row) /\ Len(more) = Len(rows) + 1
      /\ \A n \in 1 .. Len(rows) : more[n] = rows[n]
  OBVIOUS
<1> HIDE DEF more
<1>3. PICK n \in Bad : \A m \in Bad : n <= m
  <2>1. Bad \in SUBSET Nat
    BY <1>2
  <2>2. QED
    BY <1>1, <2>1, LeastNumber
<1>4. n # 0 /\ Sums(more)[n - 1] = Sums(rows)[n - 1]
  BY <1>2, <1>3, SumsStep
<1>5. QED
  BY <1>2, <1>4, SumsStep

\* ... and adds its amount to the sum.
LEMMA SumOfMore ==
    ASSUME NEW rows \in Seq(Row), NEW e \in Row
    PROVE  SumOf(Append(rows, e)) = SumOf(rows) + e.amount
<1> DEFINE more == Append(rows, e)
<1>1. /\ Len(rows) \in Nat /\ more \in Seq(Row) /\ Len(more) = Len(rows) + 1
      /\ more[Len(rows) + 1] = e
  OBVIOUS
<1>2. Sums(more)[Len(rows)] = Sums(rows)[Len(rows)]
  BY <1>1, SumsOfMore
<1> HIDE DEF more
<1>3. Sums(more)[Len(rows) + 1] = Sums(more)[Len(rows)] + e.amount
  BY <1>1, SumsStep
<1>4. SumOf(more) = SumOf(rows) + e.amount
  BY <1>1, <1>2, <1>3 DEF SumOf
<1>5. QED
  BY <1>4 DEF more

LEMMA SumOfNone == SumOf(<<>>) = 0
<1>1. <<>> \in Seq(Row) /\ Len(<<>>) = 0
  OBVIOUS
<1>2. Sums(<<>>)[0] = 0
  BY <1>1, SumsStep
<1>3. QED
  BY <1>1, <1>2 DEF SumOf

LEMMA SumOfType ==
    ASSUME NEW rows \in Seq(Row)
    PROVE  SumOf(rows) \in Int
  BY RowsHaveAmounts, SumsType DEF SumOf

\* What was paid out grows with a refund row only, by the amount it takes off the ledger.
LEMMA PaidOutOfMore ==
    ASSUME NEW rows \in Seq(Row), NEW e \in Row
    PROVE  PaidOut(Append(rows, e)) = PaidOut(rows) + (IF e.kind = "refund" THEN -e.amount ELSE 0)
<1> DEFINE Back(row) == [row EXCEPT !.amount = IF row.kind = "refund" THEN -row.amount ELSE 0]
           BackOf(s) == [i \in DOMAIN s |-> Back(s[i])]
           more == Append(rows, e)
<1>1. \A row \in Row : /\ Back(row) \in Row
                       /\ Back(row).amount = IF row.kind = "refund" THEN -row.amount ELSE 0
  BY DEF Row
<1> HIDE DEF Back
<1>2. /\ Len(rows) \in Nat /\ DOMAIN rows = 1 .. Len(rows)
      /\ \A i \in 1 .. Len(rows) : rows[i] \in Row
      /\ DOMAIN more = 1 .. Len(rows) + 1 /\ more[Len(rows) + 1] = e
      /\ \A i \in 1 .. Len(rows) : more[i] = rows[i]
  OBVIOUS
<1> HIDE DEF more
<1>3. BackOf(rows) \in Seq(Row) /\ Back(e) \in Row
  BY <1>1, <1>2
<1>4. BackOf(more) = Append(BackOf(rows), Back(e))
  BY <1>2, <1>3
<1>5. SumOf(BackOf(more)) = SumOf(BackOf(rows)) + Back(e).amount
  BY <1>3, <1>4, SumOfMore
<1>6. PaidOut(more) = SumOf(BackOf(more)) /\ PaidOut(rows) = SumOf(BackOf(rows))
  BY DEF PaidOut, Back
<1>7. QED
  BY <1>1, <1>5, <1>6 DEF more

-----------------------------------------------------------------------------
(* What one step writes                                                    *)

\* A correction in flight points at a row; the bank check's at a transfer.
ReversalsPointAtRows ==
    \A r \in Requests :
        req[r].op \in {"correction", "taken_back"} =>
            /\ req[r].arg \in DOMAIN entries
            /\ req[r].op = "taken_back" => entries[req[r].arg].kind = "transfer"

\* Only a cancelled booking owes anything.
OwedWhenCancelled == status # "cancelled" => owed = 0

\* A pay-out in flight fits in what was owed when it looked.
PayOutsFit ==
    \A r \in Requests :
        req[r].op = "pay_refund" => /\ status = "cancelled" /\ req[r].arg \in Nat
                                    /\ req[r].arg <= owed - req[r].seenRefunded

RequestType == [op : Operations \cup {"idle"}, arg : Int, seenPaid : Int, seenRefunded : Nat]

Consistent == ReversalsPointAtRows /\ OwedWhenCancelled /\ PayOutsFit

\* The row a step writes: its kind and amount, the row it reverses, and what follows from it.
Writes(kind, amount, reversed) ==
    /\ Enter(kind, amount, reversed)
    /\ amountPaid' = amountPaid \/ amountPaid' = Total'
    /\ kind \in {"cash", "transfer"} => Total + amount <= Price
    /\ reversed # 0 => /\ reversed \in DOMAIN entries
                       /\ kind = "taken_back" => entries[reversed].kind = "transfer"
    /\ kind = "refund" => -amount \in Nat
    /\ refunded' = IF kind = "refund" THEN refunded - amount ELSE refunded

Quiet == entries' = entries /\ amountPaid' = amountPaid /\ refunded' = refunded

Written == \E kind \in Kinds, amount \in Int, reversed \in 0 .. MaxEntries :
              Writes(kind, amount, reversed)

LEMMA TypedLedger ==
    ASSUME TypeOK
    PROVE  /\ entries \in Seq(Row) /\ Len(entries) \in Nat /\ DOMAIN entries = 1 .. Len(entries)
           /\ Total \in Int
<1>1. entries \in Seq(Row)
  BY DEF TypeOK, Row
<1>2. QED
  BY <1>1, SumOfType DEF Total

\* What entering a row changes.
LEMMA Entering ==
    ASSUME TypeOK, NEW kind \in Kinds, NEW amount \in Int, NEW reversed \in 0 .. MaxEntries,
           Enter(kind, amount, reversed)
    PROVE  /\ entries' \in Seq(Row) /\ Len(entries') = Len(entries) + 1
           /\ \A i \in 1 .. Len(entries) : entries'[i] = entries[i]
           /\ Latest' = [kind |-> kind, amount |-> amount, reverses |-> reversed]
           /\ \A n \in 0 .. Len(entries) : Sums(entries')[n] = Sums(entries)[n]
           /\ Total' = Total + amount /\ Total' \in Int
           /\ PaidOut(entries') = PaidOut(entries) + (IF kind = "refund" THEN -amount ELSE 0)
<1> DEFINE e == [kind |-> kind, amount |-> amount, reverses |-> reversed]
<1>1. e \in Row /\ e.amount = amount /\ e.kind = kind
  BY DEF Row
<1>2. entries' = Append(entries, e)
  BY DEF Enter
<1>3. entries \in Seq(Row) /\ Len(entries) \in Nat /\ Total \in Int
  BY TypedLedger
<1> HIDE DEF e
<1>4. /\ entries' \in Seq(Row) /\ Len(entries') = Len(entries) + 1
      /\ \A i \in 1 .. Len(entries) : entries'[i] = entries[i]
      /\ entries'[Len(entries')] = e
  BY <1>1, <1>2, <1>3
<1>5. /\ \A n \in 0 .. Len(entries) : Sums(entries')[n] = Sums(entries)[n]
      /\ SumOf(entries') = SumOf(entries) + amount
      /\ PaidOut(entries') = PaidOut(entries) + (IF kind = "refund" THEN -amount ELSE 0)
  BY <1>1, <1>2, <1>3, SumsOfMore, SumOfMore, PaidOutOfMore
<1>6. Total' = Total + amount /\ Total' \in Int
  BY <1>3, <1>5 DEF Total
<1>7. QED
  BY <1>4, <1>5, <1>6 DEF Latest, e

LEMMA Recomputed ==
    ASSUME NEW r \in Requests, RecomputeTotals(r)
    PROVE  amountPaid' = amountPaid \/ amountPaid' = Total'
  BY DEF RecomputeTotals

\* Each step writes one such row, or leaves ledger, column and refund alone.
LEMMA StepsWrite ==
    ASSUME TypeOK, Consistent, [Next]_vars
    PROVE  Quiet \/ Written
<1> USE DEF Kinds
<1>1. CASE UNCHANGED vars
  BY <1>1 DEF vars, Quiet
<1>2. ASSUME NEW r \in Requests, NEW a, NEW op, Begin(r, op, a)
      PROVE  Quiet
  BY <1>2 DEF Begin, Quiet
<1>3. ASSUME NEW r \in Requests, RecordEntry(r)
      PROVE  Written
  <2>1. req[r].arg \in Int /\ req[r].op \in {"cash", "transfer"}
    BY <1>3 DEF TypeOK, RecordEntry
  <2>2. Total + req[r].arg <= Price
    BY <1>3, <2>1, TypedLedger, LedgerAssumption DEF RecordEntry, Balance
  <2>3. Writes(req[r].op, req[r].arg, 0)
    BY <1>3, <2>1, <2>2, Recomputed DEF RecordEntry, Writes
  <2>4. QED
    BY <2>1, <2>3, LedgerAssumption DEF Written
<1>4. ASSUME NEW r \in Requests, ExceedsBalance(r) \/ RefundAlreadyMarked(r)
      PROVE  Quiet
  BY <1>4 DEF ExceedsBalance, RefundAlreadyMarked, Quiet
<1>5. ASSUME NEW r \in Requests, AdjustTotalPaid(r)
      PROVE  Quiet \/ Written
  <2>1. CASE req[r].arg = Total
    BY <1>5, <2>1 DEF AdjustTotalPaid, Quiet
  <2>2. CASE req[r].arg # Total
    <3>1. req[r].arg - Total \in Int
      BY TypedLedger DEF TypeOK
    <3>2. Writes("completion", req[r].arg - Total, 0)
      BY <1>5, <2>2, Recomputed DEF AdjustTotalPaid, Writes
    <3>3. QED
      BY <3>1, <3>2, LedgerAssumption DEF Written
  <2>3. QED
    BY <2>1, <2>2
<1>6. ASSUME NEW r \in Requests, ReverseEntry(r)
      PROVE  Written
  <2>1. /\ req[r].op \in {"correction", "taken_back"} /\ req[r].arg \in DOMAIN entries
        /\ req[r].op = "taken_back" => entries[req[r].arg].kind = "transfer"
    BY <1>6 DEF ReverseEntry, Consistent, ReversalsPointAtRows
  <2>2. entries[req[r].arg] \in Row /\ Len(entries) < MaxEntries
    BY <1>6, <2>1, TypedLedger DEF ReverseEntry, Enter
  <2>3. -entries[req[r].arg].amount \in Int /\ req[r].arg \in 0 .. MaxEntries
    BY <2>1, <2>2, TypedLedger, LedgerAssumption DEF Row
  <2>4. Writes(req[r].op, -entries[req[r].arg].amount, req[r].arg)
    BY <1>6, <2>1, Recomputed DEF ReverseEntry, Writes
  <2>5. QED
    BY <2>1, <2>3, <2>4 DEF Written
<1>7. ASSUME NEW r \in Requests, MarkRefundPaid(r)
      PROVE  Written
  <2>1. /\ req[r].arg \in Nat /\ -(-req[r].arg) \in Nat
        /\ refunded \in Nat /\ refunded' = refunded - (-req[r].arg)
    BY <1>7 DEF MarkRefundPaid, PayOutStands, Consistent, PayOutsFit, TypeOK
  <2>2. Writes("refund", -req[r].arg, 0)
    BY <1>7, <2>1, Recomputed DEF MarkRefundPaid, Writes
  <2>3. -req[r].arg \in Int /\ 0 \in 0 .. MaxEntries /\ "refund" \in Kinds
    BY <2>1, LedgerAssumption
  <2>4. QED
    BY <2>2, <2>3 DEF Written
<1>8. ASSUME NEW a \in Amounts, ConfirmBooking(a)
      PROVE  Written
  <2>1. Lesser(a, Price) \in Int
    BY LedgerAssumption DEF Lesser
  <2>2. Writes("advance", Lesser(a, Price), 0)
    BY <1>8 DEF ConfirmBooking, Writes
  <2>3. QED
    BY <2>1, <2>2, LedgerAssumption DEF Written
<1>9. CASE CancelBooking
  BY <1>9 DEF CancelBooking, Quiet
<1>10. QED
  BY <1>1, <1>2, <1>3, <1>4, <1>5, <1>6, <1>7, <1>8, <1>9
     DEF Next, Step, BeginRecord, BeginComplete, BeginCompleteOnTop, BeginPayRefund,
         BeginCorrection, BeginMarkNotReceived

-----------------------------------------------------------------------------
(* The invariant                                                           *)

\* How a step moves the requests: one is begun knowing what it may do, or answered.
BegunWell(r, op, arg) ==
    /\ Begin(r, op, arg) /\ op \in Operations /\ arg \in Int
    /\ op \in {"correction", "taken_back"} =>
          /\ arg \in DOMAIN entries
          /\ op = "taken_back" => entries[arg].kind = "transfer"
    /\ op = "pay_refund" => arg \in Nat /\ refunded < owed /\ arg <= owed - refunded

Answered(r) == Answer(r) /\ UNCHANGED <<status, owed>>

LEMMA RequestsMove ==
    ASSUME TypeOK, Next
    PROVE  \/ \E r \in Requests : Answered(r)
           \/ \E r \in Requests, op \in Operations, arg \in Int : BegunWell(r, op, arg)
           \/ \E a \in Amounts : ConfirmBooking(a)
           \/ CancelBooking
<1> USE DEF Operations
<1>1. Amounts \subseteq Nat /\ Price \in Nat /\ amountPaid \in Int /\ DOMAIN entries \subseteq Int
  BY LedgerAssumption, TypedLedger DEF TypeOK
<1>2. ASSUME NEW r \in Requests, NEW a \in Amounts, NEW method \in {"cash", "transfer"},
             BeginRecord(r, method, a)
      PROVE  \E op \in Operations, arg \in Int : BegunWell(r, op, arg)
  BY <1>1, <1>2 DEF BeginRecord, BegunWell
<1>3. ASSUME NEW r \in Requests, NEW a \in Amounts \cup {0, Price}, BeginComplete(r, a)
      PROVE  \E op \in Operations, arg \in Int : BegunWell(r, op, arg)
  BY <1>1, <1>3 DEF BeginComplete, BegunWell
<1>4. ASSUME NEW r \in Requests, NEW a \in Amounts \cup {0, Price}, BeginCompleteOnTop(r, a)
      PROVE  \E op \in Operations, arg \in Int : BegunWell(r, op, arg)
  <2>1. amountPaid + a \in Int /\ Begin(r, "complete_on_top", amountPaid + a)
    BY <1>1, <1>4 DEF BeginCompleteOnTop
  <2>2. BegunWell(r, "complete_on_top", amountPaid + a)
    BY <2>1 DEF BegunWell
  <2>3. QED
    BY <2>1, <2>2
<1>5. ASSUME NEW r \in Requests, NEW a \in Amounts, BeginPayRefund(r, a)
      PROVE  \E op \in Operations, arg \in Int : BegunWell(r, op, arg)
  BY <1>1, <1>5 DEF BeginPayRefund, BegunWell
<1>6. ASSUME NEW r \in Requests, NEW i \in DOMAIN entries,
             BeginCorrection(r, i) \/ BeginMarkNotReceived(r, i)
      PROVE  \E op \in Operations, arg \in Int : BegunWell(r, op, arg)
  BY <1>1, <1>6 DEF BeginCorrection, BeginMarkNotReceived, IsBalanceEntry, BegunWell
<1>7. ASSUME NEW r \in Requests,
             \/ RecordEntry(r) \/ ExceedsBalance(r) \/ AdjustTotalPaid(r) \/ ReverseEntry(r)
             \/ MarkRefundPaid(r) \/ RefundAlreadyMarked(r)
      PROVE  Answered(r)
  BY <1>7 DEF RecordEntry, ExceedsBalance, AdjustTotalPaid, ReverseEntry, MarkRefundPaid,
              RefundAlreadyMarked, Answered
<1>8. QED
  BY <1>2, <1>3, <1>4, <1>5, <1>6, <1>7 DEF Next, Step

\* Rows stay what and where they are.
LEMMA RowsStay ==
    ASSUME TypeOK, Consistent, [Next]_vars
    PROVE  \A i \in DOMAIN entries : i \in DOMAIN entries' /\ entries'[i] = entries[i]
<1>1. CASE Quiet
  BY <1>1 DEF Quiet
<1>2. CASE Written
  <2>1. /\ entries' \in Seq(Row) /\ Len(entries') = Len(entries) + 1
        /\ \A i \in 1 .. Len(entries) : entries'[i] = entries[i]
    BY <1>2, Entering DEF Written, Writes
  <2>2. QED
    BY <2>1, TypedLedger
<1>3. QED
  BY <1>1, <1>2, StepsWrite

LEMMA ConsistentPreserved ==
    ASSUME TypeOK, Consistent, [Next]_vars
    PROVE  Consistent'
<1> USE DEF Consistent, ReversalsPointAtRows, OwedWhenCancelled, PayOutsFit
<1>1. /\ \A i \in DOMAIN entries : i \in DOMAIN entries' /\ entries'[i] = entries[i]
      /\ owed \in Nat /\ refunded \in Nat /\ req \in [Requests -> RequestType]
  BY RowsStay DEF TypeOK, RequestType
<1> USE DEF RequestType
<1>2. CASE UNCHANGED vars
  BY <1>2 DEF vars
<1>3. ASSUME NEW r \in Requests, Answered(r)
      PROVE  Consistent'
  BY <1>1, <1>3 DEF Answered, Answer, Idle
<1>4. ASSUME NEW r \in Requests, NEW op \in Operations, NEW arg \in Int, BegunWell(r, op, arg)
      PROVE  Consistent'
  BY <1>1, <1>4 DEF BegunWell, Begin
<1>5. ASSUME NEW a \in Amounts, ConfirmBooking(a)
      PROVE  Consistent'
  BY <1>1, <1>5 DEF ConfirmBooking
<1>6. CASE CancelBooking
  BY <1>1, <1>6 DEF CancelBooking
<1>7. QED
  BY <1>2, <1>3, <1>4, <1>5, <1>6, RequestsMove

\* What TypeOK says of the rows.
RowsTyped ==
    \A i \in DOMAIN entries :
        entries[i].reverses # 0 =>
           /\ entries[i].reverses < i
           /\ entries[i].kind = "taken_back" => entries[entries[i].reverses].kind = "transfer"

LEMMA RowsPreserved ==
    ASSUME TypeOK, Consistent, [Next]_vars
    PROVE  entries' \in Seq(Row) /\ RowsTyped' /\ amountPaid' \in Int /\ refunded' \in Nat
<1>1. CASE Quiet
  BY <1>1, TypedLedger DEF Quiet, TypeOK, RowsTyped
<1>2. ASSUME NEW kind \in Kinds, NEW amount \in Int, NEW reversed \in 0 .. MaxEntries,
             Writes(kind, amount, reversed)
      PROVE  entries' \in Seq(Row) /\ RowsTyped' /\ amountPaid' \in Int /\ refunded' \in Nat
  <2>1. /\ entries' \in Seq(Row) /\ Len(entries') = Len(entries) + 1 /\ Total' \in Int
        /\ \A i \in 1 .. Len(entries) : entries'[i] = entries[i]
        /\ Latest' = [kind |-> kind, amount |-> amount, reverses |-> reversed]
    BY <1>2, Entering DEF Writes
  <2>2. amountPaid' \in Int /\ refunded' \in Nat
    BY <1>2, <2>1 DEF Writes, TypeOK
  <2>3. DOMAIN entries' = 1 .. Len(entries) + 1 /\ DOMAIN entries = 1 .. Len(entries)
    BY <2>1, TypedLedger
  <2>4. ASSUME NEW i \in 1 .. Len(entries), entries'[i].reverses # 0
        PROVE  /\ entries'[i].reverses < i
               /\ entries'[i].kind = "taken_back" => entries'[entries'[i].reverses].kind = "transfer"
    <3>1. /\ entries[i].reverses \in 1 .. Len(entries) /\ entries[i].reverses < i
          /\ entries[i].kind = "taken_back" => entries[entries[i].reverses].kind = "transfer"
      <4>1. entries[i] \in Row /\ Len(entries) \in Nat /\ entries[i].reverses # 0
        BY <2>1, <2>4, TypedLedger
      <4>2. entries[i].reverses \in Nat
        BY <4>1, LedgerAssumption DEF Row
      <4>3. /\ entries[i].reverses < i
            /\ entries[i].kind = "taken_back" => entries[entries[i].reverses].kind = "transfer"
        BY <2>3, <4>1 DEF TypeOK
      <4>4. QED
        BY <4>1, <4>2, <4>3
    <3>2. QED
      BY <2>1, <3>1
  <2>5. LET i == Len(entries) + 1 IN
           entries'[i].reverses # 0 =>
              /\ entries'[i].reverses < i
              /\ entries'[i].kind = "taken_back" => entries'[entries'[i].reverses].kind = "transfer"
    <3>1. entries'[Len(entries) + 1] = [kind |-> kind, amount |-> amount, reverses |-> reversed]
      BY <2>1 DEF Latest
    <3>2. reversed # 0 => /\ reversed \in 1 .. Len(entries)
                          /\ kind = "taken_back" => entries'[reversed].kind = "transfer"
      BY <1>2, <2>1, <2>3 DEF Writes
    <3>3. QED
      BY <3>1, <3>2, TypedLedger
  <2>6. QED
    BY <2>1, <2>2, <2>3, <2>4, <2>5, TypedLedger DEF RowsTyped
<1>3. QED
  BY <1>1, <1>2, StepsWrite DEF Written

LEMMA TypePreserved ==
    ASSUME TypeOK, Consistent, [Next]_vars
    PROVE  TypeOK'
<1>1. entries' \in Seq(Row) /\ RowsTyped' /\ amountPaid' \in Int /\ refunded' \in Nat
  BY RowsPreserved
<1> DEFINE Rest == status \in {"awaiting", "booked", "cancelled"} /\ owed \in Nat
                     /\ req \in [Requests -> RequestType]
<1>2. Rest /\ amountPaid \in Int /\ refunded \in Nat
  BY DEF TypeOK, RequestType
<1>3. Rest'
  <2>1. CASE UNCHANGED vars
    BY <1>2, <2>1 DEF vars
  <2>2. ASSUME NEW r \in Requests, Answered(r)
        PROVE  Rest'
    BY <1>2, <2>2 DEF Answered, Answer, Idle, RequestType
  <2>3. ASSUME NEW r \in Requests, NEW op \in Operations, NEW arg \in Int, BegunWell(r, op, arg)
        PROVE  Rest'
    BY <1>2, <2>3 DEF BegunWell, Begin, RequestType
  <2>4. ASSUME NEW a \in Amounts, ConfirmBooking(a)
        PROVE  Rest'
    BY <1>2, <2>4 DEF ConfirmBooking
  <2>5. CASE CancelBooking
    BY <1>2, <2>5 DEF CancelBooking, Greater
  <2>6. QED
    BY <2>1, <2>2, <2>3, <2>4, <2>5, RequestsMove
<1>4. QED
  BY <1>1, <1>3 DEF TypeOK, Row, RowsTyped, RequestType

LEMMA RefundPreserved ==
    ASSUME TypeOK, Consistent, RefundedWithinOwed, [Next]_vars
    PROVE  RefundedWithinOwed'
<1>1. PaidOut(entries') = refunded'
  <2>1. CASE Quiet
    BY <2>1 DEF Quiet, RefundedWithinOwed
  <2>2. CASE Written
    <3>1. PICK kind \in Kinds, amount \in Int, reversed \in 0 .. MaxEntries :
             Writes(kind, amount, reversed)
      BY <2>2 DEF Written
    <3>2. PaidOut(entries') = PaidOut(entries) + (IF kind = "refund" THEN -amount ELSE 0)
      BY <3>1, Entering DEF Writes
    <3>3. QED
      BY <3>1, <3>2 DEF Writes, RefundedWithinOwed, TypeOK
  <2>3. QED
    BY <2>1, <2>2, StepsWrite
<1>2. refunded' <= owed'
  <2>1. refunded <= owed /\ refunded \in Nat /\ owed \in Nat /\ amountPaid \in Int
    BY DEF RefundedWithinOwed, TypeOK
  <2>2. ASSUME NEW r \in Requests, MarkRefundPaid(r)
        PROVE  refunded' <= owed'
    BY <2>1, <2>2 DEF MarkRefundPaid, PayOutStands, Consistent, PayOutsFit
  <2>3. CASE CancelBooking
    BY <2>1, <2>3 DEF CancelBooking, Greater, Consistent, OwedWhenCancelled
  <2>4. CASE UNCHANGED <<owed, refunded>>
    BY <2>1, <2>4
  <2>5. QED
    BY <2>2, <2>3, <2>4
       DEF Next, Step, vars, BeginRecord, BeginComplete, BeginCompleteOnTop, BeginPayRefund,
           BeginCorrection, BeginMarkNotReceived, Begin, RecordEntry, ExceedsBalance,
           AdjustTotalPaid, ReverseEntry, RefundAlreadyMarked, ConfirmBooking
<1>3. QED
  BY <1>1, <1>2 DEF RefundedWithinOwed

LEMMA ColumnPreserved ==
    ASSUME TypeOK, Consistent, ColumnWasTheSum, [Next]_vars
    PROVE  ColumnWasTheSum'
<1>1. CASE Quiet
  BY <1>1 DEF Quiet, ColumnWasTheSum
<1>2. CASE Written
  <2>1. /\ Len(entries) \in Nat /\ Len(entries') = Len(entries) + 1
        /\ \A n \in 0 .. Len(entries) : Sums(entries')[n] = Sums(entries)[n]
        /\ amountPaid' = amountPaid \/ amountPaid' = Total'
    BY <1>2, Entering, TypedLedger DEF Written, Writes
  <2>2. CASE amountPaid' = amountPaid
    <3>1. PICK n \in 0 .. Len(entries) : amountPaid = Sums(entries)[n]
      BY DEF ColumnWasTheSum
    <3>2. n \in 0 .. Len(entries') /\ amountPaid' = Sums(entries')[n]
      BY <2>1, <2>2, <3>1
    <3>3. QED
      BY <3>2 DEF ColumnWasTheSum
  <2>3. CASE amountPaid' = Total'
    <3>1. Len(entries') \in 0 .. Len(entries') /\ amountPaid' = Sums(entries')[Len(entries')]
      BY <2>1, <2>3 DEF Total, SumOf
    <3>2. QED
      BY <3>1 DEF ColumnWasTheSum
  <2>4. QED
    BY <2>1, <2>2, <2>3
<1>3. QED
  BY <1>1, <1>2, StepsWrite

Invariant == TypeOK /\ Consistent /\ RefundedWithinOwed /\ ColumnWasTheSum

LEMMA Initially == Init => Invariant
<1> SUFFICES ASSUME Init PROVE Invariant
  OBVIOUS
<1>1. entries \in Seq(Row) /\ Len(entries) = 0 /\ DOMAIN entries = {}
  BY DEF Init
<1>2. TypeOK
  BY <1>1 DEF Init, TypeOK, Row, Idle
<1>3. Consistent
  BY DEF Init, Consistent, ReversalsPointAtRows, OwedWhenCancelled, PayOutsFit, Idle
<1>4. ColumnWasTheSum
  <2>1. Sums(entries)[0] = 0
    BY <1>1, SumsStep
  <2>2. 0 \in 0 .. Len(entries) /\ amountPaid = 0
    BY <1>1 DEF Init
  <2>3. QED
    BY <2>1, <2>2 DEF ColumnWasTheSum
<1>5. PaidOut(entries) = 0
  <2>1. PaidOut(entries) = SumOf(<<>>)
    BY DEF Init, PaidOut
  <2>2. QED
    BY <2>1, SumOfNone
<1>6. RefundedWithinOwed
  BY <1>5 DEF Init, RefundedWithinOwed
<1>7. QED
  BY <1>2, <1>3, <1>4, <1>6 DEF Invariant

LEMMA Invariance == Spec => []Invariant
<1>1. Invariant /\ [Next]_vars => Invariant'
  BY TypePreserved, ConsistentPreserved, RefundPreserved, ColumnPreserved DEF Invariant
<1>2. QED
  BY <1>1, Initially, PTL DEF Spec

-----------------------------------------------------------------------------
(* The theorems                                                            *)

\* A reversal always points at an earlier row, and the bank check takes back transfers only,
\* whatever else was corrected while it looked (reverse_entry, mark_not_received).
THEOREM TypesHold == Spec => []TypeOK
  BY Invariance, PTL DEF Invariant

\* However many owners pay out parts of a refund at once, no more than what is owed leaves, and
\* the ledger's refund rows are what left (mark_refund_paid).
THEOREM RefundsFit == Spec => []RefundedWithinOwed
  BY Invariance, PTL DEF Invariant

\* amount_paid is always what the ledger summed to after some row (recompute_payment_totals).
THEOREM ColumnIsASum == Spec => []ColumnWasTheSum
  BY Invariance, PTL DEF Invariant

\* Nobody records cash or a transfer past the price, however many record at once (record_entry).
THEOREM RecordingStaysWithinPrice == Spec => RecordedWithinPrice
<1>1. ASSUME Invariant, [Next]_vars, Entered({"cash", "transfer"})
      PROVE  Total' <= Price
  <2>1. CASE Quiet
    BY <1>1, <2>1, TypedLedger DEF Quiet, Entered, Invariant
  <2>2. ASSUME NEW kind \in Kinds, NEW amount \in Int, NEW reversed \in 0 .. MaxEntries,
               Writes(kind, amount, reversed)
        PROVE  Total' <= Price
    <3>1. /\ Latest' = [kind |-> kind, amount |-> amount, reverses |-> reversed]
          /\ Total' = Total + amount
      BY <1>1, <2>2, Entering DEF Writes, Invariant
    <3>2. QED
      BY <1>1, <2>2, <3>1 DEF Writes, Entered
  <2>3. QED
    BY <1>1, <2>1, <2>2, StepsWrite DEF Written, Invariant
<1>2. QED
  BY <1>1, Invariance, PTL DEF Spec, RecordedWithinPrice

=============================================================================
