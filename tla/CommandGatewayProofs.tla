-------------------------- MODULE CommandGatewayProofs --------------------------
(***************************************************************************)
(* The operations of the command book; type correctness of the gateway and *)
(* the order of its commands, which every action of CommandGateway keeps   *)
(* whatever surrounds it; and what follows for GatewayEnvironment: whatever*)
(* nodes send, the books stay well formed, queueing spares other nodes,    *)
(* and every command that is transmitted is one the user queued.           *)
(***************************************************************************)
EXTENDS GatewayEnvironment, CommandOrder, SequenceTheorems, WellFoundedInduction, TLAPS

(* The command book *)

\* RemoveAt, position by position: what std::vector::erase does by moving.
LEMMA RemoveAtIsShift ==
  ASSUME NEW S, NEW s \in Seq(S), NEW i \in 1 .. Len(s)
  PROVE  /\ RemoveAt(s, i) \in Seq(S)
         /\ Len(RemoveAt(s, i)) = Len(s) - 1
         /\ \A j \in 1 .. Len(s) - 1 :
              RemoveAt(s, i)[j] = IF j < i THEN s[j] ELSE s[j + 1]
<1> DEFINE front == SubSeq(s, 1, i - 1)
           back  == SubSeq(s, i + 1, Len(s))
<1>1. /\ front \in Seq(S)
      /\ Len(front) = i - 1
      /\ \A j \in 1 .. i - 1 : front[j] = s[j]
  BY SubSeqProperties
<1>2. /\ back \in Seq(S)
      /\ Len(back) = Len(s) - i
      /\ \A j \in 1 .. Len(s) - i : back[j] = s[i + j]
  BY SubSeqProperties
<1>3. RemoveAt(s, i) = front \o back
  BY DEF RemoveAt
<1> HIDE DEF front, back
<1>4. /\ front \o back \in Seq(S)
      /\ Len(front \o back) = Len(s) - 1
      /\ \A j \in 1 .. Len(s) - 1 :
           (front \o back)[j] = IF j <= Len(front) THEN front[j] ELSE back[j - Len(front)]
  BY <1>1, <1>2, ConcatProperties
<1>5. ASSUME NEW j \in 1 .. Len(s) - 1
      PROVE  (front \o back)[j] = IF j < i THEN s[j] ELSE s[j + 1]
  <2>1. CASE j < i
    BY <1>1, <1>4, <2>1
  <2>2. CASE ~(j < i)
    <3>1. back[j - Len(front)] = s[i + (j - (i - 1))]
      BY <1>1, <1>2, <2>2
    <3>2. i + (j - (i - 1)) = j + 1
      OBVIOUS
    <3>3. QED
      BY <1>1, <1>4, <2>2, <3>1, <3>2
  <2>3. QED
    BY <2>1, <2>2
<1>6. QED
  BY <1>3, <1>4, <1>5

-----------------------------------------------------------------------------
LEMMA LeastNatural ==
  ASSUME NEW T, T \subseteq Nat, T # {}
  PROVE  \E m \in T : \A k \in T : ~(k < m)
<1>1. \E m \in T : \A k \in T : <<k, m>> \notin OpToRel(<, Nat)
  BY NatLessThanWellFounded, WFMin
<1>2. ASSUME NEW k \in Nat, NEW m \in Nat, k < m
      PROVE  <<k, m>> \in OpToRel(<, Nat)
  BY <1>2, Zenon DEF OpToRel
<1>3. QED
  BY <1>1, <1>2

\* indexOf() finds a record of the node ID it is asked for.
LEMMA IndexOfFinds ==
  ASSUME NEW b \in Book, NEW n, HasRecord(b, n)
  PROVE  /\ IndexOf(b, n) \in Positions(b)
         /\ b.records[IndexOf(b, n)].nodeId = n
<1> DEFINE T == {i \in Positions(b) : b.records[i].nodeId = n}
<1>1. T \subseteq Nat /\ T # {}
  BY DEF HasRecord, Positions
<1>2. PICK m \in T : \A k \in T : ~(k < m)
  BY <1>1, LeastNatural
<1>3. /\ m \in Positions(b)
      /\ b.records[m].nodeId = n
      /\ \A j \in 1 .. m - 1 : b.records[j].nodeId # n
  BY <1>2, LenProperties DEF Positions, Book
<1>4. QED
  BY <1>3 DEF IndexOf

\* The search for the oldest completed record ends at one.
LEMMA OldestCompletedFinds ==
  ASSUME NEW b \in Book, HasCompleted(b)
  PROVE  /\ OldestCompleted(b) \in Positions(b)
         /\ b.records[OldestCompleted(b)].state = "Completed"
         /\ \A j \in 1 .. OldestCompleted(b) - 1 : b.records[j].state # "Completed"
<1> DEFINE T == {i \in Positions(b) : b.records[i].state = "Completed"}
<1>1. T \subseteq Nat /\ T # {}
  BY DEF HasCompleted, Positions
<1>2. PICK m \in T : \A k \in T : ~(k < m)
  BY <1>1, LeastNatural
<1>3. /\ m \in Positions(b)
      /\ b.records[m].state = "Completed"
      /\ \A j \in 1 .. m - 1 : b.records[j].state # "Completed"
  BY <1>2, LenProperties DEF Positions, Book
<1>4. QED
  BY <1>3 DEF OldestCompleted

-----------------------------------------------------------------------------
(* Every operation returns a book. *)

LEMMA EraseIsBook ==
  ASSUME NEW b \in Book, NEW i \in Positions(b)
  PROVE  Erase(b, i) \in Book
BY RemoveAtIsShift DEF Erase, Book, Positions

LEMMA WithoutIsBook ==
  ASSUME NEW b \in Book, NEW n
  PROVE  Without(b, n) \in Book
BY IndexOfFinds, EraseIsBook DEF Without

LEMMA MakeRoomIsBook ==
  ASSUME NEW b \in Book, IsFull(b) => HasCompleted(b)
  PROVE  MakeRoom(b) \in Book
BY OldestCompletedFinds, EraseIsBook DEF MakeRoom

LEMMA NewRecordIsRecord ==
  ASSUME NEW b \in Book, NEW uid \in Device, NEW n \in NodeId, NEW value \in Count
  PROVE  NewRecord(b, uid, n, value) \in Record
BY DEF NewRecord, Record, Book

LEMMA NextCommandIdIsId ==
  ASSUME NEW id \in CommandId
  PROVE  NextCommandId(id) \in CommandId
BY MaxCommandIdAssumption DEF NextCommandId, CommandId

LEMMA QueuedIsBook ==
  ASSUME NEW b \in Book, NEW uid \in Device, NEW n \in NodeId, NEW value \in Count,
         QueueStatus(b, uid, n) = "Queued"
  PROVE  Queued(b, uid, n, value) \in Book
<1>1. MakeRoom(Without(b, n)) \in Book
  <2>1. IsFull(Without(b, n)) => HasCompleted(Without(b, n))
    BY DEF QueueStatus
  <2>2. QED
    BY <2>1, WithoutIsBook, MakeRoomIsBook
<1>2. NewRecord(b, uid, n, value) \in Record
  BY NewRecordIsRecord
<1>3. Append(MakeRoom(Without(b, n)).records, NewRecord(b, uid, n, value)) \in Seq(Record)
  BY <1>1, <1>2, AppendProperties DEF Book
<1>4. NextCommandId(b.nextCommandId) \in CommandId
  BY NextCommandIdIsId DEF Book
<1>5. QED
  BY <1>3, <1>4 DEF Queued, Book

LEMMA CompletedIsBook ==
  ASSUME NEW b \in Book, NEW n, HasRecord(b, n), NEW result \in Result
  PROVE  Completed(b, n, result) \in Book
<1> DEFINE i == IndexOf(b, n)
           record == [b.records[i] EXCEPT !.state = "Completed", !.result = result]
<1>1. i \in Positions(b)
  BY IndexOfFinds
<1>2. b.records[i] \in Record
  BY <1>1, ElementOfSeq DEF Book, Positions
<1>3. record \in Record
  BY <1>2 DEF Record
<1>4. [b.records EXCEPT ![i] = record] \in Seq(Record)
  BY <1>1, <1>3, ExceptSeq DEF Book, Positions
<1>5. Completed(b, n, result) = [b EXCEPT !.records = [b.records EXCEPT ![i] = record]]
  BY <1>1, <1>2 DEF Completed, Book, Record, Positions
<1>6. QED
  BY <1>4, <1>5 DEF Book

-----------------------------------------------------------------------------
(* Which records an operation keeps. *)

\* Erasing keeps every other record, in order.
LEMMA EraseKeeps ==
  ASSUME NEW b \in Book, NEW i \in Positions(b)
  PROVE  /\ Positions(Erase(b, i)) = 1 .. Len(b.records) - 1
         /\ \A j \in Positions(Erase(b, i)) :
              LET k == IF j < i THEN j ELSE j + 1
              IN k \in Positions(b) \ {i} /\ Erase(b, i).records[j] = b.records[k]
<1> DEFINE s == b.records
<1>1. /\ s \in Seq(Record)
      /\ i \in 1 .. Len(s)
      /\ Erase(b, i).records = RemoveAt(s, i)
  BY DEF Book, Positions, Erase
<1>2. /\ Len(RemoveAt(s, i)) = Len(s) - 1
      /\ \A j \in 1 .. Len(s) - 1 :
           RemoveAt(s, i)[j] = IF j < i THEN s[j] ELSE s[j + 1]
  BY <1>1, RemoveAtIsShift
<1>3. QED
  BY <1>1, <1>2 DEF Positions

\* An operation on b that at most forgets commands.
SameCommands(c, b) ==
  \A j \in Positions(c) : \E k \in Positions(b) : SameCommand(b.records[k], c.records[j])

LEMMA EraseForgets ==
  ASSUME NEW b \in Book, NEW i \in Positions(b), OneRecordPerNode(b)
  PROVE  /\ OneRecordPerNode(Erase(b, i))
         /\ SameCommands(Erase(b, i), b)
         /\ \A j \in Positions(Erase(b, i)) :
              Erase(b, i).records[j].nodeId # b.records[i].nodeId
<1> DEFINE k(j) == IF j < i THEN j ELSE j + 1
<1>1. \A j \in Positions(Erase(b, i)) :
        k(j) \in Positions(b) \ {i} /\ Erase(b, i).records[j] = b.records[k(j)]
  BY EraseKeeps
<1>2. OneRecordPerNode(Erase(b, i))
  <2> SUFFICES ASSUME NEW j \in Positions(Erase(b, i)), NEW l \in Positions(Erase(b, i)),
                      Erase(b, i).records[j].nodeId = Erase(b, i).records[l].nodeId
               PROVE  j = l
    BY DEF OneRecordPerNode
  <2>1. k(j) = k(l)
    BY <1>1 DEF OneRecordPerNode
  <2>2. QED
    BY <2>1, EraseKeeps DEF Positions
<1>3. QED
  BY <1>1, <1>2 DEF OneRecordPerNode, SameCommands, SameCommand

LEMMA WithoutForgets ==
  ASSUME NEW b \in Book, NEW n, OneRecordPerNode(b)
  PROVE  /\ OneRecordPerNode(Without(b, n))
         /\ SameCommands(Without(b, n), b)
         /\ ~HasRecord(Without(b, n), n)
<1>1. CASE HasRecord(b, n)
  <2>1. Without(b, n) = Erase(b, IndexOf(b, n))
    BY <1>1 DEF Without
  <2>2. IndexOf(b, n) \in Positions(b) /\ b.records[IndexOf(b, n)].nodeId = n
    BY <1>1, IndexOfFinds
  <2>3. QED
    BY <2>1, <2>2, EraseForgets DEF HasRecord
<1>2. CASE ~HasRecord(b, n)
  BY <1>2 DEF Without, SameCommands, SameCommand
<1>3. QED
  BY <1>1, <1>2

LEMMA MakeRoomForgets ==
  ASSUME NEW b \in Book, OneRecordPerNode(b), IsFull(b) => HasCompleted(b)
  PROVE  /\ OneRecordPerNode(MakeRoom(b))
         /\ SameCommands(MakeRoom(b), b)
<1>1. CASE IsFull(b)
  BY <1>1, OldestCompletedFinds, EraseForgets DEF MakeRoom
<1>2. CASE ~IsFull(b)
  BY <1>2 DEF MakeRoom, SameCommands, SameCommand
<1>3. QED
  BY <1>1, <1>2

\* Erasing leaves a record of another position in the book, in its place among
\* the others.
LEMMA EraseMoves ==
  ASSUME NEW b \in Book, NEW i \in Positions(b), NEW k \in Positions(b) \ {i}
  PROVE  LET j == IF k < i THEN k ELSE k - 1
         IN  j \in Positions(Erase(b, i)) /\ Erase(b, i).records[j] = b.records[k]
<1>1. Len(b.records) \in Nat /\ i \in 1 .. Len(b.records) /\ k \in 1 .. Len(b.records) /\ k # i
  BY LenProperties DEF Book, Positions
<1>2. CASE k < i
  BY <1>1, <1>2, EraseKeeps
<1>3. CASE ~(k < i)
  <2>1. k - 1 \in 1 .. Len(b.records) - 1 /\ ~(k - 1 < i) /\ (k - 1) + 1 = k
    BY <1>1, <1>3
  <2>2. QED
    BY <1>3, <2>1, EraseKeeps
<1>4. QED
  BY <1>2, <1>3

\* The book without node ID n has every other record, in the same order.
LEMMA WithoutMoves ==
  ASSUME NEW b \in Book, NEW n, NEW k \in Positions(b), b.records[k].nodeId # n
  PROVE  \E p \in Positions(Without(b, n)) :
           /\ Without(b, n).records[p] = b.records[k]
           /\ \A l \in Positions(b) :
                l < k /\ b.records[l].nodeId # n =>
                  \E q \in 1 .. p - 1 : Without(b, n).records[q] = b.records[l]
<1>1. CASE HasRecord(b, n)
  <2> DEFINE i == IndexOf(b, n)
             p == IF k < i THEN k ELSE k - 1
  <2>1. i \in Positions(b) /\ b.records[i].nodeId = n /\ Without(b, n) = Erase(b, i)
    BY <1>1, IndexOfFinds DEF Without
  <2> HIDE DEF i
  <2>2. Len(b.records) \in Nat /\ i \in 1 .. Len(b.records)
    BY <2>1, LenProperties DEF Book, Positions
  <2>3. p \in Positions(Erase(b, i)) /\ Erase(b, i).records[p] = b.records[k]
    BY <2>1, EraseMoves
  <2>4. ASSUME NEW l \in Positions(b), l < k, b.records[l].nodeId # n
        PROVE  \E q \in 1 .. p - 1 : Erase(b, i).records[q] = b.records[l]
    <3> DEFINE q == IF l < i THEN l ELSE l - 1
    <3>1. q \in Positions(Erase(b, i)) /\ Erase(b, i).records[q] = b.records[l]
      BY <2>1, <2>4, EraseMoves
    <3>2. l \in 1 .. Len(b.records) /\ k \in 1 .. Len(b.records) /\ l # i /\ k # i
      BY <2>1, <2>4 DEF Positions
    <3>3. q \in 1 .. p - 1
      BY <2>2, <2>4, <3>2
    <3>4. QED
      BY <3>1, <3>3
  <2>5. QED
    BY <2>1, <2>3, <2>4
<1>2. CASE ~HasRecord(b, n)
  <2>1. Without(b, n) = b
    BY <1>2 DEF Without
  <2>2. \A l \in Positions(b) : l < k => l \in 1 .. k - 1
    BY LenProperties DEF Positions, Book
  <2>3. QED
    BY <2>1, <2>2
<1>3. QED
  BY <1>1, <1>2

\* What queueing removes of other nodes is a result, and the oldest one.
LEMMA QueuedSpares ==
  ASSUME NEW b \in Book, NEW uid \in Device, NEW n \in NodeId, NEW value \in Count,
         QueueStatus(b, uid, n) = "Queued", NEW k \in Positions(b), b.records[k].nodeId # n,
         b.records[k] \notin Range(Queued(b, uid, n, value).records)
  PROVE  /\ b.records[k].state = "Completed"
         /\ \A l \in Positions(b) :
              l < k => b.records[l].state = "Pending" \/ b.records[l].nodeId = n
<1> DEFINE w == Without(b, n)
           m == MakeRoom(w)
           r == NewRecord(b, uid, n, value)
<1>1. w \in Book /\ (IsFull(w) => HasCompleted(w))
  BY WithoutIsBook DEF QueueStatus
<1>2. m \in Book /\ r \in Record
  BY <1>1, MakeRoomIsBook, NewRecordIsRecord
<1>3. Queued(b, uid, n, value).records = Append(m.records, r)
  BY DEF Queued
<1>4. b.records[k] \notin Range(m.records)
  <2>1. m.records \in Seq(Record)
    BY <1>2 DEF Book
  <2>2. Range(m.records) \subseteq Range(Append(m.records, r))
    BY <1>2, <2>1, AppendProperties DEF Range
  <2>3. QED
    BY <1>3, <2>2
<1>5. PICK p \in Positions(w) :
        /\ w.records[p] = b.records[k]
        /\ \A l \in Positions(b) :
             l < k /\ b.records[l].nodeId # n => \E q \in 1 .. p - 1 : w.records[q] = b.records[l]
  BY WithoutMoves
<1> HIDE DEF w, r
<1>6. \A c \in Book : Positions(c) = DOMAIN c.records
  BY LenProperties DEF Book, Positions
<1>7. IsFull(w) /\ m = Erase(w, OldestCompleted(w))
  <2>1. CASE ~IsFull(w)
    BY <1>1, <1>4, <1>5, <1>6, <2>1 DEF MakeRoom, Range
  <2>2. QED
    BY <2>1 DEF MakeRoom
<1>8. p = OldestCompleted(w)
  <2>1. OldestCompleted(w) \in Positions(w)
    BY <1>1, <1>7, OldestCompletedFinds
  <2>2. ASSUME p # OldestCompleted(w) PROVE FALSE
    <3>1. \E j \in Positions(m) : m.records[j] = w.records[p]
      BY <1>1, <1>7, <2>1, <2>2, EraseMoves
    <3>2. QED
      BY <1>2, <1>4, <1>5, <1>6, <3>1 DEF Range
  <2>3. QED
    BY <2>2
<1>9. /\ w.records[p].state = "Completed"
      /\ \A q \in 1 .. p - 1 : w.records[q].state # "Completed"
  BY <1>1, <1>7, <1>8, OldestCompletedFinds
<1>10. \A l \in Positions(b) : b.records[l].state \in {"Pending", "Completed"}
  <2>1. \A l \in Positions(b) : b.records[l] \in Record
    BY <1>6 DEF Book
  <2>2. QED
    BY <2>1 DEF Record
<1>11. QED
  BY <1>5, <1>9, <1>10

\* Queueing adds the new record behind records of other nodes.
LEMMA QueuedAddsOne ==
  ASSUME NEW b \in Book, NEW uid \in Device, NEW n \in NodeId, NEW value \in Count,
         QueueStatus(b, uid, n) = "Queued", OneRecordPerNode(b),
         NEW c, c = Queued(b, uid, n, value)
  PROVE  /\ OneRecordPerNode(c)
         /\ c.records[Len(c.records)] = NewRecord(b, uid, n, value)
         /\ Len(c.records) \in Positions(c)
         /\ \A j \in Positions(c) : j # Len(c.records) =>
              /\ c.records[j].nodeId # n
              /\ \E k \in Positions(b) : SameCommand(b.records[k], c.records[j])
<1> DEFINE w == Without(b, n)
           m == MakeRoom(w)
           r == NewRecord(b, uid, n, value)
<1>1. w \in Book /\ m \in Book /\ (IsFull(w) => HasCompleted(w))
  BY WithoutIsBook, MakeRoomIsBook DEF QueueStatus
<1>2. /\ OneRecordPerNode(m)
      /\ SameCommands(m, w)
      /\ SameCommands(w, b)
      /\ ~HasRecord(w, n)
  BY <1>1, WithoutForgets, MakeRoomForgets
<1> HIDE DEF w
<1> HIDE DEF m
<1>3. /\ SameCommands(m, b)
      /\ \A j \in Positions(m) : m.records[j].nodeId # n
  BY <1>2 DEF SameCommands, HasRecord, SameCommand
<1>4. c.records = Append(m.records, r)
  BY DEF Queued, m, w
<1>5. m.records \in Seq(Record) /\ r \in Record
  BY <1>1, NewRecordIsRecord DEF Book
<1>6. /\ Len(c.records) = Len(m.records) + 1
      /\ Len(m.records) \in Nat
      /\ c.records[Len(m.records) + 1] = r
      /\ \A j \in 1 .. Len(m.records) : c.records[j] = m.records[j]
  BY <1>4, <1>5, AppendProperties, LenProperties
<1>7. r.nodeId = n
  BY DEF NewRecord
<1> HIDE DEF r
<1>8. Positions(c) = Positions(m) \cup {Len(c.records)} /\ Len(c.records) \notin Positions(m)
  BY <1>6 DEF Positions
<1>9. \A j \in Positions(m) : c.records[j] = m.records[j]
  BY <1>6 DEF Positions
<1>10. OneRecordPerNode(c)
  <2>1. \A j \in Positions(m) : c.records[j].nodeId # c.records[Len(c.records)].nodeId
    BY <1>3, <1>6, <1>7, <1>9
  <2>2. \A j, k \in Positions(m) : c.records[j].nodeId = c.records[k].nodeId => j = k
    BY <1>2, <1>9 DEF OneRecordPerNode
  <2>3. QED
    BY <1>8, <2>1, <2>2 DEF OneRecordPerNode
<1>11. QED
  BY <1>3, <1>6, <1>8, <1>9, <1>10 DEF SameCommands, r

\* Completing changes the state and the result of one record.
LEMMA CompletedForgets ==
  ASSUME NEW b \in Book, NEW n, HasRecord(b, n), NEW result, OneRecordPerNode(b)
  PROVE  /\ OneRecordPerNode(Completed(b, n, result))
         /\ SameCommands(Completed(b, n, result), b)
<1> DEFINE i == IndexOf(b, n)
           c == Completed(b, n, result)
<1>1. i \in Positions(b)
  BY IndexOfFinds
<1>2. b.records[i] \in Record
  BY <1>1, ElementOfSeq DEF Book, Positions
<1>3. c.records = [b.records EXCEPT ![i] =
                     [@ EXCEPT !.state = "Completed", !.result = result]]
  BY <1>1, <1>2 DEF Completed, Book, Record, Positions
<1>4. Len(c.records) = Len(b.records)
  BY <1>1, <1>3, LenProperties DEF Book, Positions
<1>5. \A j \in Positions(b) :
        SameCommand(b.records[j], c.records[j])
  BY <1>1, <1>2, <1>3, LenProperties DEF Book, Positions, Record, SameCommand
<1>6. QED
  BY <1>4, <1>5 DEF OneRecordPerNode, SameCommands, Positions, SameCommand

-----------------------------------------------------------------------------
(* No operation makes a book outgrow its capacity. *)

Fits(b) == Len(b.records) <= MaxCommandRecords

LEMMA EraseShrinks ==
  ASSUME NEW b \in Book, NEW i \in Positions(b)
  PROVE  Len(Erase(b, i).records) = Len(b.records) - 1
BY RemoveAtIsShift DEF Erase, Book, Positions

LEMMA WithoutFits ==
  ASSUME NEW b \in Book, NEW n, Fits(b)
  PROVE  Fits(Without(b, n))
<1>1. Len(b.records) \in Nat
  BY LenProperties DEF Book
<1>2. QED
  BY <1>1, IndexOfFinds, EraseShrinks, MaxCommandRecordsAssumption DEF Without, Fits

LEMMA QueuedFits ==
  ASSUME NEW b \in Book, NEW uid \in Device, NEW n \in NodeId, NEW value \in Count,
         QueueStatus(b, uid, n) = "Queued", Fits(b)
  PROVE  Fits(Queued(b, uid, n, value))
<1> DEFINE w == Without(b, n)
           m == MakeRoom(w)
<1>1. w \in Book /\ m \in Book /\ Fits(w) /\ (IsFull(w) => HasCompleted(w))
  BY WithoutIsBook, MakeRoomIsBook, WithoutFits DEF QueueStatus
<1>2. Len(w.records) \in Nat
  BY <1>1, LenProperties DEF Book
<1>3. Len(m.records) < MaxCommandRecords
  <2>1. CASE IsFull(w)
    <3>1. Len(m.records) = Len(w.records) - 1
      BY <1>1, <2>1, OldestCompletedFinds, EraseShrinks DEF MakeRoom
    <3>2. QED
      BY <2>1, <3>1, MaxCommandRecordsAssumption DEF IsFull
  <2>2. CASE ~IsFull(w)
    BY <1>1, <1>2, <2>2, MaxCommandRecordsAssumption DEF MakeRoom, IsFull, Fits
  <2>3. QED
    BY <2>1, <2>2
<1>4. m.records \in Seq(Record) /\ NewRecord(b, uid, n, value) \in Record
  BY <1>1, NewRecordIsRecord DEF Book
<1>5. Queued(b, uid, n, value).records = Append(m.records, NewRecord(b, uid, n, value))
  BY DEF Queued
<1> HIDE DEF m
<1>6. Len(Queued(b, uid, n, value).records) = Len(m.records) + 1 /\ Len(m.records) \in Nat
  BY <1>4, <1>5, AppendProperties, LenProperties
<1>7. QED
  BY <1>3, <1>6, MaxCommandRecordsAssumption DEF Fits

LEMMA CompletedFits ==
  ASSUME NEW b \in Book, NEW n, HasRecord(b, n), NEW result \in Result, Fits(b)
  PROVE  Fits(Completed(b, n, result))
<1>1. IndexOf(b, n) \in Positions(b)
  BY IndexOfFinds
<1>2. Len(Completed(b, n, result).records) = Len(b.records)
  BY <1>1, LenProperties DEF Completed, Book, Positions
<1>3. QED
  BY <1>2 DEF Fits

-----------------------------------------------------------------------------
(* The gateway *)

LEMMA GatewayInitIsTyped == GatewayInit => GatewayTypeOK
<1> SUFFICES ASSUME GatewayInit PROVE GatewayTypeOK
  OBVIOUS
<1>1. nvs \in Book
  BY FirstCommandIdsAssumption, EmptySeq DEF GatewayInit, Book
<1>2. /\ sessionFrames \in Seq(SessionFrame)
      /\ radioSends \in Seq(DownlinkFrame)
      /\ issued \in Seq(Issue)
      /\ confirmed \in Seq(NodeId)
  BY EmptySeq DEF GatewayInit
<1>3. QED
  BY <1>1, <1>2 DEF GatewayInit, GatewayTypeOK, Delivery, NoDelivery

\* A frame for a full queue is dropped, any other is queued.
LEMMA SendIsTyped ==
  ASSUME radioSends \in Seq(DownlinkFrame), NEW frame \in DownlinkFrame, Send(frame)
  PROVE  radioSends' \in Seq(DownlinkFrame)
BY AppendProperties DEF Send

LEMMA TailIsTyped ==
  ASSUME NEW S, NEW s \in Seq(S), s # << >>
  PROVE  Tail(s) \in Seq(S) /\ Head(s) \in S
BY HeadTailProperties

\* A commit, whatever becomes of its write.
LEMMA CommitIsTyped ==
  ASSUME GatewayTypeOK, NEW candidate \in Book,
         CommitSaved(candidate) \/ CommitFailed(candidate)
  PROVE  nvs' \in Book /\ book' \in Book /\ faults' \in Nat
BY DEF GatewayTypeOK, CommitSaved, CommitFailed

LEMMA RecordOfIsRecord ==
  ASSUME NEW b \in Book, NEW n, HasRecord(b, n)
  PROVE  RecordOf(b, n) \in Record
BY IndexOfFinds, ElementOfSeq DEF RecordOf, Book, Positions

LEMMA QueueCommandIsTyped ==
  ASSUME GatewayTypeOK, NEW n \in NodeId, NEW value \in Count, QueueCommand(n, value)
  PROVE  GatewayTypeOK'
<1> DEFINE uid == registry[n]
           candidate == Queued(book, uid, n, value)
<1>1. uid \in Device /\ book \in Book
  BY DEF GatewayTypeOK, QueueCommand, Active
<1>2. candidate \in Book
  BY <1>1, QueuedIsBook DEF QueueCommand
<1>3. nvs' \in Book /\ book' \in Book /\ faults' \in Nat
  BY <1>2, CommitIsTyped DEF QueueCommand
<1>4. NewRecord(book, uid, n, value) \in Record
  BY <1>1, NewRecordIsRecord
<1>5. IssueOf(NewRecord(book, uid, n, value)) \in Issue
  BY <1>4, LenProperties DEF IssueOf, Issue, Record, GatewayTypeOK
<1>6. issued' \in Seq(Issue)
  <2>1. issued \in Seq(Issue)
    BY DEF GatewayTypeOK
  <2>2. Append(issued, IssueOf(NewRecord(book, uid, n, value))) \in Seq(Issue)
    BY <1>5, <2>1, AppendProperties
  <2>3. QED
    BY <2>1, <2>2 DEF QueueCommand
<1>7. deliveries' \in [NodeId -> Delivery]
  BY DEF GatewayTypeOK, QueueCommand, Delivery, NoDelivery
<1>8. QED
  BY <1>3, <1>6, <1>7 DEF GatewayTypeOK, QueueCommand

LEMMA CancelCommandIsTyped ==
  ASSUME GatewayTypeOK, NEW n \in NodeId, CancelCommand(n)
  PROVE  GatewayTypeOK'
<1>1. Without(book, n) \in Book
  BY WithoutIsBook DEF GatewayTypeOK
<1>2. nvs' \in Book /\ book' \in Book /\ faults' \in Nat
  BY <1>1, CommitIsTyped DEF CancelCommand
<1>3. QED
  BY <1>2 DEF GatewayTypeOK, CancelCommand

LEMMA DeleteRecordIsTyped ==
  ASSUME GatewayTypeOK, DeleteRecord
  PROVE  GatewayTypeOK'
<1>1. Without(book, deleting) \in Book
  BY WithoutIsBook DEF GatewayTypeOK
<1>2. nvs' \in Book /\ book' \in Book /\ faults' \in Nat
  BY <1>1, CommitIsTyped DEF DeleteRecord, GatewayTypeOK
<1>3. deliveries' \in [NodeId -> Delivery]
  BY DEF GatewayTypeOK, DeleteRecord, Delivery, NoDelivery
<1>4. QED
  BY <1>2, <1>3 DEF GatewayTypeOK, DeleteRecord

LEMMA QueueFrameIsTyped ==
  ASSUME GatewayTypeOK, NEW frame \in SessionFrame, QueueFrame(frame)
  PROVE  GatewayTypeOK'
<1>1. sessionFrames' \in Seq(SessionFrame)
  BY AppendProperties DEF GatewayTypeOK, QueueFrame
<1>2. QED
  BY <1>1 DEF GatewayTypeOK, QueueFrame

LEMMA EndTransmissionIsTyped ==
  ASSUME GatewayTypeOK, EndTransmission
  PROVE  GatewayTypeOK'
<1>1. radioSends' \in Seq(DownlinkFrame)
  BY TailIsTyped DEF GatewayTypeOK, EndTransmission
<1>2. QED
  BY <1>1 DEF GatewayTypeOK, EndTransmission

LEMMA ConfirmNodeIsTyped ==
  ASSUME GatewayTypeOK, NEW n \in NodeId, NEW d \in Device, ConfirmNode(n, d)
  PROVE  GatewayTypeOK'
<1>1. confirmed' \in Seq(NodeId)
  BY AppendProperties DEF GatewayTypeOK, ConfirmNode
<1>2. QED
  BY <1>1 DEF GatewayTypeOK, ConfirmNode

-----------------------------------------------------------------------------
(* The commands task *)

\* The frame at the head of the queue, and what is left of the queue.
LEMMA NextFrameIsTyped ==
  ASSUME GatewayTypeOK, NEW kind, NextFrameIs(kind)
  PROVE  /\ Head(sessionFrames) \in SessionFrame
         /\ Tail(sessionFrames) \in Seq(SessionFrame)
         /\ Head(sessionFrames).kind = kind
BY TailIsTyped DEF GatewayTypeOK, NextFrameIs

LEMMA AnswerEmptySessionIsTyped ==
  ASSUME GatewayTypeOK, AnswerEmptySession
  PROVE  GatewayTypeOK'
<1> DEFINE frame == Head(sessionFrames)
           answer == NoCommandTo(frame.sender, frame.nonce)
<1>1. frame \in SessionFrame /\ Tail(sessionFrames) \in Seq(SessionFrame)
  BY NextFrameIsTyped DEF AnswerEmptySession
<1>2. answer \in DownlinkFrame
  BY <1>1 DEF NoCommandTo, DownlinkFrame, NoCommandFrame, SessionFrame, ReadyFrame, ResultFrame
<1>3. radioSends' \in Seq(DownlinkFrame)
  BY <1>2, SendIsTyped DEF AnswerEmptySession, GatewayTypeOK
<1>4. QED
  BY <1>1, <1>3 DEF GatewayTypeOK, AnswerEmptySession

LEMMA ReadIdentityIsTyped ==
  ASSUME GatewayTypeOK, ReadIdentity
  PROVE  GatewayTypeOK'
<1> DEFINE frame == Head(sessionFrames)
<1>1. frame \in SessionFrame /\ Tail(sessionFrames) \in Seq(SessionFrame)
  BY NextFrameIsTyped DEF ReadIdentity
<1>2. frame.sender \in NodeId /\ frame.nonce \in Nonce
  BY <1>1 DEF SessionFrame, ReadyFrame, ResultFrame
<1>3. handler' \in Answering
  BY <1>2 DEF ReadIdentity, Answering, GatewayTypeOK
<1>4. QED
  BY <1>1, <1>3 DEF GatewayTypeOK, ReadIdentity

\* While the task answers a Command ready it knows whose.
LEMMA HandlerIsTyped ==
  ASSUME GatewayTypeOK, handler # Idle
  PROVE  handler \in Answering /\ handler.node \in NodeId /\ handler.nonce \in Nonce
BY DEF GatewayTypeOK, Answering

LEMMA DeliverCommandIsTyped ==
  ASSUME GatewayTypeOK, DeliverCommand
  PROVE  GatewayTypeOK'
<1> DEFINE n == handler.node
           record == RecordOf(book, n)
<1>1. n \in NodeId /\ handler.nonce \in Nonce
  BY HandlerIsTyped DEF DeliverCommand
<1>2. record \in Record
  BY RecordOfIsRecord DEF DeliverCommand, CanDeliver, IsBusy, GatewayTypeOK
<1>3. CommandTo(n, handler.nonce, record) \in DownlinkFrame
  BY <1>1, <1>2 DEF CommandTo, DownlinkFrame, CommandFrame, Record
<1>4. radioSends' \in Seq(DownlinkFrame)
  BY <1>3, SendIsTyped DEF DeliverCommand, GatewayTypeOK
<1>5. deliveries' \in [NodeId -> Delivery]
  BY <1>1, <1>2 DEF DeliverCommand, GatewayTypeOK, Delivery, Record
<1>6. QED
  BY <1>4, <1>5 DEF GatewayTypeOK, DeliverCommand

LEMMA WithholdCommandIsTyped ==
  ASSUME GatewayTypeOK, WithholdCommand
  PROVE  GatewayTypeOK'
<1>1. handler.node \in NodeId /\ handler.nonce \in Nonce
  BY HandlerIsTyped DEF WithholdCommand
<1>2. NoCommandTo(handler.node, handler.nonce) \in DownlinkFrame
  BY <1>1 DEF NoCommandTo, DownlinkFrame, NoCommandFrame
<1>3. radioSends' \in Seq(DownlinkFrame)
  BY <1>2, SendIsTyped DEF WithholdCommand, GatewayTypeOK
<1>4. QED
  BY <1>3 DEF GatewayTypeOK, WithholdCommand

LEMMA RecordResultIsTyped ==
  ASSUME GatewayTypeOK, RecordResult
  PROVE  GatewayTypeOK'
<1> DEFINE frame == Head(sessionFrames)
           candidate == Completed(book, frame.sender, frame.result)
<1>1. /\ frame \in SessionFrame
      /\ Tail(sessionFrames) \in Seq(SessionFrame)
      /\ frame.kind = "CommandResult"
  BY NextFrameIsTyped DEF RecordResult
<1>2. frame.result \in Result
  BY <1>1 DEF SessionFrame, ReadyFrame, ResultFrame
<1>3. HasRecord(book, frame.sender)
  BY DEF RecordResult, Completes, CompleteStatus, IsPending
<1>4. candidate \in Book
  BY <1>2, <1>3, CompletedIsBook DEF GatewayTypeOK
<1>5. nvs' \in Book /\ book' \in Book /\ faults' \in Nat
  BY <1>4, CommitIsTyped DEF RecordResult
<1>6. QED
  BY <1>1, <1>5 DEF GatewayTypeOK, RecordResult

LEMMA DiscardResultIsTyped ==
  ASSUME GatewayTypeOK, DiscardResult
  PROVE  GatewayTypeOK'
BY NextFrameIsTyped DEF GatewayTypeOK, DiscardResult

LEMMA RestartGatewayIsTyped ==
  ASSUME GatewayTypeOK, RestartGateway
  PROVE  GatewayTypeOK'
<1>1. issued' \in Seq(Issue)
  <2>1. CASE LoadedCommands = {}
    BY <2>1 DEF RestartGateway, GatewayTypeOK
  <2>2. CASE LoadedCommands # {}
    <3> DEFINE i == CHOOSE i \in LoadedCommands : TRUE
    <3>1. i \in Positions(nvs)
      BY <2>2 DEF LoadedCommands
    <3>2. nvs.records[i] \in Record
      BY <3>1, ElementOfSeq DEF GatewayTypeOK, Book, Positions
    <3>3. IssueOf(nvs.records[i]) \in Issue
      BY <3>2, LenProperties DEF IssueOf, Issue, Record, GatewayTypeOK
    <3>4. Append(issued, IssueOf(nvs.records[i])) \in Seq(Issue)
      BY <3>3, AppendProperties DEF GatewayTypeOK
    <3>5. QED
      BY <2>2, <3>4 DEF RestartGateway
  <2>3. QED
    BY <2>1, <2>2
<1>2. deliveries' \in [NodeId -> Delivery]
  BY DEF RestartGateway, Delivery, NoDelivery
<1>3. sessionFrames' \in Seq(SessionFrame) /\ radioSends' \in Seq(DownlinkFrame)
  BY EmptySeq DEF RestartGateway
<1>4. QED
  BY <1>1, <1>2, <1>3 DEF GatewayTypeOK, RestartGateway

-----------------------------------------------------------------------------
LEMMA GatewayStepIsTyped ==
  ASSUME GatewayTypeOK, GatewayStep
  PROVE  GatewayTypeOK'
<1>1. ASSUME NEW n \in NodeId, NEW value \in Count, QueueCommand(n, value)
      PROVE  GatewayTypeOK'
  BY <1>1, QueueCommandIsTyped
<1>2. ASSUME NEW n \in NodeId, CancelCommand(n)
      PROVE  GatewayTypeOK'
  BY <1>2, CancelCommandIsTyped
<1>3. ASSUME NEW n \in NodeId, DeleteNode(n)
      PROVE  GatewayTypeOK'
  BY <1>3 DEF GatewayTypeOK, DeleteNode
<1>4. CASE DeleteRecord
  BY <1>4, DeleteRecordIsTyped
<1>5. CASE CommandsTask
  BY <1>5, AnswerEmptySessionIsTyped, ReadIdentityIsTyped, DeliverCommandIsTyped,
     WithholdCommandIsTyped, RecordResultIsTyped, DiscardResultIsTyped
     DEF CommandsTask
<1>6. CASE RestartGateway
  BY <1>6, RestartGatewayIsTyped
<1>7. QED
  BY <1>1, <1>2, <1>3, <1>4, <1>5, <1>6 DEF GatewayStep

-----------------------------------------------------------------------------
(* The order of commands, as facts about books and issues. *)

LEMMA SameIsLatest ==
  ASSUME NEW r, NEW s, SameCommand(r, s), NEW issues, IsLatest(r, issues)
  PROVE  IsLatest(s, issues)
BY DEF SameCommand, IsLatest, IssuedAs

LEMMA LatestIsNotFresh ==
  ASSUME NEW r, NEW issues, IsLatest(r, issues)
  PROVE  ~IsFresh(r, issues)
BY DEF IsLatest, IsFresh, IdsOf, IssuedAs

LEMMA InBookIsLatest ==
  ASSUME NEW store, NEW b, NEW issues, InOrder(store, b, issues), NEW r, InBook(r, b)
  PROVE  IsLatest(r, issues)
BY SameIsLatest DEF InOrder, InBook

\* A store follows the book it has all its commands from.
LEMMA SameCommandsFollow ==
  ASSUME NEW store, NEW b, NEW issues, InOrder(store, b, issues),
         NEW c, SameCommands(c, b)
  PROVE  /\ Follows(c, b, issues)
         /\ \A p \in Positions(c) : IsLatest(c.records[p], issues)
<1>1. \A p \in Positions(c) : InBook(c.records[p], b)
  BY DEF SameCommands, InBook
<1>2. \A p \in Positions(c) : IsLatest(c.records[p], issues)
  BY <1>1, InBookIsLatest
<1>3. \A p \in Positions(c) : ~IsFresh(c.records[p], issues)
  BY <1>2, LatestIsNotFresh
<1>4. QED
  BY <1>1, <1>2, <1>3 DEF Follows

LEMMA SameCommandsReflexive ==
  ASSUME NEW b
  PROVE  SameCommands(b, b)
BY DEF SameCommands, SameCommand

\* Whatever the write of a candidate without new commands leaves behind.
LEMMA ForgettingIsInOrder ==
  ASSUME NEW store, NEW b, NEW issues, InOrder(store, b, issues),
         NEW c, OneRecordPerNode(c), SameCommands(c, b)
  PROVE  InOrder(c, c, issues) /\ InOrder(c, b, issues) /\ InOrder(b, b, issues)
<1>1. /\ Follows(c, b, issues)
      /\ Follows(b, b, issues)
      /\ \A p \in Positions(c) : IsLatest(c.records[p], issues)
  BY SameCommandsFollow, SameCommandsReflexive
<1>2. InOrder(c, b, issues) /\ InOrder(b, b, issues)
  BY <1>1 DEF InOrder
<1>3. Follows(c, c, issues)
  <2>1. \A p \in Positions(c) : InBook(c.records[p], c)
    BY DEF InBook, SameCommand
  <2>2. \A p \in Positions(c) : ~IsFresh(c.records[p], issues)
    BY <1>1, LatestIsNotFresh
  <2>3. QED
    BY <2>1, <2>2 DEF Follows
<1>4. QED
  BY <1>1, <1>2, <1>3 DEF InOrder

\* A new issue is the latest of its node, and no other node's is affected.
LEMMA NewIssueIsLatest ==
  ASSUME NEW issues \in Seq(Issue), NEW issue \in Issue,
         issue.commandId \notin IdsOf(issues), IdsDiffer(issues),
         NEW longer, longer = Append(issues, issue)
  PROVE  /\ IdsDiffer(longer)
         /\ \A r : IssuedAs(r, Len(longer), longer) => IsLatest(r, longer)
         /\ \A r : IsLatest(r, issues) /\ r.nodeId # issue.node => IsLatest(r, longer)
<1>1. /\ Len(longer) = Len(issues) + 1
      /\ Len(issues) \in Nat
      /\ longer[Len(issues) + 1] = issue
      /\ \A i \in 1 .. Len(issues) : longer[i] = issues[i]
  BY AppendProperties, LenProperties
<1>2. IdsDiffer(longer)
  <2>1. \A i \in 1 .. Len(issues) : issues[i].commandId # issue.commandId
    BY DEF IdsOf
  <2>2. QED
    BY <1>1, <2>1 DEF IdsDiffer
<1>3. ASSUME NEW r, IssuedAs(r, Len(longer), longer)
      PROVE  IsLatest(r, longer)
  BY <1>1, <1>3 DEF IsLatest
<1>4. ASSUME NEW r, IsLatest(r, issues), r.nodeId # issue.node
      PROVE  IsLatest(r, longer)
  BY <1>1, <1>4 DEF IsLatest, IssuedAs
<1>5. QED
  BY <1>2, <1>3, <1>4

\* Queueing a command under an ID that was never issued.
LEMMA QueueingIsInOrder ==
  ASSUME NEW store \in Book, NEW b \in Book, NEW issues \in Seq(Issue),
         InOrder(store, b, issues),
         NEW uid \in Device, NEW n \in NodeId, NEW value \in Count,
         QueueStatus(b, uid, n) = "Queued", b.nextCommandId \notin IdsOf(issues),
         NEW c, c = Queued(b, uid, n, value),
         NEW issue \in Issue,
         issue.node = n, issue.commandId = b.nextCommandId,
         issue.uid = uid, issue.count = value
  PROVE  /\ InOrder(c, b, issues)
         /\ InOrder(c, c, Append(issues, issue))
<1> DEFINE last == Len(c.records)
           longer == Append(issues, issue)
<1>1. /\ OneRecordPerNode(c)
      /\ last \in Positions(c)
      /\ c.records[last] = NewRecord(b, uid, n, value)
      /\ \A j \in Positions(c) : j # last =>
           /\ c.records[j].nodeId # n
           /\ \E k \in Positions(b) : SameCommand(b.records[k], c.records[j])
  BY QueuedAddsOne DEF InOrder
<1>2. IsFresh(c.records[last], issues)
  BY <1>1 DEF IsFresh, NewRecord
<1>3. \A j \in Positions(c) : j # last =>
        InBook(c.records[j], b) /\ IsLatest(c.records[j], issues)
  BY <1>1, InBookIsLatest DEF InBook
<1>4. Follows(c, b, issues)
  BY <1>2, <1>3, LatestIsNotFresh DEF Follows
<1>5. InOrder(c, b, issues)
  BY <1>1, <1>4 DEF InOrder
<1>6. /\ IdsDiffer(longer)
      /\ \A r : IssuedAs(r, Len(longer), longer) => IsLatest(r, longer)
      /\ \A r : IsLatest(r, issues) /\ r.nodeId # n => IsLatest(r, longer)
  BY NewIssueIsLatest DEF InOrder
<1>7. IssuedAs(c.records[last], Len(longer), longer)
  BY <1>1, AppendProperties DEF IssuedAs, NewRecord
<1>8. \A p \in Positions(c) : IsLatest(c.records[p], longer)
  BY <1>1, <1>3, <1>6, <1>7
<1>9. Follows(c, c, longer)
  <2>1. \A p \in Positions(c) : InBook(c.records[p], c)
    BY DEF InBook, SameCommand
  <2>2. \A p \in Positions(c) : ~IsFresh(c.records[p], longer)
    BY <1>8, LatestIsNotFresh
  <2>3. QED
    BY <2>1, <2>2 DEF Follows
<1>10. InOrder(c, c, longer)
  BY <1>1, <1>6, <1>8, <1>9 DEF InOrder
<1>11. QED
  BY <1>5, <1>10

\* RAM and a store that holds the same.
LEMMA LoadedBookIsInOrder ==
  ASSUME NEW store, NEW b, NEW issues, InOrder(store, b, issues)
  PROVE  InOrder(b, b, issues)
BY ForgettingIsInOrder, SameCommandsReflexive DEF InOrder

\* A boot that finds no command RAM did not have.
LEMMA LoadingIsInOrder ==
  ASSUME NEW store, NEW b, NEW issues, InOrder(store, b, issues),
         \A p \in Positions(store) : ~IsFresh(store.records[p], issues)
  PROVE  InOrder(store, store, issues)
<1>1. \A p \in Positions(store) : IsLatest(store.records[p], issues)
  BY InBookIsLatest DEF InOrder, Follows
<1>2. \A p \in Positions(store) : InBook(store.records[p], store)
  BY DEF InBook, SameCommand
<1>3. QED
  BY <1>1, <1>2 DEF InOrder, Follows

\* A boot that finds one.
LEMMA LoadingFreshIsInOrder ==
  ASSUME NEW store, NEW b, NEW issues \in Seq(Issue), InOrder(store, b, issues),
         NEW f \in Positions(store), IsFresh(store.records[f], issues),
         NEW issue \in Issue,
         issue.node = store.records[f].nodeId,
         issue.commandId = store.records[f].commandId,
         issue.uid = store.records[f].uid,
         issue.count = store.records[f].count
  PROVE  InOrder(store, store, Append(issues, issue))
<1> DEFINE longer == Append(issues, issue)
<1>1. /\ IdsDiffer(longer)
      /\ \A r : IssuedAs(r, Len(longer), longer) => IsLatest(r, longer)
      /\ \A r : IsLatest(r, issues) /\ r.nodeId # issue.node => IsLatest(r, longer)
  BY NewIssueIsLatest DEF InOrder, IsFresh
<1>2. IssuedAs(store.records[f], Len(longer), longer)
  BY AppendProperties DEF IssuedAs
<1>3. ASSUME NEW p \in Positions(store), p # f
      PROVE  IsLatest(store.records[p], longer)
  <2>1. ~IsFresh(store.records[p], issues)
    BY <1>3 DEF InOrder, Follows
  <2>2. IsLatest(store.records[p], issues)
    BY <2>1, InBookIsLatest DEF InOrder, Follows
  <2>3. store.records[p].nodeId # store.records[f].nodeId
    BY <1>3 DEF InOrder, OneRecordPerNode
  <2>4. QED
    BY <1>1, <2>2, <2>3
<1>4. \A p \in Positions(store) : IsLatest(store.records[p], longer)
  BY <1>1, <1>2, <1>3
<1>5. \A p \in Positions(store) : ~IsFresh(store.records[p], longer)
  BY <1>4, LatestIsNotFresh
<1>6. \A p \in Positions(store) : InBook(store.records[p], store)
  BY DEF InBook, SameCommand
<1>7. QED
  BY <1>1, <1>4, <1>5, <1>6 DEF InOrder, Follows

-----------------------------------------------------------------------------
(* The gateway's steps keep its book in order. *)

LEMMA GatewayInitIsInOrder == GatewayInit => BookInOrder /\ SendsInOrder
<1> SUFFICES ASSUME GatewayInit PROVE BookInOrder /\ SendsInOrder
  OBVIOUS
<1>1. book.records = << >> /\ nvs.records = << >> /\ issued = << >> /\ radioSends = << >>
  BY DEF GatewayInit
<1>2. Len(<< >>) = 0
  BY EmptySeq
<1>3. BookInOrder
  BY <1>1, <1>2 DEF BookInOrder, InOrder, OneRecordPerNode, IdsDiffer, Follows, Positions
<1>4. SendsInOrder
  BY <1>1, <1>2 DEF SendsInOrder, SentInOrder
<1>5. QED
  BY <1>3, <1>4

LEMMA ForgettingCommitIsInOrder ==
  ASSUME BookInOrder, NEW candidate, OneRecordPerNode(candidate),
         SameCommands(candidate, book),
         CommitSaved(candidate) \/ CommitFailed(candidate), issued' = issued
  PROVE  BookInOrder'
<1>1. /\ InOrder(candidate, candidate, issued)
      /\ InOrder(candidate, book, issued)
      /\ InOrder(book, book, issued)
  BY ForgettingIsInOrder DEF BookInOrder
<1>2. CASE CommitSaved(candidate)
  BY <1>1, <1>2 DEF CommitSaved, BookInOrder
<1>3. CASE CommitFailed(candidate)
  BY <1>1, <1>3 DEF CommitFailed, BookInOrder
<1>4. QED
  BY <1>2, <1>3

LEMMA QueueCommandIsInOrder ==
  ASSUME GatewayTypeOK, BookInOrder, NEW n \in NodeId, NEW value \in Count,
         QueueCommand(n, value)
  PROVE  BookInOrder'
<1> DEFINE uid == registry[n]
           candidate == Queued(book, uid, n, value)
           record == NewRecord(book, uid, n, value)
           issue == IssueOf(record)
<1>1. /\ uid \in Device
      /\ book \in Book
      /\ nvs \in Book
      /\ issued \in Seq(Issue)
      /\ QueueStatus(book, uid, n) = "Queued"
      /\ book.nextCommandId \notin IdsOf(issued)
  BY DEF GatewayTypeOK, QueueCommand, Active, IdsLeft, IssuedIds
<1>2. record \in Record
  BY <1>1, NewRecordIsRecord
<1>3. issue \in Issue
  BY <1>2, LenProperties DEF IssueOf, Issue, Record, GatewayTypeOK
<1>4. /\ issue.node = n
      /\ issue.commandId = book.nextCommandId
      /\ issue.uid = uid
      /\ issue.count = value
  BY DEF IssueOf, NewRecord
<1> HIDE DEF issue
<1> HIDE DEF candidate
<1>5. InOrder(candidate, book, issued) /\ InOrder(candidate, candidate, Append(issued, issue))
  BY <1>1, <1>3, <1>4, QueueingIsInOrder DEF candidate, BookInOrder
<1>6. InOrder(book, book, issued)
  BY LoadedBookIsInOrder DEF BookInOrder
<1>7. CASE CommitSaved(candidate) /\ issued' = Append(issued, issue)
  BY <1>5, <1>7 DEF CommitSaved, BookInOrder
<1>8. CASE CommitFailed(candidate) /\ issued' = issued
  BY <1>5, <1>6, <1>8 DEF CommitFailed, BookInOrder
<1>9. QED
  BY <1>7, <1>8 DEF QueueCommand, candidate, issue

LEMMA WithoutCommitIsInOrder ==
  ASSUME GatewayTypeOK, BookInOrder, NEW n,
         CommitSaved(Without(book, n)) \/ CommitFailed(Without(book, n)),
         issued' = issued
  PROVE  BookInOrder'
<1>1. book \in Book /\ OneRecordPerNode(book)
  BY DEF GatewayTypeOK, BookInOrder, InOrder
<1>2. OneRecordPerNode(Without(book, n)) /\ SameCommands(Without(book, n), book)
  BY <1>1, WithoutForgets
<1>3. QED
  BY <1>2, ForgettingCommitIsInOrder

LEMMA RecordResultIsInOrder ==
  ASSUME GatewayTypeOK, BookInOrder, RecordResult
  PROVE  BookInOrder'
<1> DEFINE frame == Head(sessionFrames)
           candidate == Completed(book, frame.sender, frame.result)
<1>1. book \in Book /\ OneRecordPerNode(book)
  BY DEF GatewayTypeOK, BookInOrder, InOrder
<1>2. HasRecord(book, frame.sender)
  BY DEF RecordResult, Completes, CompleteStatus, IsPending
<1>3. OneRecordPerNode(candidate) /\ SameCommands(candidate, book)
  BY <1>1, <1>2, CompletedForgets
<1>4. CommitSaved(candidate) \/ CommitFailed(candidate)
  BY DEF RecordResult
<1> HIDE DEF candidate
<1>5. issued' = issued
  BY DEF RecordResult
<1>6. QED
  BY <1>3, <1>4, <1>5, ForgettingCommitIsInOrder

LEMMA RestartGatewayIsInOrder ==
  ASSUME GatewayTypeOK, BookInOrder, RestartGateway
  PROVE  BookInOrder'
<1>1. nvs \in Book /\ issued \in Seq(Issue) /\ InOrder(nvs, book, issued)
  BY DEF GatewayTypeOK, BookInOrder
<1>2. LoadedCommands = {p \in Positions(nvs) : IsFresh(nvs.records[p], issued)}
  BY DEF LoadedCommands, IsFresh, IssuedIds
<1>3. CASE LoadedCommands = {}
  <2>1. InOrder(nvs, nvs, issued)
    BY <1>1, <1>2, <1>3, LoadingIsInOrder
  <2>2. QED
    BY <1>3, <2>1 DEF RestartGateway, BookInOrder
<1>4. CASE LoadedCommands # {}
  <2> DEFINE f == CHOOSE i \in LoadedCommands : TRUE
             issue == IssueOf(nvs.records[f])
  <2>1. f \in Positions(nvs) /\ IsFresh(nvs.records[f], issued)
    BY <1>2, <1>4
  <2>2. nvs.records[f] \in Record
    BY <1>1, <2>1, ElementOfSeq DEF Book, Positions
  <2>3. issue \in Issue
    BY <2>2, LenProperties DEF IssueOf, Issue, Record, GatewayTypeOK
  <2>4. /\ issue.node = nvs.records[f].nodeId
        /\ issue.commandId = nvs.records[f].commandId
        /\ issue.uid = nvs.records[f].uid
        /\ issue.count = nvs.records[f].count
    BY DEF IssueOf
  <2>5. issued' = Append(issued, issue) /\ nvs' = nvs /\ book' = nvs
    BY <1>4 DEF RestartGateway
  <2> HIDE DEF f
  <2> HIDE DEF issue
  <2>6. InOrder(nvs, nvs, Append(issued, issue))
    BY <1>1, <2>1, <2>3, <2>4, LoadingFreshIsInOrder
  <2>7. QED
    BY <2>5, <2>6 DEF BookInOrder
<1>5. QED
  BY <1>3, <1>4

\* What keeps the book, the store and the issues keeps their order.
LEMMA UnchangedIsInOrder ==
  ASSUME BookInOrder, nvs' = nvs, book' = book, issued' = issued
  PROVE  BookInOrder'
BY DEF BookInOrder

LEMMA GatewayStepIsInOrder ==
  ASSUME GatewayTypeOK, BookInOrder, GatewayStep
  PROVE  BookInOrder'
<1>1. ASSUME NEW n \in NodeId, NEW value \in Count, QueueCommand(n, value)
      PROVE  BookInOrder'
  BY <1>1, QueueCommandIsInOrder
<1>2. ASSUME NEW n \in NodeId, CancelCommand(n)
      PROVE  BookInOrder'
  BY <1>2, WithoutCommitIsInOrder DEF CancelCommand
<1>3. ASSUME NEW n \in NodeId, DeleteNode(n)
      PROVE  BookInOrder'
  BY <1>3, UnchangedIsInOrder DEF DeleteNode
<1>4. CASE DeleteRecord
  BY <1>4, WithoutCommitIsInOrder, UnchangedIsInOrder DEF DeleteRecord
<1>5. CASE CommandsTask
  <2>1. CASE RecordResult
    BY <2>1, RecordResultIsInOrder
  <2>2. CASE ~RecordResult
    BY <1>5, <2>2, UnchangedIsInOrder
       DEF CommandsTask, AnswerEmptySession, ReadIdentity, DeliverCommand,
           WithholdCommand, DiscardResult
  <2>3. QED
    BY <2>1, <2>2
<1>6. CASE RestartGateway
  BY <1>6, RestartGatewayIsInOrder
<1>7. QED
  BY <1>1, <1>2, <1>3, <1>4, <1>5, <1>6 DEF GatewayStep

-----------------------------------------------------------------------------
(* Commands are sent in the order they were issued. *)

\* A command issued later changes nothing about those before it.
LEMMA IssueKeepsOrder ==
  ASSUME NEW issues \in Seq(Issue), NEW issue \in Issue,
         issue.commandId \notin IdsOf(issues),
         NEW sends, SentInOrder(sends, issues)
  PROVE  SentInOrder(sends, Append(issues, issue))
<1> DEFINE longer == Append(issues, issue)
<1>1. /\ Len(longer) = Len(issues) + 1
      /\ Len(issues) \in Nat
      /\ longer[Len(issues) + 1] = issue
      /\ \A i \in 1 .. Len(issues) : longer[i] = issues[i]
      /\ \A i \in 1 .. Len(issues) : issues[i].commandId # issue.commandId
  BY AppendProperties, LenProperties DEF IdsOf
<1> HIDE DEF longer
<1>2. SUFFICES ASSUME NEW n \in NodeId, NEW p \in 1 .. Len(sends), IsCommandTo(n, p, sends)
      PROVE  /\ FrameIsIssued(sends[p], longer)
             /\ \A q \in 1 .. Len(sends) : IsCommandTo(n, q, sends) /\ p <= q =>
                  NotLater(sends[p].commandId, sends[q].commandId, longer)
  BY DEF SentInOrder, longer
<1>3. FrameIsIssued(sends[p], issues)
  BY <1>2 DEF SentInOrder
<1>4. FrameIsIssued(sends[p], longer)
  BY <1>1, <1>3 DEF FrameIsIssued
<1>5. ASSUME NEW q \in 1 .. Len(sends), IsCommandTo(n, q, sends), p <= q
      PROVE  NotLater(sends[p].commandId, sends[q].commandId, longer)
  <2>1. FrameIsIssued(sends[q], issues) /\ FrameIsIssued(sends[p], issues)
    BY <1>2, <1>5 DEF SentInOrder
  <2>2. sends[q].commandId # issue.commandId /\ sends[p].commandId # issue.commandId
    BY <1>1, <2>1 DEF FrameIsIssued
  <2>3. NotLater(sends[p].commandId, sends[q].commandId, issues)
    BY <1>2, <1>5 DEF SentInOrder
  <2>4. ASSUME NEW i \in 1 .. Len(longer), NEW j \in 1 .. Len(longer),
               longer[i].commandId = sends[p].commandId,
               longer[j].commandId = sends[q].commandId
        PROVE  i <= j
    <3>1. i \in 1 .. Len(issues) /\ j \in 1 .. Len(issues)
      BY <1>1, <2>2, <2>4
    <3>2. issues[i].commandId = sends[p].commandId /\ issues[j].commandId = sends[q].commandId
      BY <1>1, <2>4, <3>1
    <3>3. QED
      BY <2>3, <3>1, <3>2 DEF NotLater
  <2>5. QED
    BY <2>4 DEF NotLater
<1>6. QED
  BY <1>4, <1>5

LEMMA TailIsSentInOrder ==
  ASSUME NEW issues, NEW sends \in Seq(DownlinkFrame), sends # << >>,
         SentInOrder(sends, issues)
  PROVE  SentInOrder(Tail(sends), issues)
<1>1. /\ Len(Tail(sends)) = Len(sends) - 1
      /\ Len(sends) \in Nat
      /\ \A p \in 1 .. Len(Tail(sends)) : Tail(sends)[p] = sends[p + 1]
  BY HeadTailProperties, LenProperties
<1>2. \A p \in 1 .. Len(Tail(sends)) : p + 1 \in 1 .. Len(sends)
  BY <1>1
<1>3. \A n \in NodeId, p \in 1 .. Len(Tail(sends)) :
        IsCommandTo(n, p, Tail(sends)) => IsCommandTo(n, p + 1, sends)
  BY <1>1, <1>2 DEF IsCommandTo
<1>4. \A p, q \in 1 .. Len(Tail(sends)) : p <= q => p + 1 <= q + 1
  BY <1>1
<1>5. QED
  BY <1>1, <1>2, <1>3, <1>4 DEF SentInOrder

\* A frame with no command, or with the latest one for the frame's target.
IsNewest(frame, issues) ==
  frame.kind = "Command" =>
    \E i \in 1 .. Len(issues) :
      /\ issues[i].node = frame.target
      /\ issues[i].commandId = frame.commandId
      /\ issues[i].count = frame.count
      /\ \A j \in 1 .. Len(issues) : issues[j].node = frame.target => j <= i

LEMMA AppendIsSentInOrder ==
  ASSUME NEW issues, NEW sends \in Seq(DownlinkFrame), SentInOrder(sends, issues),
         IdsDiffer(issues), NEW frame \in DownlinkFrame,
         IsNewest(frame, issues)
  PROVE  SentInOrder(Append(sends, frame), issues)
<1> DEFINE longer == Append(sends, frame)
           last == Len(sends) + 1
<1>1. /\ Len(longer) = last
      /\ Len(sends) \in Nat
      /\ longer[last] = frame
      /\ \A p \in 1 .. Len(sends) : longer[p] = sends[p]
  BY AppendProperties, LenProperties
<1> HIDE DEF longer
<1>2. SUFFICES ASSUME NEW n \in NodeId, NEW p \in 1 .. Len(longer), IsCommandTo(n, p, longer)
      PROVE  /\ FrameIsIssued(longer[p], issues)
             /\ \A q \in 1 .. Len(longer) : IsCommandTo(n, q, longer) /\ p <= q =>
                  NotLater(longer[p].commandId, longer[q].commandId, issues)
  BY DEF SentInOrder, longer
<1>3. FrameIsIssued(longer[p], issues)
  <2>1. CASE p = last
    BY <1>1, <1>2, <2>1 DEF FrameIsIssued, IsCommandTo, IsNewest
  <2>2. CASE p # last
    <3>1. IsCommandTo(n, p, sends) /\ p \in 1 .. Len(sends) /\ longer[p] = sends[p]
      BY <1>1, <1>2, <2>2 DEF IsCommandTo
    <3>2. QED
      BY <3>1 DEF SentInOrder
  <2>3. QED
    BY <2>1, <2>2
<1>4. ASSUME NEW q \in 1 .. Len(longer), IsCommandTo(n, q, longer), p <= q
      PROVE  NotLater(longer[p].commandId, longer[q].commandId, issues)
  <2>1. CASE q = last
    <3>1. PICK k \in 1 .. Len(issues) :
            /\ issues[k].node = longer[p].target
            /\ issues[k].commandId = longer[p].commandId
      BY <1>3 DEF FrameIsIssued
    <3>2. PICK i \in 1 .. Len(issues) :
            /\ issues[i].commandId = longer[q].commandId
            /\ \A j \in 1 .. Len(issues) : issues[j].node = n => j <= i
      BY <1>1, <1>4, <2>1 DEF IsCommandTo, IsNewest
    <3>3. k <= i
      BY <1>2, <3>1, <3>2 DEF IsCommandTo
    <3>4. QED
      BY <3>1, <3>2, <3>3 DEF NotLater, IdsDiffer
  <2>2. CASE q # last
    <3>1. /\ p \in 1 .. Len(sends) /\ q \in 1 .. Len(sends)
          /\ longer[p] = sends[p] /\ longer[q] = sends[q]
          /\ IsCommandTo(n, p, sends) /\ IsCommandTo(n, q, sends)
      BY <1>1, <1>2, <1>4, <2>2 DEF IsCommandTo
    <3>2. QED
      BY <1>4, <3>1 DEF SentInOrder
  <2>3. QED
    BY <2>1, <2>2
<1>5. QED
  BY <1>3, <1>4

-----------------------------------------------------------------------------
(* What a gateway step does to the radio queue and the issues. *)

Issues(issue) == issue.commandId \notin IssuedIds /\ issued' = Append(issued, issue)

MayIssue == issued' = issued \/ \E issue \in Issue : Issues(issue)

Sends(frame) == IsNewest(frame, issued) /\ radioSends' = Append(radioSends, frame)

SendsOrIssues ==
  \/ radioSends' = radioSends /\ MayIssue
  \/ issued' = issued /\ \E frame \in DownlinkFrame : Sends(frame)
  \/ radioSends' = << >> /\ MayIssue

LEMMA SendSendsOrIssues ==
  ASSUME NEW frame \in DownlinkFrame, IsNewest(frame, issued), Send(frame), issued' = issued
  PROVE  SendsOrIssues
BY DEF SendsOrIssues, Send, Sends, MayIssue

LEMMA QueueCommandSendsOrIssues ==
  ASSUME GatewayTypeOK, NEW n \in NodeId, NEW value \in Count, QueueCommand(n, value)
  PROVE  SendsOrIssues
<1> DEFINE record == NewRecord(book, registry[n], n, value)
           issue == IssueOf(record)
<1>1. record \in Record
  BY NewRecordIsRecord DEF GatewayTypeOK, QueueCommand, Active
<1>2. issue \in Issue
  BY <1>1, LenProperties DEF IssueOf, Issue, Record, GatewayTypeOK
<1>3. issue.commandId = book.nextCommandId
  BY DEF IssueOf, NewRecord
<1> HIDE DEF issue
<1>4. issued' = issued \/ issued' = Append(issued, issue)
  BY DEF QueueCommand, issue
<1>5. QED
  BY <1>2, <1>3, <1>4 DEF QueueCommand, IdsLeft, SendsOrIssues, MayIssue, Issues

LEMMA DeliverCommandSendsOrIssues ==
  ASSUME GatewayTypeOK, BookInOrder, DeliverCommand
  PROVE  SendsOrIssues
<1> DEFINE n == handler.node
           record == RecordOf(book, n)
           frame == CommandTo(n, handler.nonce, record)
<1>1. n \in NodeId /\ handler.nonce \in Nonce
  BY HandlerIsTyped DEF DeliverCommand
<1>2. book \in Book /\ HasRecord(book, n)
  BY DEF DeliverCommand, CanDeliver, IsBusy, GatewayTypeOK
<1>3. IndexOf(book, n) \in Positions(book) /\ record.nodeId = n
  BY <1>2, IndexOfFinds DEF RecordOf
<1>4. record \in Record
  BY <1>2, RecordOfIsRecord
<1>5. IsLatest(record, issued)
  BY <1>3 DEF RecordOf, BookInOrder, InOrder
<1>6. frame \in DownlinkFrame
  BY <1>1, <1>4 DEF CommandTo, DownlinkFrame, CommandFrame, Record
<1>7. IsNewest(frame, issued)
  BY <1>3, <1>5 DEF IsNewest, IsLatest, IssuedAs, CommandTo
<1>8. Send(frame) /\ issued' = issued
  BY DEF DeliverCommand
<1>9. QED
  BY <1>6, <1>7, <1>8, SendSendsOrIssues

LEMMA NoCommandSendsOrIssues ==
  ASSUME NEW n \in NodeId, NEW nonce \in Nonce, Send(NoCommandTo(n, nonce)), issued' = issued
  PROVE  SendsOrIssues
<1>1. NoCommandTo(n, nonce) \in DownlinkFrame /\ IsNewest(NoCommandTo(n, nonce), issued)
  BY DEF NoCommandTo, DownlinkFrame, NoCommandFrame, IsNewest
<1>2. QED
  BY <1>1, SendSendsOrIssues

LEMMA RestartGatewaySendsOrIssues ==
  ASSUME GatewayTypeOK, RestartGateway
  PROVE  SendsOrIssues
<1>1. CASE LoadedCommands = {}
  BY <1>1 DEF RestartGateway, SendsOrIssues, MayIssue
<1>2. CASE LoadedCommands # {}
  <2> DEFINE i == CHOOSE i \in LoadedCommands : TRUE
             issue == IssueOf(nvs.records[i])
  <2>1. i \in Positions(nvs) /\ nvs.records[i].commandId \notin IssuedIds
    BY <1>2 DEF LoadedCommands
  <2>2. nvs.records[i] \in Record
    BY <2>1, ElementOfSeq DEF GatewayTypeOK, Book, Positions
  <2>3. issue \in Issue /\ issue.commandId \notin IssuedIds
    BY <2>1, <2>2, LenProperties DEF IssueOf, Issue, Record, GatewayTypeOK
  <2>4. issued' = Append(issued, issue) /\ radioSends' = << >>
    BY <1>2 DEF RestartGateway
  <2> HIDE DEF issue
  <2>5. QED
    BY <2>3, <2>4 DEF SendsOrIssues, MayIssue, Issues
<1>3. QED
  BY <1>1, <1>2

LEMMA GatewayStepSendsOrIssues ==
  ASSUME GatewayTypeOK, BookInOrder, GatewayStep
  PROVE  SendsOrIssues
<1>1. ASSUME NEW n \in NodeId, NEW value \in Count, QueueCommand(n, value)
      PROVE  SendsOrIssues
  BY <1>1, QueueCommandSendsOrIssues
<1>2. ASSUME NEW n \in NodeId, CancelCommand(n) \/ DeleteNode(n)
      PROVE  SendsOrIssues
  BY <1>2 DEF CancelCommand, DeleteNode, SendsOrIssues, MayIssue
<1>3. CASE DeleteRecord \/ ReadIdentity \/ RecordResult \/ DiscardResult
  BY <1>3 DEF DeleteRecord, ReadIdentity, RecordResult, DiscardResult, SendsOrIssues, MayIssue
<1>4. CASE AnswerEmptySession
  <2>1. Head(sessionFrames) \in SessionFrame
    BY <1>4, NextFrameIsTyped DEF AnswerEmptySession
  <2>2. Head(sessionFrames).sender \in NodeId /\ Head(sessionFrames).nonce \in Nonce
    BY <2>1 DEF SessionFrame, ReadyFrame, ResultFrame
  <2>3. QED
    BY <1>4, <2>2, NoCommandSendsOrIssues DEF AnswerEmptySession
<1>5. CASE WithholdCommand
  BY <1>5, HandlerIsTyped, NoCommandSendsOrIssues DEF WithholdCommand
<1>6. CASE DeliverCommand
  BY <1>6, DeliverCommandSendsOrIssues
<1>7. CASE RestartGateway
  BY <1>7, RestartGatewaySendsOrIssues
<1>8. QED
  BY <1>1, <1>2, <1>3, <1>4, <1>5, <1>6, <1>7 DEF GatewayStep, CommandsTask

LEMMA SendsOrIssuesKeepsOrder ==
  ASSUME GatewayTypeOK, BookInOrder, SendsInOrder, SendsOrIssues
  PROVE  SendsInOrder'
<1>1. radioSends \in Seq(DownlinkFrame) /\ issued \in Seq(Issue) /\ IdsDiffer(issued)
  BY DEF GatewayTypeOK, BookInOrder, InOrder
<1>2. CASE radioSends' = radioSends /\ MayIssue
  BY <1>1, <1>2, IssueKeepsOrder DEF MayIssue, Issues, IssuedIds, SendsInOrder
<1>3. ASSUME issued' = issued, NEW frame \in DownlinkFrame, Sends(frame)
      PROVE  SendsInOrder'
  BY <1>1, <1>3, AppendIsSentInOrder DEF Sends, SendsInOrder
<1>4. CASE radioSends' = << >>
  BY <1>4, EmptySeq DEF SendsInOrder, SentInOrder
<1>5. QED
  BY <1>2, <1>3, <1>4 DEF SendsOrIssues

LEMMA EndTransmissionKeepsOrder ==
  ASSUME GatewayTypeOK, SendsInOrder, EndTransmission
  PROVE  SendsInOrder'
BY TailIsSentInOrder DEF GatewayTypeOK, EndTransmission, SendsInOrder

-----------------------------------------------------------------------------
(* The gateway with any nodes *)

BooksFit == Fits(book) /\ Fits(nvs)

EInv == GatewayTypeOK /\ BookInOrder /\ SendsInOrder /\ BooksFit

-----------------------------------------------------------------------------
LEMMA CommitFits ==
  ASSUME BooksFit, NEW candidate, Fits(candidate),
         CommitSaved(candidate) \/ CommitFailed(candidate)
  PROVE  BooksFit'
BY DEF BooksFit, CommitSaved, CommitFailed

LEMMA GatewayStepFits ==
  ASSUME GatewayTypeOK, BooksFit, GatewayStep
  PROVE  BooksFit'
<1>1. book \in Book
  BY DEF GatewayTypeOK
<1>2. ASSUME NEW n \in NodeId, NEW value \in Count, QueueCommand(n, value)
      PROVE  BooksFit'
  <2>1. registry[n] \in Device
    BY <1>2 DEF GatewayTypeOK, QueueCommand, Active
  <2>2. Fits(Queued(book, registry[n], n, value))
    BY <1>1, <1>2, <2>1, QueuedFits DEF QueueCommand, BooksFit
  <2>3. QED
    BY <1>2, <2>2, CommitFits DEF QueueCommand
<1>3. ASSUME NEW n, CommitSaved(Without(book, n)) \/ CommitFailed(Without(book, n))
      PROVE  BooksFit'
  BY <1>1, <1>3, WithoutFits, CommitFits DEF BooksFit
<1>4. ASSUME book' = book, nvs' = nvs
      PROVE  BooksFit'
  BY <1>4 DEF BooksFit
<1>5. CASE RecordResult
  <2> DEFINE frame == Head(sessionFrames)
             candidate == Completed(book, frame.sender, frame.result)
  <2>1. frame.result \in Result
    BY <1>5, NextFrameIsTyped DEF RecordResult, SessionFrame, ReadyFrame, ResultFrame
  <2>2. HasRecord(book, frame.sender)
    BY <1>5 DEF RecordResult, Completes, CompleteStatus, IsPending
  <2>3. Fits(candidate)
    BY <1>1, <2>1, <2>2, CompletedFits DEF BooksFit
  <2>4. QED
    BY <1>5, <2>3, CommitFits DEF RecordResult
<1>6. CASE CommandsTask
  BY <1>4, <1>5, <1>6
     DEF CommandsTask, AnswerEmptySession, ReadIdentity, DeliverCommand, WithholdCommand,
         DiscardResult
<1>7. CASE RestartGateway
  BY <1>7 DEF RestartGateway, BooksFit
<1>8. CASE DeleteRecord
  BY <1>3, <1>4, <1>8 DEF DeleteRecord
<1>9. ASSUME NEW n \in NodeId, CancelCommand(n) \/ DeleteNode(n)
      PROVE  BooksFit'
  BY <1>3, <1>4, <1>9 DEF CancelCommand, DeleteNode
<1>10. QED
  BY <1>2, <1>6, <1>7, <1>8, <1>9 DEF GatewayStep

\* Two records of one command are one record, also across the store's fresh one.
LEMMA OrderedBooksHaveDistinctIds ==
  ASSUME NEW store, NEW b, NEW issues, InOrder(store, b, issues)
  PROVE  \A i, j \in Positions(store) :
           store.records[i].commandId = store.records[j].commandId => i = j
<1> SUFFICES ASSUME NEW i \in Positions(store), NEW j \in Positions(store),
                    store.records[i].commandId = store.records[j].commandId
             PROVE  i = j
  OBVIOUS
<1>1. CASE IsFresh(store.records[i], issues)
  BY <1>1 DEF InOrder, Follows, IsFresh
<1>2. CASE ~IsFresh(store.records[i], issues)
  <2>1. InBook(store.records[i], b) /\ InBook(store.records[j], b)
    BY <1>2 DEF InOrder, Follows, IsFresh
  <2>2. IsLatest(store.records[i], issues) /\ IsLatest(store.records[j], issues)
    BY <2>1, InBookIsLatest
  <2>3. store.records[i].nodeId = store.records[j].nodeId
    BY <2>2 DEF IsLatest, IssuedAs, InOrder, IdsDiffer
  <2>4. QED
    BY <2>3 DEF InOrder, OneRecordPerNode
<1>3. QED
  BY <1>1, <1>2

-----------------------------------------------------------------------------
LEMMA NextKeepsEInv == EInv /\ [EnvironmentNext]_gatewayVars => EInv'
<1> SUFFICES ASSUME EInv, [EnvironmentNext]_gatewayVars PROVE EInv'
  OBVIOUS
<1>0. GatewayTypeOK /\ BookInOrder /\ SendsInOrder /\ BooksFit
  BY DEF EInv
<1>1. CASE GatewayStep
  BY <1>0, <1>1, GatewayStepIsTyped, GatewayStepIsInOrder, GatewayStepSendsOrIssues,
     SendsOrIssuesKeepsOrder, GatewayStepFits DEF EInv
<1>2. CASE EndTransmission
  <2>1. GatewayTypeOK' /\ SendsInOrder'
    BY <1>0, <1>2, EndTransmissionIsTyped, EndTransmissionKeepsOrder
  <2>2. BookInOrder' /\ BooksFit'
    BY <1>0, <1>2 DEF EndTransmission, BookInOrder, BooksFit
  <2>3. QED
    BY <2>1, <2>2 DEF EInv
<1>3. ASSUME NEW n \in NodeId, NEW d \in Device, ConfirmNode(n, d)
      PROVE  EInv'
  <2>1. GatewayTypeOK'
    BY <1>0, <1>3, ConfirmNodeIsTyped
  <2>2. BookInOrder' /\ SendsInOrder' /\ BooksFit'
    BY <1>0, <1>3 DEF ConfirmNode, BookInOrder, SendsInOrder, BooksFit
  <2>3. QED
    BY <2>1, <2>2 DEF EInv
<1>4. ASSUME NEW frame \in SessionFrame, QueueFrame(frame)
      PROVE  EInv'
  <2>1. GatewayTypeOK'
    BY <1>0, <1>4, QueueFrameIsTyped
  <2>2. BookInOrder' /\ SendsInOrder' /\ BooksFit'
    BY <1>0, <1>4 DEF QueueFrame, BookInOrder, SendsInOrder, BooksFit
  <2>3. QED
    BY <2>1, <2>2 DEF EInv
<1>5. ASSUME NEW command \in Range(issued), NEW nonce \in Nonce, NEW result \in Result,
             QueueFrame([kind |-> "CommandResult", sender |-> command.node, nonce |-> nonce,
                         commandId |-> command.commandId, result |-> result])
      PROVE  EInv'
  <2> DEFINE frame == [kind |-> "CommandResult", sender |-> command.node, nonce |-> nonce,
                       commandId |-> command.commandId, result |-> result]
  <2>1. command \in Issue
    BY <1>0, <1>5, LenProperties DEF GatewayTypeOK, Range
  <2>2. frame \in SessionFrame
    BY <2>1 DEF SessionFrame, ResultFrame, Issue
  <2>3. QED
    BY <1>4, <1>5, <2>2
<1>6. CASE UNCHANGED gatewayVars
  BY <1>0, <1>6 DEF gatewayVars, EInv, GatewayTypeOK, BookInOrder, SendsInOrder, BooksFit
<1>7. QED
  BY <1>1, <1>2, <1>3, <1>4, <1>5, <1>6 DEF EnvironmentNext, SessionFrame

LEMMA InitIsEInv == EnvironmentInit => EInv
<1> SUFFICES ASSUME EnvironmentInit PROVE EInv
  OBVIOUS
<1>1. GatewayTypeOK /\ BookInOrder /\ SendsInOrder
  BY GatewayInitIsTyped, GatewayInitIsInOrder DEF EnvironmentInit
<1>2. BooksFit
  BY EmptySeq, MaxCommandRecordsAssumption DEF EnvironmentInit, GatewayInit, BooksFit, Fits
<1>3. QED
  BY <1>1, <1>2 DEF EInv

THEOREM EnvironmentInvariance == EnvironmentSpec => []EInv
<1>1. QED
  BY InitIsEInv, NextKeepsEInv, PTL DEF EnvironmentSpec

\* The book in RAM and the one the next boot loads keep to their capacity, and
\* have one record per node ID and per command ID, for any number of nodes and
\* records and whatever the nodes answer (command_book::queue, commitCandidate).
THEOREM BooksStayWellFormed == EnvironmentSpec => []BooksWellFormed
<1>1. EInv => BooksWellFormed
  <2> SUFFICES ASSUME EInv PROVE BooksWellFormed
    OBVIOUS
  <2>1. InOrder(nvs, book, issued) /\ InOrder(book, book, issued)
    BY LoadedBookIsInOrder DEF EInv, BookInOrder
  <2>2. OneRecordPerNode(book) /\ OneRecordPerNode(nvs)
    BY <2>1 DEF InOrder
  <2>3. QED
    BY <2>1, <2>2, OrderedBooksHaveDistinctIds
       DEF BooksWellFormed, WellFormed, EInv, BooksFit, Fits
<1>2. QED
  BY <1>1, EnvironmentInvariance, PTL

\* No command leaves the gateway that was not queued for its target, with its
\* argument, though the book may change between the node's question and the
\* answer (CommandService handleCommandReady).
THEOREM SentCommandsWereQueued == EnvironmentSpec => []CommandsWereQueued
<1>1. EInv => CommandsWereQueued
  <2> SUFFICES ASSUME EInv, NEW p \in 1 .. Len(radioSends), radioSends[p].kind = "Command"
               PROVE  \E j \in 1 .. Len(issued) :
                        /\ issued[j].node = radioSends[p].target
                        /\ issued[j].commandId = radioSends[p].commandId
                        /\ issued[j].count = radioSends[p].count
    BY DEF CommandsWereQueued
  <2>1. radioSends[p] \in DownlinkFrame
    BY ElementOfSeq DEF EInv, GatewayTypeOK
  <2>2. radioSends[p].target \in NodeId
    BY <2>1 DEF DownlinkFrame, NoCommandFrame, CommandFrame
  <2>3. IsCommandTo(radioSends[p].target, p, radioSends)
    BY DEF IsCommandTo
  <2>4. QED
    BY <2>2, <2>3 DEF EInv, SendsInOrder, SentInOrder, FrameIsIssued
<1>2. QED
  BY <1>1, EnvironmentInvariance, PTL

-----------------------------------------------------------------------------
LEMMA FailedCommitIsOneStepAhead ==
  ASSUME StoreIsCurrent, NEW candidate, OneStepAhead(candidate, book),
         CommitFailed(candidate)
  PROVE  StoreIsCurrent'
<1>1. nvs' \in {nvs, candidate, book} /\ book' = book
  BY DEF CommitFailed
<1>2. nvs' = book \/ OneStepAhead(nvs', book)
  BY <1>1 DEF StoreIsCurrent
<1>3. QED
  BY <1>1, <1>2 DEF StoreIsCurrent, OneStepAhead

LEMMA NextKeepsStoreCurrent ==
  ASSUME GatewayTypeOK, StoreIsCurrent, [EnvironmentNext]_gatewayVars
  PROVE  StoreIsCurrent'
<1>1. ASSUME NEW candidate, CommitSaved(candidate)
      PROVE  StoreIsCurrent'
  BY <1>1 DEF CommitSaved, StoreIsCurrent
<1>2. ASSUME book' = book, nvs' = nvs
      PROVE  StoreIsCurrent'
  BY <1>2 DEF StoreIsCurrent, OneStepAhead
<1>3. ASSUME NEW n \in NodeId, NEW value \in Count, QueueCommand(n, value)
      PROVE  StoreIsCurrent'
  <2> DEFINE candidate == Queued(book, registry[n], n, value)
  <2>1. registry[n] \in Device /\ QueueStatus(book, registry[n], n) = "Queued"
    BY <1>3 DEF GatewayTypeOK, QueueCommand, Active
  <2>2. OneStepAhead(candidate, book)
    BY <2>1 DEF OneStepAhead
  <2>3. CommitSaved(candidate) \/ CommitFailed(candidate)
    BY <1>3 DEF QueueCommand
  <2>4. QED
    BY <1>1, <2>2, <2>3, FailedCommitIsOneStepAhead
<1>4. ASSUME NEW n \in NodeId,
             CommitSaved(Without(book, n)) \/ CommitFailed(Without(book, n))
      PROVE  StoreIsCurrent'
  <2>1. OneStepAhead(Without(book, n), book)
    BY DEF OneStepAhead
  <2>2. QED
    BY <1>1, <1>4, <2>1, FailedCommitIsOneStepAhead
<1>5. CASE RecordResult
  <2> DEFINE frame == Head(sessionFrames)
             candidate == Completed(book, frame.sender, frame.result)
  <2>1. frame.sender \in NodeId /\ frame.result \in Result
    BY <1>5, NextFrameIsTyped DEF RecordResult, SessionFrame, ReadyFrame, ResultFrame
  <2>2. HasRecord(book, frame.sender)
    BY <1>5 DEF RecordResult, Completes, CompleteStatus, IsPending
  <2>3. OneStepAhead(candidate, book)
    BY <2>1, <2>2 DEF OneStepAhead
  <2>4. CommitSaved(candidate) \/ CommitFailed(candidate)
    BY <1>5 DEF RecordResult
  <2>5. QED
    BY <1>1, <2>3, <2>4, FailedCommitIsOneStepAhead
<1>6. CASE DeleteRecord
  <2>1. deleting \in NodeId
    BY <1>6 DEF DeleteRecord, GatewayTypeOK
  <2>2. QED
    BY <1>2, <1>4, <1>6, <2>1 DEF DeleteRecord
<1>7. CASE RestartGateway
  BY <1>7 DEF RestartGateway, StoreIsCurrent
<1>8. CASE CommandsTask
  BY <1>2, <1>5, <1>8
     DEF CommandsTask, AnswerEmptySession, ReadIdentity, DeliverCommand, WithholdCommand,
         DiscardResult
<1>9. ASSUME NEW n \in NodeId, CancelCommand(n) \/ DeleteNode(n)
      PROVE  StoreIsCurrent'
  BY <1>2, <1>4, <1>9 DEF CancelCommand, DeleteNode
<1>10. CASE GatewayStep
  BY <1>3, <1>6, <1>7, <1>8, <1>9, <1>10 DEF GatewayStep
<1>11. CASE ~GatewayStep
  BY <1>2, <1>11 DEF EnvironmentNext, gatewayVars, EndTransmission, ConfirmNode, QueueFrame
<1>12. QED
  BY <1>10, <1>11

\* After any number of failed writes, durable or not, and restarts, what the next
\* boot loads differs from the book users see by at most one operation, which was
\* reported as failed (commitCandidate, DualSlotStore::save).
THEOREM StoreStaysCurrent == EnvironmentSpec => []StoreIsCurrent
<1>1. EnvironmentInit => StoreIsCurrent
  BY DEF EnvironmentInit, GatewayInit, StoreIsCurrent
<1>2. GatewayTypeOK /\ StoreIsCurrent /\ [EnvironmentNext]_gatewayVars => StoreIsCurrent'
  BY NextKeepsStoreCurrent
<1>3. EnvironmentSpec => []GatewayTypeOK
  BY EnvironmentInvariance, PTL DEF EInv
<1>4. QED
  BY <1>1, <1>2, <1>3, PTL DEF EnvironmentSpec

\* A step that queues for node n spares the others: from what queueing does to a book.
LEMMA QueueStepSpares ==
  ASSUME EInv, NEW n \in NodeId, NEW value \in Count, QueueCommand(n, value)
  PROVE  SparesOthers(n)
<1> SUFFICES ASSUME NEW i \in Positions(book), book.records[i].nodeId # n,
                    book.records[i] \notin Range(book'.records)
             PROVE  /\ book.records[i].state = "Completed"
                    /\ \A j \in Positions(book) : j < i =>
                         book.records[j].state = "Pending" \/ book.records[j].nodeId = n
  BY DEF SparesOthers
<1>1. book \in Book /\ registry[n] \in Device
  BY DEF EInv, GatewayTypeOK, QueueCommand, Active
<1>2. book' # book
  BY <1>1, LenProperties DEF Positions, Book, Range
<1>3. book' = Queued(book, registry[n], n, value)
  BY <1>2 DEF QueueCommand, CommitSaved, CommitFailed
<1>4. QED
  BY <1>1, <1>3, QueuedSpares DEF QueueCommand

\* Queueing for one node costs no other node a command it has to fetch, and at
\* most one result, the oldest, for any number of nodes and any capacity
\* (command_book::queue).
THEOREM QueueingSparesOtherNodes == EnvironmentSpec => QueueingSparesOthers
<1>1. EInv /\ [EnvironmentNext]_gatewayVars =>
        [\A n \in NodeId, value \in Count : QueueCommand(n, value) => SparesOthers(n)]_gatewayVars
  BY QueueStepSpares
<1>2. QED
  BY <1>1, EnvironmentInvariance, PTL DEF EnvironmentSpec, QueueingSparesOthers

=============================================================================
