-------------------------- MODULE AgentClientProofs --------------------------
(***************************************************************************)
(* Proofs about AgentClient, for any numbers of connections, commands and  *)
(* messages, any capacity of the queue and any way to lose a connection.   *)
(***************************************************************************)
EXTENDS AgentClient, FiniteSetTheorems, SequenceTheorems, TLAPS

-----------------------------------------------------------------------------
(***************************************************************************)
(* Queues and counts                                                       *)
(***************************************************************************)
\* A sequence over the first m numbers is one over the first n, for m <= n.
LEMMA SeqGrows ==
    ASSUME NEW m \in Nat, NEW n \in Nat, m <= n, NEW s
    PROVE  /\ s \in Seq(0 .. m) => s \in Seq(0 .. n)
           /\ s \in Seq(1 .. m) => s \in Seq(1 .. n)
  <1>1. 0 .. m \subseteq 0 .. n /\ 1 .. m \subseteq 1 .. n
    OBVIOUS
  <1> QED
    BY <1>1, SeqMonotonic

MarkersIn(s) == {i \in 1 .. Len(s) : s[i] = Disconnected}

\* A queue holds finitely many markers of a lost connection.
LEMMA MarkersFinite ==
    ASSUME NEW n \in Nat, NEW s \in Seq(0 .. n)
    PROVE  IsFiniteSet(MarkersIn(s)) /\ Cardinality(MarkersIn(s)) \in Nat
  <1>1. IsFiniteSet(1 .. Len(s))
    BY LenProperties, FS_Interval
  <1> QED
    BY <1>1, FS_Subset, FS_CardinalityType DEF MarkersIn

\* A message that is put into the queue adds a marker if it is one.
LEMMA MarkersOfAppend ==
    ASSUME NEW n \in Nat, NEW s \in Seq(0 .. n), NEW m \in 0 .. n
    PROVE  Cardinality(MarkersIn(Append(s, m))) =
               Cardinality(MarkersIn(s)) + IF m = Disconnected THEN 1 ELSE 0
  <1>1. /\ Len(s) \in Nat /\ Len(Append(s, m)) = Len(s) + 1
        /\ \A i \in 1 .. Len(s) : Append(s, m)[i] = s[i]
        /\ Append(s, m)[Len(s) + 1] = m
    BY AppendProperties, LenProperties
  <1>2. CASE m = Disconnected
    <2>1. MarkersIn(Append(s, m)) = MarkersIn(s) \cup {Len(s) + 1}
      BY <1>1, <1>2 DEF MarkersIn
    <2>2. Len(s) + 1 \notin MarkersIn(s)
      BY <1>1 DEF MarkersIn
    <2> QED
      BY <1>2, <2>1, <2>2, MarkersFinite, FS_AddElement
  <1>3. CASE m # Disconnected
    <2>1. MarkersIn(Append(s, m)) = MarkersIn(s)
      BY <1>1, <1>3 DEF MarkersIn
    <2> QED
      BY <1>3, <2>1, MarkersFinite
  <1> QED
    BY <1>2, <1>3

\* A message that is taken from the queue takes a marker with it if it is one;
\* the other markers move up by one place.
LEMMA MarkersOfTail ==
    ASSUME NEW n \in Nat, NEW s \in Seq(0 .. n), s # <<>>
    PROVE  Cardinality(MarkersIn(s)) =
               Cardinality(MarkersIn(Tail(s))) + IF Head(s) = Disconnected THEN 1 ELSE 0
  <1> DEFINE rest == MarkersIn(s) \ {1}
             move == [i \in MarkersIn(Tail(s)) |-> i + 1]
  <1>1. /\ Len(s) \in Nat /\ Len(Tail(s)) = Len(s) - 1 /\ Len(s) >= 1
        /\ Tail(s) \in Seq(0 .. n)
        /\ \A i \in 1 .. Len(s) - 1 : Tail(s)[i] = s[i + 1]
        /\ Head(s) = s[1]
    BY HeadTailProperties, LenProperties, EmptySeq
  <1>2. move \in Bijection(MarkersIn(Tail(s)), rest)
    <2>1. MarkersIn(Tail(s)) = {i \in 1 .. Len(s) - 1 : s[i + 1] = Disconnected}
      BY <1>1 DEF MarkersIn
    <2>2. rest = {j \in 2 .. Len(s) : s[j] = Disconnected}
      BY <1>1 DEF MarkersIn
    <2>3. move \in [MarkersIn(Tail(s)) -> rest]
      <3>1. \A i \in MarkersIn(Tail(s)) : i + 1 \in 2 .. Len(s) /\ s[i + 1] = Disconnected
        BY <1>1, <2>1
      <3>2. \A i \in MarkersIn(Tail(s)) : i + 1 \in rest
        BY <2>2, <3>1
      <3> QED
        BY <3>2
    <2>4. \A i, j \in MarkersIn(Tail(s)) : move[i] = move[j] => i = j
      BY <1>1, <2>1
    <2>5. \A j \in rest : \E i \in MarkersIn(Tail(s)) : move[i] = j
      <3> SUFFICES ASSUME NEW j \in rest
                   PROVE  \E i \in MarkersIn(Tail(s)) : move[i] = j
        OBVIOUS
      <3>1. j \in 2 .. Len(s) /\ s[j] = Disconnected
        BY <2>2
      <3>2. j - 1 \in 1 .. Len(s) - 1 /\ (j - 1) + 1 = j
        BY <1>1, <3>1
      <3>3. j - 1 \in MarkersIn(Tail(s))
        BY <2>1, <3>1, <3>2
      <3> QED
        BY <3>2, <3>3
    <2> QED
      BY <2>3, <2>4, <2>5 DEF Bijection, Injection, Surjection, IsInjective
  <1>3. IsFiniteSet(MarkersIn(Tail(s))) /\ Cardinality(MarkersIn(Tail(s))) \in Nat
    BY <1>1, MarkersFinite
  <1>4. Cardinality(rest) = Cardinality(MarkersIn(Tail(s)))
    BY <1>2, <1>3, FS_Bijection DEF ExistsBijection
  <1>5. IsFiniteSet(MarkersIn(s)) /\ Cardinality(MarkersIn(s)) \in Nat
    BY MarkersFinite
  <1>6. Head(s) = Disconnected <=> 1 \in MarkersIn(s)
    BY <1>1 DEF MarkersIn
  <1>7. Cardinality(rest) = IF 1 \in MarkersIn(s) THEN Cardinality(MarkersIn(s)) - 1
                            ELSE Cardinality(MarkersIn(s))
    BY <1>5, FS_RemoveElement
  <1> QED
    BY <1>3, <1>4, <1>5, <1>6, <1>7

-----------------------------------------------------------------------------
(***************************************************************************)
(* Types, and who reads                                                    *)
(***************************************************************************)
Reading == {"load", "read", "deliver", "signal"}
Connecting == {"limit", "greet", "answer", "spawn"}

GoroutinesOK(k) ==
    /\ reader[k] \in Reading => k = dialed /\ manager = "range"
    /\ reader[k] \in {"read", "deliver"} => from[k] = k
    /\ reader[k] = "deliver" => hand[k] # 0
    /\ consumer[k] = "write" => held[k] # Disconnected
    /\ k > dialed => reader[k] = "none" /\ consumer[k] = "none" /\ inbox[k] = <<>>

\* Only the connection that was dialed last is read, by its own goroutine and
\* while listenReConn waits; the goroutines of a connection start once.
ReaderInv ==
    /\ agent = "up" => tries < Attempts
    /\ conn \in {Nil, dialed}
    /\ \A k \in Conns : GoroutinesOK(k)
    /\ manager \in Connecting => reader[dialed] = "none" /\ consumer[dialed] = "none"

ManagerTypes ==
    /\ conn \in 0 .. dialed
    /\ link \in [Conns -> {"none", "open"} \cup Losses]
    /\ greeted \in SUBSET (1 .. dialed)
    /\ from \in [Conns -> 0 .. dialed]
    /\ manager \in {"range", "dial", "limit", "greet", "answer", "spawn"}
    /\ dialed \in Conns
    /\ tries \in 0 .. Attempts
    /\ agent \in {"up", "crashed", "unreachable"}

InTypes ==
    /\ inbox \in [Conns -> Seq(1 .. issued)]
    /\ issued \in 0 .. MaxIn
    /\ cmds \in Seq(1 .. issued)
    /\ reader \in [Conns -> {"none", "load", "read", "deliver", "signal", "clear",
                            "mark", "over"}]
    /\ hand \in [Conns -> 0 .. issued]

OutTypes ==
    /\ pending \in Seq(0 .. sent) /\ Len(pending) <= Capacity
    /\ sent \in 0 .. MaxOut
    /\ written \in Seq(Conns \X (1 .. sent))
    /\ consumer \in [Conns -> {"none", "range", "write", "over"}]
    /\ held \in [Conns -> 0 .. sent]

\* TypeOK splits into what listenReConn, the readers and the consumers keep.
LEMMA TypesAreThree == TypeOK <=> ManagerTypes /\ InTypes /\ OutTypes
  BY DEF TypeOK, ManagerTypes, InTypes, OutTypes

\* The parameters as numbers.
LEMMA Numbers ==
    /\ MaxConns \in Nat \ {0} /\ Conns = 1 .. MaxConns /\ 1 \in Conns
    /\ MaxIn \in Nat /\ MaxOut \in Nat /\ Capacity \in Nat \ {0}
    /\ Attempts \in Nat \ {0}
  BY ClientAssumption DEF ClientAssumption, Conns

\* The agent starts connected, with its reader and its consumer running.
LEMMA TypeInit == Init => TypeOK /\ ReaderInv
  BY Numbers, EmptySeq DEF Init, TypeOK, ReaderInv, GoroutinesOK, Reading, Connecting, Nil, Disconnected

\* The goroutine of listenReConn dials the connections one after the other.
LEMMA ManagerTypesNext ==
    ASSUME TypeOK, ReaderInv, Next PROVE ManagerTypes'
  <1>a. agent = "up" /\ tries \in 0 .. Attempts - 1 /\ ManagerTypes
    <2>1. agent = "up" /\ tries < Attempts /\ tries \in 0 .. Attempts /\ ManagerTypes
      BY TypesAreThree DEF ReaderInv, Next, ManagerTypes
    <2> QED
      BY <2>1, Numbers
  <1>b. MaxConns \in Nat \ {0} /\ Conns = 1 .. MaxConns /\ Attempts \in Nat \ {0}
    BY Numbers
  <1> USE <1>a, <1>b DEF ManagerTypes, Nil
  <1>1. ASSUME NEW k \in Conns, ReaderLoads(k) PROVE ManagerTypes'
    BY <1>1 DEF ReaderLoads, ReaderAt, Crash, outVars, managerVars
  <1>2. ASSUME NEW k \in Conns, Read(k) PROVE ManagerTypes'
    BY <1>2 DEF Read, ReaderAt, outVars, managerVars
  <1>3. ASSUME NEW k \in Conns, HandOver(k) PROVE ManagerTypes'
    BY <1>3 DEF HandOver, ReaderAt, outVars, managerVars
  <1>4. ASSUME NEW k \in Conns, ReadFails(k) PROVE ManagerTypes'
    BY <1>4 DEF ReadFails, ReaderAt, Crash, outVars, managerVars
  <1>5. ASSUME NEW k \in Conns, Signal(k) PROVE ManagerTypes'
    BY <1>5 DEF Signal, ReaderAt, outVars
  <1>6. ASSUME NEW k \in Conns, ClearConn(k) PROVE ManagerTypes'
    BY <1>6 DEF ClearConn, ReaderAt, outVars, managerVars
  <1>7. ASSUME NEW k \in Conns, MarkPending(k) PROVE ManagerTypes'
    BY <1>7 DEF MarkPending, ReaderAt, outVars, managerVars
  <1>8. ASSUME NEW k \in Conns, Consume(k) PROVE ManagerTypes'
    BY <1>8 DEF Consume, ConsumerAt, inVars, managerVars
  <1>9. ASSUME NEW k \in Conns, Write(k) PROVE ManagerTypes'
    BY <1>9 DEF Write, ConsumerAt, Crash, Open, inVars, managerVars
  <1>10. ASSUME NEW k \in Conns, Issue(k) PROVE ManagerTypes'
    BY <1>10 DEF Issue, Open, outVars, managerVars
  <1>11. ASSUME NEW k \in Conns, NEW how \in Losses, Lose(k, how) PROVE ManagerTypes'
    BY <1>11 DEF Lose, Open, outVars, managerVars
  <1>12. CASE Dial
    BY <1>12 DEF Dial, inVars, outVars
  <1>13. CASE DialFails
    BY <1>13 DEF DialFails, Retry, inVars, outVars
  <1>14. CASE SetReadLimit
    BY <1>14 DEF SetReadLimit, Crash, inVars, outVars
  <1>15. CASE Greet
    BY <1>15 DEF Greet, Open, inVars, outVars
  <1>16. CASE GetConfig
    BY <1>16 DEF GetConfig, inVars, outVars
  <1>17. CASE GreetFails
    BY <1>17 DEF GreetFails, Retry, Open, inVars, outVars
  <1>18. CASE Spawn
    BY <1>18 DEF Spawn, ReaderAt, ConsumerAt
  <1>19. CASE Send
    BY <1>19 DEF Send, inVars, managerVars
  <1> QED
    BY <1>1, <1>2, <1>3, <1>4, <1>5, <1>6, <1>7, <1>8, <1>9, <1>10, <1>11,
       <1>12, <1>13, <1>14, <1>15, <1>16, <1>17, <1>18, <1>19
       DEF Next, Reader, Consumer, Connect

\* What the server sends is read and handed over as it is.
LEMMA InTypesNext ==
    ASSUME TypeOK, ReaderInv, Next PROVE InTypes'
  <1>a. InTypes /\ dialed \in Conns /\ from \in [Conns -> 0 .. dialed]
    BY DEF TypeOK, InTypes
  <1>b. MaxIn \in Nat /\ issued \in Nat
    BY Numbers DEF TypeOK
  <1> USE <1>a, <1>b DEF InTypes
  <1>1. ASSUME NEW k \in Conns, ReaderLoads(k) PROVE InTypes'
    BY <1>1 DEF ReaderLoads, ReaderAt, Crash, outVars, managerVars
  <1>2. ASSUME NEW k \in Conns, Read(k) PROVE InTypes'
    <2>1. from[k] = k /\ inbox[k] \in Seq(1 .. issued) /\ inbox[k] # <<>>
      BY <1>2 DEF Read, ReaderInv, GoroutinesOK
    <2>2. Head(inbox[k]) \in 1 .. issued /\ Tail(inbox[k]) \in Seq(1 .. issued)
      BY <2>1, HeadTailProperties
    <2>3. /\ hand' = [hand EXCEPT ![k] = Head(inbox[k])]
          /\ inbox' = [inbox EXCEPT ![k] = Tail(inbox[k])]
      BY <1>2, <2>1 DEF Read
    <2>4. /\ reader' = [reader EXCEPT ![k] = "deliver"]
          /\ UNCHANGED <<issued, cmds>>
      BY <1>2 DEF Read, ReaderAt
    <2> QED
      BY <2>2, <2>3, <2>4
  <1>3. ASSUME NEW k \in Conns, HandOver(k) PROVE InTypes'
    <2>1. hand[k] \in 1 .. issued
      BY <1>3 DEF HandOver, ReaderInv, GoroutinesOK
    <2>2. Append(cmds, hand[k]) \in Seq(1 .. issued)
      BY <2>1, AppendProperties
    <2> QED
      BY <1>3, <2>2 DEF HandOver, ReaderAt
  <1>4. ASSUME NEW k \in Conns, ReadFails(k) PROVE InTypes'
    BY <1>4 DEF ReadFails, ReaderAt, Crash, outVars, managerVars
  <1>5. ASSUME NEW k \in Conns, Signal(k) PROVE InTypes'
    BY <1>5 DEF Signal, ReaderAt, outVars
  <1>6. ASSUME NEW k \in Conns, ClearConn(k) PROVE InTypes'
    BY <1>6 DEF ClearConn, ReaderAt, outVars, managerVars
  <1>7. ASSUME NEW k \in Conns, MarkPending(k) PROVE InTypes'
    BY <1>7 DEF MarkPending, ReaderAt, outVars, managerVars
  <1>8. ASSUME NEW k \in Conns, Consume(k) PROVE InTypes'
    BY <1>8 DEF Consume, ConsumerAt, inVars, managerVars
  <1>9. ASSUME NEW k \in Conns, Write(k) PROVE InTypes'
    BY <1>9 DEF Write, ConsumerAt, Crash, Open, inVars, managerVars
  <1>10. ASSUME NEW k \in Conns, Issue(k) PROVE InTypes'
    <2>1. issued < MaxIn /\ issued' = issued + 1 /\ issued \in Nat
      BY <1>10, Numbers DEF Issue
    <2>2. \A m \in 1 .. issued : m \in 1 .. issued'
      BY <2>1
    <2>3. 1 .. issued \subseteq 1 .. issued'
      BY <2>2
    <2>4. \A j \in Conns : inbox[j] \in Seq(1 .. issued')
      BY <2>3, SeqMonotonic
    <2>5. issued' \in 1 .. issued' /\ issued' \in 0 .. MaxIn
      BY <2>1, Numbers
    <2>6. inbox' = [inbox EXCEPT ![k] = Append(inbox[k], issued')]
      BY <1>10 DEF Issue
    <2>7. inbox' \in [Conns -> Seq(1 .. issued')]
      BY <2>4, <2>5, <2>6, AppendProperties
    <2>8. UNCHANGED <<cmds, reader, hand>>
      BY <1>10 DEF Issue
    <2>9. cmds' \in Seq(1 .. issued')
      BY <2>3, <2>8, SeqMonotonic
    <2>10. hand' \in [Conns -> 0 .. issued']
      BY <2>1, <2>8
    <2> QED
      BY <2>5, <2>7, <2>8, <2>9, <2>10
  <1>11. ASSUME NEW k \in Conns, NEW how \in Losses, Lose(k, how) PROVE InTypes'
    <2>1. PICK n \in 0 .. Len(inbox[k]) : inbox' = [inbox EXCEPT ![k] = SubSeq(inbox[k], 1, n)]
      BY <1>11 DEF Lose
    <2>2. SubSeq(inbox[k], 1, n) \in Seq(1 .. issued)
      <3>1. inbox[k] \in Seq(1 .. issued) /\ n \in 0 .. Len(inbox[k])
        BY <2>1
      <3>2. n \in Int /\ \A i \in 1 .. n : i \in 1 .. Len(inbox[k])
        BY <3>1, LenProperties
      <3>3. \A i \in 1 .. n : inbox[k][i] \in 1 .. issued
        BY <3>1, <3>2, ElementOfSeq
      <3> QED
        BY <3>2, <3>3, SubSeqProperties
    <2>3. UNCHANGED <<issued, cmds, reader, hand>>
      BY <1>11 DEF Lose
    <2> QED
      BY <2>1, <2>2, <2>3
  <1>12. CASE Dial
    BY <1>12 DEF Dial, inVars, outVars
  <1>13. CASE DialFails
    BY <1>13 DEF DialFails, Retry, inVars, outVars
  <1>14. CASE SetReadLimit
    BY <1>14 DEF SetReadLimit, Crash, inVars, outVars
  <1>15. CASE Greet
    BY <1>15 DEF Greet, Open, inVars, outVars
  <1>16. CASE GetConfig
    BY <1>16 DEF GetConfig, inVars, outVars
  <1>17. CASE GreetFails
    BY <1>17 DEF GreetFails, Retry, Open, inVars, outVars
  <1>18. CASE Spawn
    BY <1>18 DEF Spawn, ReaderAt, ConsumerAt
  <1>19. CASE Send
    BY <1>19 DEF Send, inVars, managerVars
  <1> QED
    BY <1>1, <1>2, <1>3, <1>4, <1>5, <1>6, <1>7, <1>8, <1>9, <1>10, <1>11,
       <1>12, <1>13, <1>14, <1>15, <1>16, <1>17, <1>18, <1>19
       DEF Next, Reader, Consumer, Connect

\* What the agent sends is queued, held and written as it is.
LEMMA OutTypesNext ==
    ASSUME TypeOK, ReaderInv, Next PROVE OutTypes'
  <1>a. OutTypes /\ dialed \in Conns /\ conn \in 0 .. dialed
    BY DEF TypeOK, OutTypes
  <1>b. MaxOut \in Nat /\ sent \in Nat /\ Capacity \in Nat
    BY Numbers DEF TypeOK
  <1> USE <1>a, <1>b DEF OutTypes
  <1>1. ASSUME NEW k \in Conns, ReaderLoads(k) PROVE OutTypes'
    BY <1>1 DEF ReaderLoads, ReaderAt, Crash, outVars, managerVars
  <1>2. ASSUME NEW k \in Conns, Read(k) PROVE OutTypes'
    BY <1>2 DEF Read, ReaderAt, outVars, managerVars
  <1>3. ASSUME NEW k \in Conns, HandOver(k) PROVE OutTypes'
    BY <1>3 DEF HandOver, ReaderAt, outVars, managerVars
  <1>4. ASSUME NEW k \in Conns, ReadFails(k) PROVE OutTypes'
    BY <1>4 DEF ReadFails, ReaderAt, Crash, outVars, managerVars
  <1>5. ASSUME NEW k \in Conns, Signal(k) PROVE OutTypes'
    BY <1>5 DEF Signal, ReaderAt, outVars
  <1>6. ASSUME NEW k \in Conns, ClearConn(k) PROVE OutTypes'
    BY <1>6 DEF ClearConn, ReaderAt, outVars, managerVars
  <1>7. ASSUME NEW k \in Conns, MarkPending(k) PROVE OutTypes'
    <2>1. /\ Append(pending, Disconnected) \in Seq(0 .. sent)
          /\ Len(pending) \in Nat
          /\ Len(Append(pending, Disconnected)) = Len(pending) + 1
      BY AppendProperties, LenProperties DEF Disconnected
    <2>2. /\ pending' = Append(pending, Disconnected) /\ Len(pending) < Capacity
          /\ UNCHANGED outVars
      BY <1>7 DEF MarkPending
    <2>3. Len(pending') <= Capacity
      BY <2>1, <2>2
    <2> QED
      BY <2>1, <2>2, <2>3 DEF outVars
  <1>8. ASSUME NEW k \in Conns, Consume(k) PROVE OutTypes'
    <2>1. /\ Head(pending) \in 0 .. sent /\ Tail(pending) \in Seq(0 .. sent)
          /\ Len(pending) \in Nat /\ Len(Tail(pending)) = Len(pending) - 1
      BY <1>8, HeadTailProperties, LenProperties DEF Consume
    <2>2. Len(Tail(pending)) <= Capacity
      BY <2>1
    <2> QED
      BY <1>8, <2>1, <2>2 DEF Consume, ConsumerAt
  <1>9. ASSUME NEW k \in Conns, Write(k) PROVE OutTypes'
    <2>1. held[k] \in 1 .. sent
      BY <1>9 DEF Write, ReaderInv, GoroutinesOK, Disconnected
    <2>2. conn \in Open => Append(written, <<conn, held[k]>>) \in Seq(Conns \X (1 .. sent))
      BY <2>1, AppendProperties DEF Open
    <2> QED
      <3>1. written' \in Seq(Conns \X (1 .. sent))
        BY <1>9, <2>2 DEF Write
      <3>2. /\ \/ UNCHANGED <<consumer, held>>
               \/ /\ consumer' = [consumer EXCEPT ![k] = "range"]
                  /\ held' = [held EXCEPT ![k] = 0]
            /\ UNCHANGED <<pending, sent>>
        BY <1>9 DEF Write, ConsumerAt, Disconnected
      <3>3. 0 \in 0 .. sent
        OBVIOUS
      <3> QED
        BY <3>1, <3>2, <3>3
  <1>10. ASSUME NEW k \in Conns, Issue(k) PROVE OutTypes'
    BY <1>10 DEF Issue, Open, outVars, managerVars
  <1>11. ASSUME NEW k \in Conns, NEW how \in Losses, Lose(k, how) PROVE OutTypes'
    BY <1>11 DEF Lose, Open, outVars, managerVars
  <1>12. CASE Dial
    BY <1>12 DEF Dial, inVars, outVars
  <1>13. CASE DialFails
    BY <1>13 DEF DialFails, Retry, inVars, outVars
  <1>14. CASE SetReadLimit
    BY <1>14 DEF SetReadLimit, Crash, inVars, outVars
  <1>15. CASE Greet
    BY <1>15 DEF Greet, Open, inVars, outVars
  <1>16. CASE GetConfig
    BY <1>16 DEF GetConfig, inVars, outVars
  <1>17. CASE GreetFails
    BY <1>17 DEF GreetFails, Retry, Open, inVars, outVars
  <1>18. CASE Spawn
    BY <1>18 DEF Spawn, ReaderAt, ConsumerAt
  <1>19. CASE Send
    BY <1>19 DEF Send, inVars, managerVars
  <1> QED
    BY <1>1, <1>2, <1>3, <1>4, <1>5, <1>6, <1>7, <1>8, <1>9, <1>10, <1>11,
       <1>12, <1>13, <1>14, <1>15, <1>16, <1>17, <1>18, <1>19
       DEF Next, Reader, Consumer, Connect

\* No action lets another goroutine than that of the last connection read.
LEMMA ReaderNext == ASSUME TypeOK, ReaderInv, Next PROVE ReaderInv'
  <1>a. /\ agent = "up" /\ tries < Attempts /\ tries \in 0 .. Attempts
        /\ Attempts \in Nat \ {0}
    BY Numbers DEF TypeOK, ReaderInv, Next
  <1>b. /\ inbox \in [Conns -> Seq(1 .. issued)]
        /\ reader \in [Conns -> {"none", "load", "read", "deliver", "signal", "clear",
                                "mark", "over"}]
        /\ from \in [Conns -> 0 .. dialed]
        /\ hand \in [Conns -> 0 .. issued]
        /\ consumer \in [Conns -> {"none", "range", "write", "over"}]
        /\ held \in [Conns -> 0 .. sent]
    BY DEF TypeOK
  <1>c. Conns = 1 .. MaxConns /\ MaxConns \in Nat \ {0} /\ dialed \in Conns
    BY Numbers DEF TypeOK
  <1>d. /\ conn \in {Nil, dialed}
        /\ \A j \in Conns : GoroutinesOK(j)
        /\ manager \in Connecting => reader[dialed] = "none" /\ consumer[dialed] = "none"
    BY DEF ReaderInv
  <1> USE DEF Nil, Disconnected
  <1>1. ASSUME NEW k \in Conns, ReaderLoads(k) PROVE ReaderInv'
    <2>1. reader[k] = "load" /\ k = dialed /\ manager = "range"
      BY <1>1, <1>d DEF ReaderLoads, GoroutinesOK, Reading
    <2>2. UNCHANGED <<conn, inbox, hand, consumer, held, manager, dialed, tries>>
      BY <1>1 DEF ReaderLoads, outVars, managerVars
    <2>3. \/ UNCHANGED <<reader, from>> /\ agent' = "crashed"
          \/ /\ from' = [from EXCEPT ![k] = k] /\ reader' = [reader EXCEPT ![k] = "read"]
             /\ UNCHANGED agent
      BY <1>1, <1>d, <2>1 DEF ReaderLoads, ReaderAt, Crash
    <2>4. ASSUME NEW j \in Conns PROVE GoroutinesOK(j)'
      BY <1>b, <1>d, <2>1, <2>2, <2>3 DEF GoroutinesOK, Reading
    <2> QED
      BY <1>a, <1>d, <2>1, <2>2, <2>3, <2>4 DEF ReaderInv, Connecting
  <1>2. ASSUME NEW k \in Conns, Read(k) PROVE ReaderInv'
    <2>1. reader[k] = "read" /\ k = dialed /\ manager = "range" /\ from[k] = k
      BY <1>2, <1>d DEF Read, GoroutinesOK, Reading
    <2>2. UNCHANGED <<conn, from, consumer, held, manager, dialed, tries, agent>>
      BY <1>2 DEF Read, outVars, managerVars
    <2>3. /\ inbox[k] # <<>>
          /\ hand' = [hand EXCEPT ![k] = Head(inbox[k])]
          /\ inbox' = [inbox EXCEPT ![k] = Tail(inbox[k])]
          /\ reader' = [reader EXCEPT ![k] = "deliver"]
      BY <1>2, <2>1 DEF Read, ReaderAt
    <2>4. Head(inbox[k]) # 0
      <3>1. Head(inbox[k]) \in 1 .. issued
        BY <1>b, <2>3, HeadTailProperties
      <3> QED
        BY <3>1
    <2>5. ASSUME NEW j \in Conns PROVE GoroutinesOK(j)'
      <3>1. CASE j = k
        BY <1>b, <1>d, <2>1, <2>2, <2>3, <2>4, <3>1 DEF GoroutinesOK, Reading
      <3>2. CASE j # k
        BY <1>b, <1>d, <2>2, <2>3, <3>2 DEF GoroutinesOK, Reading
      <3> QED
        BY <3>1, <3>2
    <2> QED
      BY <1>a, <1>d, <2>1, <2>2, <2>3, <2>5 DEF ReaderInv, Connecting
  <1>3. ASSUME NEW k \in Conns, HandOver(k) PROVE ReaderInv'
    BY <1>3, <1>a, <1>b, <1>c, <1>d DEF HandOver, ReaderAt, outVars, managerVars, ReaderInv, GoroutinesOK, Reading, Connecting
  <1>4. ASSUME NEW k \in Conns, ReadFails(k) PROVE ReaderInv'
    <2>1. reader[k] = "read" /\ k = dialed /\ manager = "range" /\ from[k] = k
      BY <1>4, <1>d DEF ReadFails, GoroutinesOK, Reading
    <2>2. UNCHANGED <<conn, inbox, hand, from, consumer, held, manager, dialed, tries>>
      BY <1>4 DEF ReadFails, outVars, managerVars
    <2>3. \/ UNCHANGED reader /\ agent' = "crashed"
          \/ reader' = [reader EXCEPT ![k] = "signal"] /\ UNCHANGED agent
      BY <1>4 DEF ReadFails, ReaderAt, Crash
    <2>4. ASSUME NEW j \in Conns PROVE GoroutinesOK(j)'
      BY <1>b, <1>d, <2>1, <2>2, <2>3 DEF GoroutinesOK, Reading
    <2> QED
      BY <1>a, <1>d, <2>1, <2>2, <2>3, <2>4 DEF ReaderInv, Connecting
  <1>5. ASSUME NEW k \in Conns, Signal(k) PROVE ReaderInv'
    <2>1. reader[k] = "signal" /\ manager' = "dial" /\ tries' = 0
      BY <1>5 DEF Signal
    <2>2. UNCHANGED <<conn, inbox, hand, from, consumer, held, dialed, agent>>
      BY <1>5 DEF Signal, outVars
    <2>3. reader' = [reader EXCEPT ![k] = "clear"]
      BY <1>5 DEF Signal, ReaderAt
    <2>4. k = dialed /\ \A j \in Conns : reader[j] \in Reading => j = k
      BY <1>d, <2>1 DEF GoroutinesOK, Reading
    <2>5. ASSUME NEW j \in Conns PROVE GoroutinesOK(j)'
      <3>1. reader'[j] = IF j = k THEN "clear" ELSE reader[j]
        BY <1>b, <2>3
      <3>2. reader'[j] \notin Reading
        BY <2>4, <3>1 DEF Reading
      <3> QED
        BY <1>c, <1>d, <2>2, <2>4, <3>1, <3>2 DEF GoroutinesOK, Reading
    <2> QED
      BY <1>a, <1>d, <2>1, <2>2, <2>5 DEF ReaderInv, Connecting
  <1>6. ASSUME NEW k \in Conns, ClearConn(k) PROVE ReaderInv'
    BY <1>6, <1>a, <1>b, <1>c, <1>d DEF ClearConn, ReaderAt, outVars, managerVars, ReaderInv, GoroutinesOK, Reading, Connecting
  <1>7. ASSUME NEW k \in Conns, MarkPending(k) PROVE ReaderInv'
    BY <1>7, <1>a, <1>b, <1>c, <1>d DEF MarkPending, ReaderAt, outVars, managerVars, ReaderInv, GoroutinesOK, Reading, Connecting
  <1>8. ASSUME NEW k \in Conns, Consume(k) PROVE ReaderInv'
    <2>1. consumer[k] = "range" /\ k <= dialed
          /\ (manager \in Connecting => k # dialed)
      BY <1>8, <1>c, <1>d DEF Consume, GoroutinesOK
    <2>2. UNCHANGED <<conn, reader, inbox, from, hand, manager, dialed, tries, agent>>
      BY <1>8 DEF Consume, inVars, managerVars
    <2>3. \/ consumer' = [consumer EXCEPT ![k] = "over"] /\ UNCHANGED held
          \/ \E m : /\ m # Disconnected
                    /\ consumer' = [consumer EXCEPT ![k] = "write"]
                    /\ held' = [held EXCEPT ![k] = m]
      BY <1>8 DEF Consume, ConsumerAt
    <2>4. ASSUME NEW j \in Conns
          PROVE  /\ j # k => consumer'[j] = consumer[j] /\ held'[j] = held[j]
                 /\ consumer'[k] = "write" => held'[k] # Disconnected
      BY <1>b, <2>1, <2>3
    <2>5. ASSUME NEW j \in Conns PROVE GoroutinesOK(j)'
      <3>1. GoroutinesOK(j) /\ (j = k => ~(j > dialed))
        BY <1>c, <1>d, <2>1
      <3> QED
        BY <2>2, <2>4, <3>1 DEF GoroutinesOK
    <2>6. manager \in Connecting => consumer'[dialed] = "none"
      BY <1>c, <1>d, <2>1, <2>4
    <2> QED
      BY <1>a, <1>d, <2>2, <2>5, <2>6 DEF ReaderInv
  <1>9. ASSUME NEW k \in Conns, Write(k) PROVE ReaderInv'
    <2>1. consumer[k] = "write" /\ held[k] # Disconnected /\ k <= dialed
          /\ (manager \in Connecting => k # dialed)
      BY <1>9, <1>c, <1>d DEF Write, GoroutinesOK
    <2>2. UNCHANGED <<conn, reader, inbox, from, hand, manager, dialed, tries>>
      BY <1>9 DEF Write, inVars, managerVars
    <2>3. \/ agent' = "crashed" /\ UNCHANGED <<consumer, held>>
          \/ /\ agent' = agent /\ consumer' = [consumer EXCEPT ![k] = "range"]
             /\ held' = [held EXCEPT ![k] = Disconnected]
      BY <1>9 DEF Write, ConsumerAt, Crash
    <2>4. ASSUME NEW j \in Conns
          PROVE  /\ j # k => consumer'[j] = consumer[j] /\ held'[j] = held[j]
                 /\ consumer'[k] = "write" => held'[k] # Disconnected
      BY <1>b, <2>1, <2>3
    <2>5. ASSUME NEW j \in Conns PROVE GoroutinesOK(j)'
      <3>1. GoroutinesOK(j) /\ (j = k => ~(j > dialed))
        BY <1>c, <1>d, <2>1
      <3> QED
        BY <2>2, <2>4, <3>1 DEF GoroutinesOK
    <2>6. manager \in Connecting => consumer'[dialed] = "none"
      BY <1>c, <1>d, <2>1, <2>4
    <2> QED
      BY <1>a, <1>d, <2>2, <2>3, <2>5, <2>6 DEF ReaderInv
  <1>10. ASSUME NEW k \in Conns, Issue(k) PROVE ReaderInv'
    <2>1. k <= dialed /\ \A j \in Conns : j # k => inbox'[j] = inbox[j]
      BY <1>10, <1>b, <1>c DEF Issue, TypeOK
    <2>2. UNCHANGED <<conn, reader, from, hand, consumer, held, manager, dialed, tries, agent>>
      BY <1>10 DEF Issue, outVars, managerVars
    <2>3. ASSUME NEW j \in Conns PROVE GoroutinesOK(j)'
      BY <1>c, <1>d, <2>1, <2>2 DEF GoroutinesOK
    <2> QED
      BY <1>a, <1>d, <2>2, <2>3 DEF ReaderInv
  <1>11. ASSUME NEW k \in Conns, NEW how \in Losses, Lose(k, how) PROVE ReaderInv'
    <2>1. \A j \in Conns : j # k => inbox'[j] = inbox[j]
      BY <1>11, <1>b DEF Lose
    <2>2. PICK n \in 0 .. Len(inbox[k]) : inbox' = [inbox EXCEPT ![k] = SubSeq(@, 1, n)]
      BY <1>11 DEF Lose
    <2>3. inbox[k] = <<>> => inbox'[k] = <<>>
      <3> SUFFICES ASSUME inbox[k] = <<>> PROVE SubSeq(inbox[k], 1, n) = <<>>
        BY <1>b, <2>2
      <3>1. n = 0
        BY <2>2
      <3> QED
        BY <3>1, SubSeqEmpty
    <2>4. UNCHANGED <<conn, reader, from, hand, consumer, held, manager, dialed, tries, agent>>
      BY <1>11 DEF Lose, outVars, managerVars
    <2>5. ASSUME NEW j \in Conns PROVE GoroutinesOK(j)'
      BY <1>d, <2>1, <2>3, <2>4 DEF GoroutinesOK
    <2> QED
      BY <1>a, <1>d, <2>4, <2>5 DEF ReaderInv
  <1>12. CASE Dial
    <2>1. /\ manager = "dial" /\ dialed < MaxConns /\ dialed' = dialed + 1
          /\ conn' = dialed' /\ manager' = "limit"
      BY <1>12 DEF Dial
    <2>2. UNCHANGED <<inbox, reader, from, hand, consumer, held, tries, agent>>
      BY <1>12 DEF Dial, inVars, outVars
    <2>3. dialed' \in Conns /\ dialed' > dialed /\ \A j \in Conns : j > dialed' => j > dialed
      BY <1>c, <2>1
    <2>4. ASSUME NEW j \in Conns PROVE GoroutinesOK(j)'
      <3>1. reader[j] \notin Reading
        BY <1>d, <2>1 DEF GoroutinesOK
      <3> QED
        BY <1>d, <2>2, <2>3, <3>1 DEF GoroutinesOK, Reading
    <2>5. reader[dialed'] = "none" /\ consumer[dialed'] = "none"
      BY <1>d, <2>3 DEF GoroutinesOK
    <2> QED
      BY <1>a, <2>1, <2>2, <2>4, <2>5 DEF ReaderInv
  <1>13. CASE DialFails
    BY <1>13, <1>a, <1>b, <1>c, <1>d DEF DialFails, Retry, inVars, outVars, ReaderInv, GoroutinesOK, Reading, Connecting
  <1>14. CASE SetReadLimit
    BY <1>14, <1>a, <1>b, <1>c, <1>d DEF SetReadLimit, Crash, inVars, outVars, ReaderInv, GoroutinesOK, Reading, Connecting
  <1>15. CASE Greet
    BY <1>15, <1>a, <1>b, <1>c, <1>d DEF Greet, Open, inVars, outVars, ReaderInv, GoroutinesOK, Reading, Connecting
  <1>16. CASE GetConfig
    BY <1>16, <1>a, <1>b, <1>c, <1>d DEF GetConfig, inVars, outVars, ReaderInv, GoroutinesOK, Reading, Connecting
  <1>17. CASE GreetFails
    BY <1>17, <1>a, <1>b, <1>c, <1>d DEF GreetFails, Retry, Open, inVars, outVars, ReaderInv, GoroutinesOK, Reading, Connecting
  <1>18. CASE Spawn
    BY <1>18, <1>a, <1>b, <1>c, <1>d DEF Spawn, ReaderAt, ConsumerAt, ReaderInv, GoroutinesOK, Reading, Connecting
  <1>19. CASE Send
    BY <1>19, <1>a, <1>b, <1>c, <1>d DEF Send, inVars, managerVars, ReaderInv, GoroutinesOK, Reading, Connecting
  <1> QED
    BY <1>1, <1>2, <1>3, <1>4, <1>5, <1>6, <1>7, <1>8, <1>9, <1>10, <1>11,
       <1>12, <1>13, <1>14, <1>15, <1>16, <1>17, <1>18, <1>19
       DEF Next, Reader, Consumer, Connect

-----------------------------------------------------------------------------
(***************************************************************************)
(* The order of the commands                                               *)
(***************************************************************************)
Below(s, t) == \A i \in 1 .. Len(s), j \in 1 .. Len(t) : s[i] < t[j]

\* The commands handed over, the one in the hand of the reader and those on their
\* way on the connection that is read are one rising sequence; connections that
\* are not read any more are left out.
OrderInv ==
    /\ InOrder(cmds) /\ InOrder(inbox[dialed])
    /\ Below(cmds, inbox[dialed])
    /\ reader[dialed] = "deliver" =>
           Below(cmds, <<hand[dialed]>>) /\ Below(<<hand[dialed]>>, inbox[dialed])

\* A number above all others keeps a sequence in order at its end.
LEMMA OrderOfAppend ==
    ASSUME NEW n \in Nat, NEW s \in Seq(1 .. n), NEW m \in Nat,
           InOrder(s), Below(s, <<m>>)
    PROVE  InOrder(Append(s, m))
  <1>1. /\ s \in Seq(Nat) /\ Len(s) \in Nat /\ Len(Append(s, m)) = Len(s) + 1
        /\ \A i \in 1 .. Len(s) : Append(s, m)[i] = s[i]
        /\ Append(s, m)[Len(s) + 1] = m
    <2>1. 1 .. n \subseteq Nat
      OBVIOUS
    <2>2. s \in Seq(Nat)
      BY <2>1, SeqMonotonic
    <2> QED
      BY <2>2, AppendProperties, LenProperties
  <1>2. \A i \in 1 .. Len(s) : s[i] < m
    BY DEF Below
  <1> SUFFICES ASSUME NEW i \in 1 .. Len(s) + 1, NEW j \in 1 .. Len(s) + 1, i < j
               PROVE  Append(s, m)[i] < Append(s, m)[j]
    BY <1>1 DEF InOrder
  <1>3. i \in 1 .. Len(s) /\ (j \in 1 .. Len(s) \/ j = Len(s) + 1)
    <2>1. Len(s) \in Nat
      BY <1>1
    <2> QED
      BY ONLY <2>1, i \in 1 .. Len(s) + 1, j \in 1 .. Len(s) + 1, i < j
  <1> QED
    BY <1>1, <1>2, <1>3 DEF InOrder

\* The head of a sequence in order is below its tail.
LEMMA OrderOfTail ==
    ASSUME NEW n \in Nat, NEW s \in Seq(1 .. n), s # <<>>, InOrder(s)
    PROVE  InOrder(Tail(s)) /\ Below(<<Head(s)>>, Tail(s))
  <1>1. /\ Len(s) \in Nat /\ Len(Tail(s)) = Len(s) - 1 /\ Head(s) = s[1]
        /\ \A i \in 1 .. Len(s) - 1 : Tail(s)[i] = s[i + 1]
    BY HeadTailProperties, LenProperties, EmptySeq
  <1>2. InOrder(Tail(s))
    <2> SUFFICES ASSUME NEW i \in 1 .. Len(s) - 1, NEW j \in 1 .. Len(s) - 1, i < j
                 PROVE  Tail(s)[i] < Tail(s)[j]
      BY <1>1 DEF InOrder
    <2>1. i + 1 \in 1 .. Len(s) /\ j + 1 \in 1 .. Len(s) /\ i + 1 < j + 1
      BY <1>1
    <2> QED
      BY <1>1, <2>1 DEF InOrder
  <1>3. Below(<<Head(s)>>, Tail(s))
    <2> SUFFICES ASSUME NEW j \in 1 .. Len(s) - 1 PROVE s[1] < Tail(s)[j]
      BY <1>1 DEF Below
    <2>1. 1 \in 1 .. Len(s) /\ j + 1 \in 1 .. Len(s) /\ 1 < j + 1
      BY <1>1
    <2> QED
      BY <1>1, <2>1 DEF InOrder
  <1> QED
    BY <1>2, <1>3

\* What is behind the first commands of a sequence is behind the sequence.
LEMMA BelowTail ==
    ASSUME NEW n \in Nat, NEW s \in Seq(1 .. n), s # <<>>,
           NEW r, Below(r, s)
    PROVE  Below(r, <<Head(s)>>) /\ Below(r, Tail(s))
  <1>1. /\ Len(s) \in Nat \ {0} /\ Len(Tail(s)) = Len(s) - 1 /\ Head(s) = s[1]
        /\ \A i \in 1 .. Len(s) - 1 : Tail(s)[i] = s[i + 1]
    BY HeadTailProperties, LenProperties, EmptySeq
  <1>2. 1 \in 1 .. Len(s) /\ \A j \in 1 .. Len(s) - 1 : j + 1 \in 1 .. Len(s)
    BY <1>1
  <1> QED
    BY <1>1, <1>2 DEF Below

\* What a lost connection leaves of an inbox is still in order.
LEMMA OrderOfSubSeq ==
    ASSUME NEW n \in Nat, NEW s \in Seq(1 .. n), InOrder(s), NEW m \in 0 .. Len(s),
           NEW r, Below(r, s)
    PROVE  InOrder(SubSeq(s, 1, m)) /\ Below(r, SubSeq(s, 1, m))
  <1>1. /\ Len(SubSeq(s, 1, m)) = m
        /\ \A i \in 1 .. m : SubSeq(s, 1, m)[i] = s[i] /\ i \in 1 .. Len(s)
    <2>1. Len(s) \in Nat /\ \A i \in 1 .. m : s[i] \in 1 .. n /\ i \in 1 .. Len(s)
      BY LenProperties, ElementOfSeq
    <2>2. /\ Len(SubSeq(s, 1, m)) = IF 1 <= m THEN m - 1 + 1 ELSE 0
          /\ \A i \in 1 .. m - 1 + 1 : SubSeq(s, 1, m)[i] = s[1 + i - 1]
      BY <2>1, SubSeqProperties
    <2> QED
      BY <2>1, <2>2
  <1>2. InOrder(SubSeq(s, 1, m))
    BY <1>1 DEF InOrder
  <1>3. Below(r, SubSeq(s, 1, m))
    BY <1>1 DEF Below
  <1> QED
    BY <1>2, <1>3

\* Appending a number keeps one sequence below another if the number does.
LEMMA BelowAppend ==
    ASSUME NEW n \in Nat, NEW s \in Seq(1 .. n), NEW m \in Nat, NEW r
    PROVE  /\ Below(r, s) /\ Below(r, <<m>>) => Below(r, Append(s, m))
           /\ Below(s, r) /\ Below(<<m>>, r) => Below(Append(s, m), r)
  <1>1. /\ s \in Seq(Nat) /\ Len(s) \in Nat /\ Len(Append(s, m)) = Len(s) + 1
        /\ \A i \in 1 .. Len(s) : Append(s, m)[i] = s[i]
        /\ Append(s, m)[Len(s) + 1] = m
    <2>1. 1 .. n \subseteq Nat
      OBVIOUS
    <2>2. s \in Seq(Nat)
      BY <2>1, SeqMonotonic
    <2> QED
      BY <2>2, AppendProperties, LenProperties
  <1>2. \A i \in 1 .. Len(s) + 1 : i \in 1 .. Len(s) \/ i = Len(s) + 1
    BY <1>1
  <1>3. Len(<<m>>) = 1 /\ <<m>>[1] = m /\ 1 \in 1 .. 1
    OBVIOUS
  <1>4. ASSUME Below(r, s), Below(r, <<m>>) PROVE Below(r, Append(s, m))
    BY <1>1, <1>2, <1>3, <1>4 DEF Below
  <1>5. ASSUME Below(s, r), Below(<<m>>, r) PROVE Below(Append(s, m), r)
    BY <1>1, <1>2, <1>3, <1>5 DEF Below
  <1> QED
    BY <1>4, <1>5

\* A new command is above all that were issued.
LEMMA IssuedIsAbove ==
    ASSUME NEW n \in Nat, NEW s \in Seq(1 .. n) PROVE Below(s, <<n + 1>>)
  <1>1. Len(s) \in Nat /\ \A i \in 1 .. Len(s) : s[i] \in 1 .. n
    BY LenProperties, ElementOfSeq
  <1> QED
    BY <1>1 DEF Below

\* Nothing is on its way in the initial state.
LEMMA OrderInit == Init => OrderInv
  <1> SUFFICES ASSUME Init PROVE OrderInv
    OBVIOUS
  <1>1. cmds = <<>> /\ inbox[dialed] = <<>> /\ reader[dialed] = "load"
    BY Numbers DEF Init
  <1>2. Len(<<>>) = 0
    BY EmptySeq
  <1> QED
    BY <1>1, <1>2 DEF OrderInv, InOrder, Below

\* Commands are read from the connection dialed last, one after the other.
LEMMA OrderNext == ASSUME TypeOK, ReaderInv, OrderInv, Next PROVE OrderInv'
  <1>b. /\ inbox \in [Conns -> Seq(1 .. issued)] /\ inbox[dialed] \in Seq(1 .. issued)
        /\ reader \in [Conns -> {"none", "load", "read", "deliver", "signal", "clear",
                                "mark", "over"}]
        /\ hand \in [Conns -> 0 .. issued]
        /\ cmds \in Seq(1 .. issued)
        /\ dialed \in Conns
    BY DEF TypeOK
  <1>c. issued \in Nat
    BY Numbers DEF TypeOK
  <1>d. \A j \in Conns : GoroutinesOK(j)
    BY DEF ReaderInv
  <1> USE <1>b
  <1>1. ASSUME NEW k \in Conns, ReaderLoads(k) PROVE OrderInv'
    BY <1>1 DEF ReaderLoads, ReaderAt, Crash, outVars, managerVars, OrderInv
  <1>2. ASSUME NEW k \in Conns, Read(k) PROVE OrderInv'
    <2>1. reader[k] = "read" /\ k = dialed /\ from[k] = k
      BY <1>2, <1>d DEF Read, GoroutinesOK, Reading
    <2>2. /\ inbox[k] # <<>> /\ UNCHANGED <<cmds, dialed>>
          /\ hand' = [hand EXCEPT ![k] = Head(inbox[k])]
          /\ inbox' = [inbox EXCEPT ![k] = Tail(inbox[k])]
      BY <1>2, <2>1 DEF Read, managerVars
    <2>3. hand'[dialed] = Head(inbox[dialed]) /\ inbox'[dialed] = Tail(inbox[dialed])
      BY <2>1, <2>2
    <2>4. InOrder(Tail(inbox[dialed])) /\ Below(<<Head(inbox[dialed])>>, Tail(inbox[dialed]))
      BY <1>c, <2>1, <2>2, OrderOfTail DEF OrderInv
    <2>5. Below(cmds, <<Head(inbox[dialed])>>) /\ Below(cmds, Tail(inbox[dialed]))
      BY <1>c, <2>1, <2>2, BelowTail DEF OrderInv
    <2> QED
      BY <2>2, <2>3, <2>4, <2>5 DEF OrderInv
  <1>3. ASSUME NEW k \in Conns, HandOver(k) PROVE OrderInv'
    <2>1. k = dialed /\ reader[dialed] = "deliver"
      BY <1>3, <1>d DEF HandOver, GoroutinesOK, Reading
    <2>2. /\ cmds' = Append(cmds, hand[dialed]) /\ UNCHANGED <<inbox, dialed>>
          /\ reader'[dialed] = "load"
      BY <1>3, <2>1 DEF HandOver, ReaderAt, managerVars
    <2>3. hand[dialed] \in Nat
      BY <1>c
    <2>4. InOrder(Append(cmds, hand[dialed]))
      BY <1>c, <2>1, <2>3, OrderOfAppend DEF OrderInv
    <2>5. Below(Append(cmds, hand[dialed]), inbox[dialed])
      BY <1>c, <2>1, <2>3, BelowAppend DEF OrderInv
    <2> QED
      BY <2>2, <2>4, <2>5 DEF OrderInv
  <1>4. ASSUME NEW k \in Conns, ReadFails(k) PROVE OrderInv'
    BY <1>4 DEF ReadFails, ReaderAt, Crash, outVars, managerVars, OrderInv
  <1>5. ASSUME NEW k \in Conns, Signal(k) PROVE OrderInv'
    BY <1>5 DEF Signal, ReaderAt, outVars, OrderInv
  <1>6. ASSUME NEW k \in Conns, ClearConn(k) PROVE OrderInv'
    BY <1>6 DEF ClearConn, ReaderAt, outVars, managerVars, OrderInv
  <1>7. ASSUME NEW k \in Conns, MarkPending(k) PROVE OrderInv'
    BY <1>7 DEF MarkPending, ReaderAt, outVars, managerVars, OrderInv
  <1>8. ASSUME NEW k \in Conns, Consume(k) PROVE OrderInv'
    BY <1>8 DEF Consume, ConsumerAt, inVars, managerVars, OrderInv
  <1>9. ASSUME NEW k \in Conns, Write(k) PROVE OrderInv'
    BY <1>9 DEF Write, ConsumerAt, Crash, Open, inVars, managerVars, OrderInv
  <1>10. ASSUME NEW k \in Conns, Issue(k) PROVE OrderInv'
    <2>1. /\ issued' = issued + 1 /\ inbox' = [inbox EXCEPT ![k] = Append(inbox[k], issued')]
          /\ UNCHANGED <<cmds, dialed, reader, hand>>
      BY <1>10 DEF Issue, managerVars
    <2>2. CASE k = dialed
      <3>1. inbox'[dialed] = Append(inbox[dialed], issued + 1) /\ issued + 1 \in Nat
        BY <1>c, <2>1, <2>2
      <3>2. Below(inbox[dialed], <<issued + 1>>) /\ Below(cmds, <<issued + 1>>)
        BY <1>c, IssuedIsAbove
      <3>3. InOrder(Append(inbox[dialed], issued + 1))
        BY <1>c, <3>1, <3>2, OrderOfAppend DEF OrderInv
      <3>4. Below(cmds, Append(inbox[dialed], issued + 1))
        BY <1>c, <3>1, <3>2, BelowAppend DEF OrderInv
      <3>5. reader[dialed] = "deliver" =>
                Below(<<hand[dialed]>>, Append(inbox[dialed], issued + 1))
        <4>1. hand[dialed] \in 0 .. issued
          OBVIOUS
        <4>2. Below(<<hand[dialed]>>, <<issued + 1>>)
          BY <1>c, <4>1 DEF Below
        <4> QED
          BY <1>c, <3>1, <4>2, BelowAppend DEF OrderInv
      <3> QED
        BY <2>1, <3>1, <3>3, <3>4, <3>5 DEF OrderInv
    <2>3. CASE k # dialed
      <3>1. inbox'[dialed] = inbox[dialed]
        BY <2>1, <2>3
      <3> QED
        BY <2>1, <3>1 DEF OrderInv
    <2> QED
      BY <2>2, <2>3
  <1>11. ASSUME NEW k \in Conns, NEW how \in Losses, Lose(k, how) PROVE OrderInv'
    <2>1. UNCHANGED <<cmds, dialed, reader, hand>>
      BY <1>11 DEF Lose, managerVars
    <2>2. PICK n \in 0 .. Len(inbox[k]) : inbox' = [inbox EXCEPT ![k] = SubSeq(inbox[k], 1, n)]
      BY <1>11 DEF Lose
    <2>3. CASE k = dialed
      <3>1. inbox'[dialed] = SubSeq(inbox[dialed], 1, n) /\ n \in 0 .. Len(inbox[dialed])
        BY <2>2, <2>3
      <3>2. InOrder(inbox'[dialed]) /\ Below(cmds, inbox'[dialed])
        BY <1>c, <3>1, OrderOfSubSeq DEF OrderInv
      <3>3. reader[dialed] = "deliver" => Below(<<hand[dialed]>>, inbox'[dialed])
        BY <1>c, <3>1, OrderOfSubSeq DEF OrderInv
      <3> QED
        BY <2>1, <3>2, <3>3 DEF OrderInv
    <2>4. CASE k # dialed
      <3>1. inbox'[dialed] = inbox[dialed]
        BY <2>2, <2>4
      <3> QED
        BY <2>1, <3>1 DEF OrderInv
    <2> QED
      BY <2>3, <2>4
  <1>12. CASE Dial
    <2>1. /\ dialed' = dialed + 1 /\ dialed < MaxConns /\ manager = "dial"
          /\ UNCHANGED <<cmds, inbox, reader, hand>>
      BY <1>12 DEF Dial, inVars
    <2>2. dialed' \in Conns /\ dialed' > dialed
      BY Numbers, <2>1
    <2>3. inbox[dialed'] = <<>> /\ reader[dialed'] # "deliver" /\ Len(<<>>) = 0
      BY <1>d, <2>2, EmptySeq DEF GoroutinesOK
    <2>4. InOrder(<<>>) /\ Below(cmds, <<>>)
      BY <2>3 DEF InOrder, Below
    <2> QED
      BY <2>1, <2>3, <2>4 DEF OrderInv
  <1>13. CASE DialFails
    BY <1>13 DEF DialFails, Retry, inVars, outVars, OrderInv
  <1>14. CASE SetReadLimit
    BY <1>14 DEF SetReadLimit, Crash, inVars, outVars, OrderInv
  <1>15. CASE Greet
    BY <1>15 DEF Greet, Open, inVars, outVars, OrderInv
  <1>16. CASE GetConfig
    BY <1>16 DEF GetConfig, inVars, outVars, OrderInv
  <1>17. CASE GreetFails
    BY <1>17 DEF GreetFails, Retry, Open, inVars, outVars, OrderInv
  <1>18. CASE Spawn
    BY <1>18 DEF Spawn, ReaderAt, ConsumerAt, OrderInv
  <1>19. CASE Send
    BY <1>19 DEF Send, inVars, managerVars, OrderInv
  <1> QED
    BY <1>1, <1>2, <1>3, <1>4, <1>5, <1>6, <1>7, <1>8, <1>9, <1>10, <1>11,
       <1>12, <1>13, <1>14, <1>15, <1>16, <1>17, <1>18, <1>19
       DEF Next, Reader, Consumer, Connect

ClientInv == TypeOK /\ ReaderInv

\* The three invariants together are inductive.
LEMMA ClientInductive == ClientInv /\ [Next]_vars => ClientInv'
  <1>1. ASSUME ClientInv, Next PROVE ClientInv'
    <2>1. TypeOK /\ ReaderInv
      BY <1>1 DEF ClientInv
    <2>2. ManagerTypes' /\ InTypes' /\ OutTypes'
      BY <1>1, <2>1, ManagerTypesNext, InTypesNext, OutTypesNext
    <2>3. TypeOK'
      BY <2>2 DEF TypeOK, ManagerTypes, InTypes, OutTypes
    <2> QED
      BY <1>1, <2>1, <2>3, ReaderNext DEF ClientInv
  <1>2. ASSUME ClientInv, UNCHANGED vars PROVE ClientInv'
    BY <1>2 DEF ClientInv, TypeOK, ReaderInv, GoroutinesOK, vars, inVars, outVars, managerVars
  <1> QED
    BY <1>1, <1>2

\* The state of the client and of its goroutines keeps its type.
THEOREM TypeCorrect == Spec => []TypeOK
  <1>1. Init => ClientInv
    BY TypeInit DEF ClientInv
  <1>2. ClientInv => TypeOK
    BY DEF ClientInv
  <1> QED
    BY <1>1, <1>2, ClientInductive, PTL DEF Spec

\* The commands reach the service in the order in which they were sent.
THEOREM CommandsKeepOrder == Spec => []CommandsInOrder
  <1> DEFINE I == ClientInv /\ OrderInv
  <1>1. Init => I
    BY TypeInit, OrderInit DEF ClientInv
  <1>2. I /\ [Next]_vars => I'
    <2>1. ASSUME I, Next PROVE OrderInv'
      BY <2>1, OrderNext DEF ClientInv
    <2>2. ASSUME I, UNCHANGED vars PROVE OrderInv'
      BY <2>2 DEF OrderInv, InOrder, Below, vars, inVars, outVars, managerVars
    <2> QED
      BY <2>1, <2>2, ClientInductive
  <1>3. I => CommandsInOrder
    BY DEF OrderInv, CommandsInOrder
  <1> QED
    BY <1>1, <1>2, <1>3, PTL DEF Spec

-----------------------------------------------------------------------------
(***************************************************************************)
(* Consumers and markers                                                   *)
(***************************************************************************)
LEMMA SetsFinite ==
    /\ IsFiniteSet(Serving) /\ Cardinality(Serving) \in Nat
    /\ IsFiniteSet(Active) /\ Cardinality(Active) \in Nat
  <1>1. IsFiniteSet(Conns)
    BY Numbers, FS_Interval
  <1>2. Serving \subseteq Conns /\ Active \subseteq Conns
    BY DEF Serving, Active
  <1> QED
    BY <1>1, <1>2, FS_Subset, FS_CardinalityType

\* A connection brings a reader and a consumer; a reader that leaves leaves a
\* marker behind; a consumer that leaves takes one with it.
LEMMA BalanceNext ==
    ASSUME TypeOK, ReaderInv, ConsumersBalance, Next PROVE ConsumersBalance'
  <1>b. /\ reader \in [Conns -> {"none", "load", "read", "deliver", "signal", "clear",
                                "mark", "over"}]
        /\ consumer \in [Conns -> {"none", "range", "write", "over"}]
        /\ dialed \in Conns /\ pending \in Seq(0 .. sent) /\ sent \in Nat
    <2>1. sent \in Nat
      BY Numbers DEF TypeOK
    <2> QED
      BY <2>1 DEF TypeOK
  <1>c. /\ Cardinality(Serving) = Cardinality(Active) + Cardinality(MarkersIn(pending))
        /\ IsFiniteSet(Serving) /\ Cardinality(Serving) \in Nat
        /\ IsFiniteSet(Active) /\ Cardinality(Active) \in Nat
        /\ Cardinality(MarkersIn(pending)) \in Nat
    BY <1>b, SetsFinite, MarkersFinite DEF ConsumersBalance, Markers, MarkersIn
  <1>d. Markers' = MarkersIn(pending')
    BY DEF Markers, MarkersIn
  <1> DEFINE Kept == Serving' = Serving /\ Active' = Active /\ UNCHANGED pending
  <1>k. ASSUME Kept PROVE ConsumersBalance'
    BY <1>c, <1>d, <1>k DEF ConsumersBalance
  <1> USE <1>b
  <1>1. ASSUME NEW k \in Conns, ReaderLoads(k) PROVE ConsumersBalance'
    BY <1>1, <1>k DEF ReaderLoads, ReaderAt, Crash, outVars, managerVars, Serving, Active
  <1>2. ASSUME NEW k \in Conns, Read(k) PROVE ConsumersBalance'
    BY <1>2, <1>k DEF Read, ReaderAt, outVars, managerVars, Serving, Active
  <1>3. ASSUME NEW k \in Conns, HandOver(k) PROVE ConsumersBalance'
    BY <1>3, <1>k DEF HandOver, ReaderAt, outVars, managerVars, Serving, Active
  <1>4. ASSUME NEW k \in Conns, ReadFails(k) PROVE ConsumersBalance'
    BY <1>4, <1>k DEF ReadFails, ReaderAt, Crash, outVars, managerVars, Serving, Active
  <1>5. ASSUME NEW k \in Conns, Signal(k) PROVE ConsumersBalance'
    BY <1>5, <1>k DEF Signal, ReaderAt, outVars, Serving, Active
  <1>6. ASSUME NEW k \in Conns, ClearConn(k) PROVE ConsumersBalance'
    BY <1>6, <1>k DEF ClearConn, ReaderAt, outVars, managerVars, Serving, Active
  <1>7. ASSUME NEW k \in Conns, MarkPending(k) PROVE ConsumersBalance'
    <2>1. /\ pending' = Append(pending, Disconnected) /\ UNCHANGED consumer
          /\ reader[k] = "mark" /\ reader' = [reader EXCEPT ![k] = "over"]
      BY <1>7 DEF MarkPending, ReaderAt, outVars
    <2>2. Active' = Active \ {k} /\ k \in Active /\ Serving' = Serving
      BY <2>1 DEF Active, Serving
    <2>3. Cardinality(Active') = Cardinality(Active) - 1
      BY <1>c, <2>2, FS_RemoveElement
    <2>4. Cardinality(MarkersIn(pending')) = Cardinality(MarkersIn(pending)) + 1
      BY <2>1, MarkersOfAppend DEF Disconnected
    <2> QED
      BY <1>c, <1>d, <2>2, <2>3, <2>4 DEF ConsumersBalance
  <1>8. ASSUME NEW k \in Conns, Consume(k) PROVE ConsumersBalance'
    <2>1. /\ pending' = Tail(pending) /\ pending # <<>> /\ UNCHANGED reader
          /\ consumer[k] = "range"
      BY <1>8 DEF Consume, inVars
    <2>2. Active' = Active
      BY <2>1 DEF Active
    <2>3. CASE Head(pending) = Disconnected
      <3>1. consumer' = [consumer EXCEPT ![k] = "over"]
        BY <1>8, <2>3 DEF Consume, ConsumerAt
      <3>2. Serving' = Serving \ {k} /\ k \in Serving
        BY <2>1, <3>1 DEF Serving
      <3>3. Cardinality(Serving') = Cardinality(Serving) - 1
        BY <1>c, <3>2, FS_RemoveElement
      <3>4. Cardinality(MarkersIn(pending)) = Cardinality(MarkersIn(pending')) + 1
        BY <2>1, <2>3, MarkersOfTail
      <3>5. Cardinality(MarkersIn(pending')) \in Nat
        <4>1. pending' \in Seq(0 .. sent)
          BY <2>1, HeadTailProperties
        <4> QED
          BY <4>1, MarkersFinite
      <3> QED
        BY <1>c, <1>d, <2>2, <3>3, <3>4, <3>5 DEF ConsumersBalance
    <2>4. CASE Head(pending) # Disconnected
      <3>1. consumer' = [consumer EXCEPT ![k] = "write"]
        BY <1>8, <2>4 DEF Consume, ConsumerAt
      <3>2. Serving' = Serving
        BY <2>1, <3>1 DEF Serving
      <3>3. Cardinality(MarkersIn(pending)) = Cardinality(MarkersIn(pending')) + 0
        BY <2>1, <2>4, MarkersOfTail
      <3>4. Cardinality(MarkersIn(pending')) \in Nat
        <4>1. pending' \in Seq(0 .. sent)
          BY <2>1, HeadTailProperties
        <4> QED
          BY <4>1, MarkersFinite
      <3> QED
        BY <1>c, <1>d, <2>2, <3>2, <3>3, <3>4 DEF ConsumersBalance
    <2> QED
      BY <2>3, <2>4
  <1>9. ASSUME NEW k \in Conns, Write(k) PROVE ConsumersBalance'
    BY <1>9, <1>k DEF Write, ConsumerAt, Crash, Open, inVars, managerVars, Serving, Active
  <1>10. ASSUME NEW k \in Conns, Issue(k) PROVE ConsumersBalance'
    BY <1>10, <1>k DEF Issue, Open, outVars, managerVars, Serving, Active
  <1>11. ASSUME NEW k \in Conns, NEW how \in Losses, Lose(k, how) PROVE ConsumersBalance'
    BY <1>11, <1>k DEF Lose, Open, outVars, managerVars, Serving, Active
  <1>12. CASE Dial
    BY <1>12, <1>k DEF Dial, inVars, outVars, Serving, Active
  <1>13. CASE DialFails
    BY <1>13, <1>k DEF DialFails, Retry, inVars, outVars, Serving, Active
  <1>14. CASE SetReadLimit
    BY <1>14, <1>k DEF SetReadLimit, Crash, inVars, outVars, Serving, Active
  <1>15. CASE Greet
    BY <1>15, <1>k DEF Greet, Open, inVars, outVars, Serving, Active
  <1>16. CASE GetConfig
    BY <1>16, <1>k DEF GetConfig, inVars, outVars, Serving, Active
  <1>17. CASE GreetFails
    BY <1>17, <1>k DEF GreetFails, Retry, Open, inVars, outVars, Serving, Active
  <1>18. CASE Spawn
    <2>1. /\ manager = "spawn" /\ UNCHANGED pending
          /\ reader' = [reader EXCEPT ![dialed] = "load"]
          /\ consumer' = [consumer EXCEPT ![dialed] = "range"]
      BY <1>18 DEF Spawn, ReaderAt, ConsumerAt
    <2>2. reader[dialed] = "none" /\ consumer[dialed] = "none"
      BY <2>1 DEF ReaderInv, Connecting
    <2>3. /\ Active' = Active \cup {dialed} /\ dialed \notin Active
          /\ Serving' = Serving \cup {dialed} /\ dialed \notin Serving
      BY <2>1, <2>2 DEF Active, Serving
    <2>4. /\ Cardinality(Active') = Cardinality(Active) + 1
          /\ Cardinality(Serving') = Cardinality(Serving) + 1
      BY <1>c, <2>3, FS_AddElement
    <2> QED
      BY <1>c, <1>d, <2>1, <2>4 DEF ConsumersBalance
  <1>19. CASE Send
    <2>1. /\ sent' = sent + 1 /\ pending' = Append(pending, sent')
          /\ UNCHANGED <<reader, consumer>>
      BY <1>19 DEF Send, inVars
    <2>2. Active' = Active /\ Serving' = Serving
      BY <2>1 DEF Active, Serving
    <2>3. /\ sent' \in Nat /\ pending \in Seq(0 .. sent') /\ sent' \in 0 .. sent'
          /\ sent' # Disconnected
      BY <2>1, SeqGrows DEF Disconnected
    <2>4. Cardinality(MarkersIn(pending')) = Cardinality(MarkersIn(pending)) + 0
      BY <2>1, <2>3, MarkersOfAppend
    <2> QED
      BY <1>c, <1>d, <2>2, <2>4 DEF ConsumersBalance
  <1> QED
    BY <1>1, <1>2, <1>3, <1>4, <1>5, <1>6, <1>7, <1>8, <1>9, <1>10, <1>11,
       <1>12, <1>13, <1>14, <1>15, <1>16, <1>17, <1>18, <1>19
       DEF Next, Reader, Consumer, Connect

\* No connection is left without a consumer: consumers, readers and markers
\* balance.
THEOREM ConsumersStayBalanced == Spec => []ConsumersBalance
  <1> DEFINE I == ClientInv /\ ConsumersBalance
  <1>1. Init => I
    <2> SUFFICES ASSUME Init PROVE ConsumersBalance
      BY TypeInit DEF ClientInv
    <2>1. Serving = {1} /\ Active = {1} /\ pending = <<>>
      BY Numbers DEF Init, Serving, Active
    <2>2. Markers = {}
      BY <2>1, EmptySeq DEF Markers
    <2>3. Cardinality({1}) = 1 /\ Cardinality({}) = 0
      BY FS_Singleton, FS_EmptySet
    <2> QED
      BY <2>1, <2>2, <2>3 DEF ConsumersBalance
  <1>2. I /\ [Next]_vars => I'
    <2>1. ASSUME I, Next PROVE ConsumersBalance'
      BY <2>1, BalanceNext DEF ClientInv
    <2>2. ASSUME I, UNCHANGED vars PROVE ConsumersBalance'
      BY <2>2 DEF ConsumersBalance, Serving, Active, Markers, vars, inVars, outVars,
         managerVars
    <2> QED
      BY <2>1, <2>2, ClientInductive
  <1>3. I => ConsumersBalance
    OBVIOUS
  <1> QED
    BY <1>1, <1>2, <1>3, PTL DEF Spec
=============================================================================
