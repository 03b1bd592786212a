--------------------------- MODULE SidecarProofs ----------------------------
(* Theorems about SidecarTerminal, for every capacity of the ring and every*)
(* number of calls.                                                        *)
EXTENDS SidecarTerminal, SequenceTheorems, TLAPS

-----------------------------------------------------------------------------
(* Arithmetic of the ring. *)

LEMMA Wraps ==
    ASSUME NEW x \in Int, -Capacity <= x, x < 2 * Capacity
    PROVE  x % Capacity = IF x < 0 THEN x + Capacity ELSE IF x < Capacity THEN x ELSE x - Capacity
BY SidecarAssumption

LEMMA MinOfTwo ==
    ASSUME NEW a \in Int, NEW b \in Int
    PROVE  Min({a, b}) = IF a <= b THEN a ELSE b
BY DEF Min

-----------------------------------------------------------------------------
(* The ring.  Below the head it holds the last units, above it those       *)
(* before them; until it is full the head counts the units.                *)
Positions == 0 .. Capacity - 1

RingOf(r, n) ==
    /\ r.head \in Positions
    /\ r.filled = IF n < Capacity THEN n ELSE Capacity
    /\ n < Capacity => r.head = n
    /\ DOMAIN r.buf = Positions
    /\ \A i \in Positions :
          /\ i < r.head => r.buf[i] = n - r.head + 1 + i
          /\ i >= r.head /\ n >= Capacity => r.buf[i] = n - Capacity - r.head + 1 + i

(* A chunk of any size keeps it: one that goes past the end of the array,  *)
(* and one that is longer than the ring.                                   *)
LEMMA ChunkKept ==
    ASSUME NEW r, NEW n \in Nat, RingOf(r, n), NEW len \in Nat \ {0}
    PROVE  RingOf(Written(r, n + 1, len), n + len)
<1> PICK w : w = Written(r, n + 1, len)
  OBVIOUS
<1> PICK h \in Positions : h = r.head
  BY DEF RingOf
<1> PICK m \in Nat : m = n + len
  OBVIOUS
<1> SUFFICES RingOf(w, m)
  OBVIOUS
<1>0. /\ Capacity \in Nat /\ Capacity > 0 /\ h \in Nat /\ h < Capacity
      /\ m = n + len
  BY SidecarAssumption DEF Positions
<1>1. CASE len >= Capacity
  <2>1. w = [buf |-> [i \in Positions |-> n + 1 + len - Capacity + i], head |-> 0, filled |-> Capacity]
    BY <1>1 DEF Written, Positions
  <2>2. /\ w.head = 0 /\ w.filled = Capacity /\ DOMAIN w.buf = Positions
        /\ \A i \in Positions : w.buf[i] = n + 1 + len - Capacity + i
    BY <2>1
  <2>3. 0 \in Positions /\ ~(m < Capacity)
    BY <1>0, <1>1 DEF Positions
  <2>4. \A i \in Positions : ~(i < 0) /\ n + 1 + len - Capacity + i = m - Capacity - 0 + 1 + i
    BY <1>0 DEF Positions
  <2>5. w.filled = IF m < Capacity THEN m ELSE Capacity
    BY <2>2, <2>3
  <2>6. \A i \in Positions :
          /\ i < w.head => w.buf[i] = m - w.head + 1 + i
          /\ i >= w.head /\ m >= Capacity => w.buf[i] = m - Capacity - w.head + 1 + i
    BY <2>2, <2>4
  <2> QED BY <1>0, <2>2, <2>3, <2>5, <2>6 DEF RingOf
<1>2. CASE len < Capacity
  <2>1. w = [buf |-> [i \in Positions |->
                        LET back == (i - h) % Capacity IN
                        IF back < len THEN n + 1 + back ELSE r.buf[i]],
             head |-> (h + len) % Capacity,
             filled |-> Min({r.filled + len, Capacity})]
    BY <1>0, <1>2 DEF Written, Positions
  <2>2. w.head = IF h + len < Capacity THEN h + len ELSE h + len - Capacity
    <3>1. w.head = (h + len) % Capacity
      BY <2>1
    <3>2. h + len \in Int /\ 0 <= h + len /\ h + len < 2 * Capacity
      BY <1>0, <1>2
    <3> QED BY <1>0, <3>1, <3>2, Wraps
  <2>3. \A i \in Positions :
          w.buf[i] = IF i < h
                     THEN IF i - h + Capacity < len THEN n + 1 + i - h + Capacity ELSE r.buf[i]
                     ELSE IF i - h < len THEN n + 1 + i - h ELSE r.buf[i]
    <3> TAKE i \in Positions
    <3>1. w.buf[i] = LET back == (i - h) % Capacity IN
                     IF back < len THEN n + 1 + back ELSE r.buf[i]
      BY <2>1
    <3>2. i - h \in Int /\ -Capacity <= i - h /\ i - h < Capacity /\ i - h < 2 * Capacity
      BY <1>0 DEF Positions
    <3>3. (i - h) % Capacity = IF i < h THEN i - h + Capacity ELSE i - h
      <4>1. (i - h) % Capacity = IF i - h < 0 THEN i - h + Capacity ELSE i - h
        BY <3>2, Wraps
      <4> QED BY <1>0, <4>1 DEF Positions
    <3>4. n + 1 + (i - h + Capacity) = n + 1 + i - h + Capacity /\ n + 1 + (i - h) = n + 1 + i - h
      BY <1>0 DEF Positions
    <3> QED BY <3>1, <3>3, <3>4
  <2>4. w.filled = IF m < Capacity THEN m ELSE Capacity
    <3>1. w.filled = Min({r.filled + len, Capacity})
      BY <2>1
    <3>2. r.filled = IF n < Capacity THEN n ELSE Capacity
      BY DEF RingOf
    <3>3. r.filled + len \in Int
      BY <1>0, <3>2
    <3> QED BY <1>0, <1>2, <3>1, <3>2, <3>3, MinOfTwo
  <2>5. DOMAIN w.buf = Positions
    BY <2>1
  <2>6. \A i \in Positions :
          /\ i < w.head => w.buf[i] = m - w.head + 1 + i
          /\ i >= w.head /\ m >= Capacity => w.buf[i] = m - Capacity - w.head + 1 + i
    <3> TAKE i \in Positions
    <3>1. /\ i < h => r.buf[i] = n - h + 1 + i
          /\ i >= h /\ n >= Capacity => r.buf[i] = n - Capacity - h + 1 + i
          /\ n < Capacity => h = n
      BY DEF RingOf
    <3>2. i \in Nat /\ i < Capacity
      BY <1>0 DEF Positions
    <3>3. CASE h + len < Capacity
      BY <1>0, <1>2, <2>2, <2>3, <3>1, <3>2, <3>3
    <3>4. CASE h + len >= Capacity
      BY <1>0, <1>2, <2>2, <2>3, <3>1, <3>2, <3>4
    <3> QED BY <1>0, <3>3, <3>4
  <2>7. w.head \in Positions /\ (m < Capacity => w.head = m)
    <3>1. n < Capacity => h = n
      BY DEF RingOf
    <3>2. w.head \in Nat /\ w.head < Capacity
      BY <1>0, <1>2, <2>2
    <3>3. m < Capacity => w.head = m
      BY <1>0, <1>2, <2>2, <3>1
    <3> QED BY <1>0, <3>2, <3>3 DEF Positions
  <2> QED BY <1>0, <2>4, <2>5, <2>6, <2>7 DEF RingOf
<1> QED BY <1>0, <1>1, <1>2

(* And the snapshot of such a ring is the end of the output, in order.     *)
LEMMA SnapshotIsTail ==
    ASSUME NEW r, NEW n \in Nat, RingOf(r, n)
    PROVE  Snapshot(r) = LET l == Min({n, Capacity}) IN [i \in 1 .. l |-> n - l + i]
<1> PICK h \in Positions : h = r.head
  BY DEF RingOf
<1>0. Capacity \in Nat /\ Capacity > 0 /\ h \in Nat /\ h < Capacity
  BY SidecarAssumption DEF Positions
<1>1. Min({n, Capacity}) = IF n < Capacity THEN n ELSE Capacity
  BY <1>0, MinOfTwo
<1>2. CASE n < Capacity
  <2>1. Snapshot(r) = [i \in 1 .. n |-> r.buf[i - 1]]
    BY <1>2 DEF Snapshot, RingOf
  <2>2. ASSUME NEW i \in 1 .. n PROVE r.buf[i - 1] = n - n + i
    <3>1. i - 1 \in Positions /\ i - 1 < n
      BY <1>0, <1>2 DEF Positions
    <3>2. r.buf[i - 1] = n - n + 1 + (i - 1)
      BY <1>2, <3>1 DEF RingOf
    <3> QED BY <3>2
  <2>3. Snapshot(r) = [i \in 1 .. n |-> n - n + i]
    BY <2>1, <2>2
  <2> QED BY <1>1, <1>2, <2>3
<1>3. CASE n >= Capacity
  <2>1. Snapshot(r) = [i \in 1 .. Capacity |-> r.buf[(h + i - 1) % Capacity]]
    BY <1>0, <1>3 DEF Snapshot, RingOf
  <2>2. ASSUME NEW i \in 1 .. Capacity
        PROVE  r.buf[(h + i - 1) % Capacity] = n - Capacity + i
    <3>1. (h + i - 1) % Capacity = IF h + i - 1 < Capacity THEN h + i - 1 ELSE h + i - 1 - Capacity
      <4>1. h + i - 1 \in Int /\ 0 <= h + i - 1 /\ h + i - 1 < 2 * Capacity
        BY <1>0
      <4> QED BY <1>0, <4>1, Wraps
    <3>2. CASE h + i - 1 < Capacity
      <4>1. h + i - 1 \in Positions /\ h + i - 1 >= h
        BY <1>0, <3>2 DEF Positions
      <4>2. r.buf[h + i - 1] = n - Capacity - h + 1 + (h + i - 1)
        BY <1>3, <4>1 DEF RingOf
      <4> QED BY <1>0, <3>1, <3>2, <4>2
    <3>3. CASE h + i - 1 >= Capacity
      <4>1. h + i - 1 - Capacity \in Positions /\ h + i - 1 - Capacity < h
        BY <1>0, <3>3 DEF Positions
      <4>2. r.buf[h + i - 1 - Capacity] = n - h + 1 + (h + i - 1 - Capacity)
        BY <4>1 DEF RingOf
      <4> QED BY <1>0, <3>1, <3>3, <4>2
    <3> QED BY <1>0, <3>2, <3>3
  <2>3. Snapshot(r) = [i \in 1 .. Capacity |-> n - Capacity + i]
    BY <2>1, <2>2
  <2>4. Min({n, Capacity}) = Capacity
    BY <1>0, <1>1, <1>3
  <2> QED BY <2>3, <2>4
<1>4. n < Capacity \/ n >= Capacity
  BY <1>0
<1> QED BY <1>2, <1>3, <1>4

-----------------------------------------------------------------------------
(* Only output changes the ring. *)

RingInv == total \in 0 .. MaxOutput /\ RingOf(ring, total)

LEMMA RingStart == Init => RingInv
BY SidecarAssumption DEF Init, RingInv, RingOf, Positions

LEMMA RingStep == RingInv /\ [Next]_vars => RingInv'
<1> SUFFICES ASSUME RingInv, [Next]_vars PROVE RingInv'
  OBVIOUS
<1>1. CASE \E len \in 1 .. MaxOutput : Output(len)
  <2> PICK len \in 1 .. MaxOutput : Output(len) BY <1>1
  <2>1. /\ ring' = Written(ring, total + 1, len) /\ total' = total + len
        /\ total + len <= MaxOutput
    BY DEF Output
  <2>2. total \in Nat /\ len \in Nat \ {0} /\ total + len \in 0 .. MaxOutput
    BY <2>1, SidecarAssumption DEF RingInv
  <2>3. RingOf(ring', total')
    BY <2>1, <2>2, ChunkKept DEF RingInv
  <2> QED BY <2>1, <2>2, <2>3 DEF RingInv
<1>2. CASE UNCHANGED streamVars
  BY <1>2 DEF RingInv, streamVars
<1>3. [Next]_vars => UNCHANGED streamVars \/ \E len \in 1 .. MaxOutput : Output(len)
  BY DEF Next, vars, Exits, Server, Front, Crash, HandleCreate, HandleReconnect, HandleKill, Accept,
     Hangup, CreateSession, ReconnectSession, KillSession, TimedOut, Renewed, Connected, Linked, Replied
<1> QED BY <1>1, <1>2, <1>3

LEMMA RingInvariant == Spec => []RingInv
BY RingStart, RingStep, PTL DEF Spec

(* For every capacity and every sequence of chunks, the scrollback is the  *)
(* end of the output, in order.                                            *)
THEOREM RingKeepsTail == Spec => []RingHoldsTail
<1>1. RingInv => RingHoldsTail
  <2> SUFFICES ASSUME RingInv PROVE RingHoldsTail
    OBVIOUS
  <2>1. total \in Nat /\ RingOf(ring, total)
    BY SidecarAssumption DEF RingInv
  <2>2. Snapshot(ring) = LET l == Min({total, Capacity}) IN [i \in 1 .. l |-> total - l + i]
    BY <2>1, SnapshotIsTail
  <2> QED BY <2>2 DEF RingHoldsTail
<1> QED BY <1>1, RingInvariant, PTL

-----------------------------------------------------------------------------
(* The types, the messages of the two ends among them.                     *)
SidecarTyped == SidecarTypeOK /\ RingInv

LEMMA TypesStart == Init => SidecarTyped
<1> SUFFICES ASSUME Init PROVE SidecarTyped
  OBVIOUS
<1>1. RingInv
  BY RingStart
<1>2. /\ DOMAIN ring.buf = 0 .. Capacity - 1 /\ ring.head \in 0 .. Capacity - 1
      /\ ring.filled \in 0 .. Capacity /\ total \in 0 .. MaxOutput
  BY SidecarAssumption DEF Init
<1>3. backlog \in Seq(Calls) /\ joining \in Seq(Calls) /\ ctl \in Seq([op : Ops, k : Calls]) /\ rsp \in Seq(Replies)
  BY DEF Init
<1>4. call \in [Calls -> [op : Ops \cup {"none"}, at : Stages]]
  BY DEF Init, Idle, Stages
<1> QED BY <1>1, <1>2, <1>3, <1>4 DEF Init, SidecarTyped, SidecarTypeOK, NotQueuing

(* What is left of the requests when the control connection is replaced.  *)
LEMMA Beginning ==
    ASSUME NEW T, NEW q \in Seq(T), NEW n \in 0 .. Len(q)
    PROVE  /\ SubSeq(q, 1, n) \in Seq(T)
           /\ DOMAIN SubSeq(q, 1, n) \subseteq DOMAIN q
           /\ \A i \in DOMAIN SubSeq(q, 1, n) : SubSeq(q, 1, n)[i] = q[i]
<1>0. Len(q) \in Nat /\ DOMAIN q = 1 .. Len(q) /\ n \in Nat /\ \A i \in 1 .. Len(q) : q[i] \in T
  BY LenProperties, ElementOfSeq
<1>1. /\ SubSeq(q, 1, n) \in Seq(T) /\ Len(SubSeq(q, 1, n)) = n
      /\ \A i \in 1 .. n : SubSeq(q, 1, n)[i] = q[i]
  BY <1>0, SubSeqProperties
<1>2. DOMAIN SubSeq(q, 1, n) = 1 .. n
  BY <1>1, LenProperties
<1> QED BY <1>0, <1>1, <1>2

LEMMA GivenUpTypes ==
    ASSUME SidecarTypeOK, NEW S \in SUBSET Calls, GivenUp(S)
    PROVE  call' \in [Calls -> [op : Ops \cup {"none"}, at : Stages]] /\ ids' \in BOOLEAN
BY DEF GivenUp, SidecarTypeOK, Stages

LEMMA ProcessTypes ==
    ASSUME SidecarTyped, RingInv', Exits \/ Crash \/ \E len \in 1 .. MaxOutput : Output(len)
    PROVE  SidecarTypeOK'
<1> USE SidecarAssumption
<1>0. DOMAIN ring'.buf = 0 .. Capacity - 1 /\ ring'.head \in 0 .. Capacity - 1
      /\ ring'.filled \in 0 .. Capacity /\ total' \in 0 .. MaxOutput
  BY DEF RingInv, RingOf, Positions
<1>1. CASE Exits
  <2>1. rsp' \in Seq(Replies)
    BY <1>1 DEF Exits, SidecarTyped, SidecarTypeOK, Replies
  <2> QED BY <1>0, <1>1, <2>1 DEF Exits, SidecarTyped, SidecarTypeOK, linkVars, frontVars, history
<1>2. CASE Crash
  <2>1. call' \in [Calls -> [op : Ops \cup {"none"}, at : Stages]] /\ ids' \in BOOLEAN
    BY <1>2, GivenUpTypes DEF Crash, SidecarTyped
  <2>2. backlog' \in Seq(Calls) /\ ctl' \in Seq([op : Ops, k : Calls]) /\ rsp' \in Seq(Replies)
    BY <1>2 DEF Crash
  <2> QED BY <1>0, <1>2, <2>1, <2>2 DEF Crash, SidecarTyped, SidecarTypeOK, history
<1>3. CASE \E len \in 1 .. MaxOutput : Output(len)
  <2> PICK len \in 1 .. MaxOutput : Output(len) BY <1>3
  <2>1. total + 1 .. total + len \subseteq 1 .. MaxOutput
    BY DEF Output, SidecarTyped, RingInv
  <2>2. queue' \in (SUBSET (1 .. MaxOutput)) \cup {{None}}
    BY <2>1 DEF Output, SidecarTyped, SidecarTypeOK, NotQueuing
  <2>3. seen' \in SUBSET (1 .. MaxOutput)
    BY <2>1 DEF Output, SidecarTyped, SidecarTypeOK
  <2> QED BY <1>0, <2>2, <2>3 DEF Output, SidecarTyped, SidecarTypeOK, frontVars, history
<1> QED BY <1>1, <1>2, <1>3

(* The scrollback, as a set of units. *)
LEMMA ScrollbackIsTail ==
    ASSUME RingInv
    PROVE  /\ total \in Nat /\ total <= MaxOutput
           /\ Units(Snapshot(ring)) =
                 (IF total <= Capacity THEN 1 ELSE total - Capacity + 1) .. total
<1>1. total \in Nat /\ total <= MaxOutput /\ Capacity \in Nat /\ Capacity > 0
  BY SidecarAssumption DEF RingInv
<1>2. Snapshot(ring) = LET l == Min({total, Capacity}) IN [i \in 1 .. l |-> total - l + i]
  BY <1>1, SnapshotIsTail DEF RingInv
<1>3. PICK l \in Nat : l = Min({total, Capacity}) /\ l = IF total <= Capacity THEN total ELSE Capacity
  BY <1>1, MinOfTwo
<1>4. Snapshot(ring) = [i \in 1 .. l |-> total - l + i]
  BY <1>2, <1>3
<1>5. Units(Snapshot(ring)) = {total - l + i : i \in 1 .. l}
  BY <1>4 DEF Units
<1>6. {total - l + i : i \in 1 .. l} = total - l + 1 .. total
  <2>1. ASSUME NEW n \in total - l + 1 .. total
        PROVE  n \in {total - l + i : i \in 1 .. l}
    <3>1. n - (total - l) \in 1 .. l /\ n = total - l + (n - (total - l))
      BY <1>1, <1>3
    <3> QED BY <3>1
  <2> QED BY <1>1, <1>3, <2>1
<1>7. total - l + 1 = IF total <= Capacity THEN 1 ELSE total - Capacity + 1
  BY <1>1, <1>3
<1> QED BY <1>1, <1>5, <1>6, <1>7

LEMMA ServerTypes ==
    ASSUME SidecarTyped, RingInv', Server
    PROVE  SidecarTypeOK'
<1> USE SidecarAssumption DEF SidecarTyped
<1>0. DOMAIN ring'.buf = 0 .. Capacity - 1 /\ ring'.head \in 0 .. Capacity - 1
      /\ ring'.filled \in 0 .. Capacity /\ total' \in 0 .. MaxOutput
  BY DEF RingInv, RingOf, Positions
<1>1. ASSUME ctl # <<>>
      PROVE  /\ Head(ctl) \in [op : Ops, k : Calls] /\ Tail(ctl) \in Seq([op : Ops, k : Calls])
             /\ \A ok \in BOOLEAN :
                   Append(rsp, [op |-> Head(ctl).op, k |-> Head(ctl).k, ok |-> ok]) \in Seq(Replies)
  <2>1. Head(ctl) \in [op : Ops, k : Calls] /\ Tail(ctl) \in Seq([op : Ops, k : Calls])
    BY <1>1, HeadTailProperties DEF SidecarTypeOK
  <2>2. \A ok \in BOOLEAN : [op |-> Head(ctl).op, k |-> Head(ctl).k, ok |-> ok] \in Replies
    BY <2>1 DEF Replies
  <2> QED BY <2>1, <2>2 DEF SidecarTypeOK
<1>2. CASE HandleCreate
  <2>1. ctl' \in Seq([op : Ops, k : Calls]) /\ rsp' \in Seq(Replies)
    BY <1>1, <1>2 DEF HandleCreate, Reply
  <2> QED BY <1>0, <1>2, <2>1 DEF HandleCreate, SidecarTypeOK, linkVars, frontVars, history
<1>3. CASE HandleReconnect
  BY <1>0, <1>1, <1>3 DEF HandleReconnect, Reply, SidecarTypeOK, linkVars, frontVars, history, NotQueuing
<1>4. CASE HandleKill
  BY <1>0, <1>1, <1>4 DEF HandleKill, Reply, SidecarTypeOK, linkVars, frontVars, history
<1>5. CASE Accept
  <2>1. Head(backlog) \in Calls /\ Tail(backlog) \in Seq(Calls)
    BY <1>5 DEF Accept, SidecarTypeOK
  <2>2. Units(Snapshot(ring)) \subseteq 1 .. MaxOutput
    BY ScrollbackIsTail
  <2>3. CASE listed
    <3>1. queue' = NotQueuing /\ client' = Head(backlog) /\ attached' = TRUE
      BY <1>5, <2>3 DEF Accept
    <3>2. PICK sent : seen' = sent /\ sent \in SUBSET (1 .. MaxOutput)
      <4>1. queue # NotQueuing => queue \in SUBSET (1 .. MaxOutput)
        BY DEF SidecarTypeOK, NotQueuing
      <4>2. PICK sent : /\ seen' = sent
                        /\ sent = IF queue # NotQueuing THEN Units(Snapshot(ring)) \cup queue
                                  ELSE IF ~attached THEN Units(Snapshot(ring)) ELSE {}
        BY <1>5, <2>3 DEF Accept
      <4> QED BY <2>2, <4>1, <4>2
    <3> QED BY <1>0, <1>5, <2>1, <3>1, <3>2 DEF Accept, SidecarTypeOK, frontVars, history, NotQueuing
  <2>4. CASE ~listed
    BY <1>0, <1>5, <2>1, <2>4 DEF Accept, SidecarTypeOK, frontVars, history
  <2> QED BY <2>3, <2>4
<1>6. CASE \E k \in Calls : Hangup(k)
  BY <1>0, <1>6 DEF Hangup, SidecarTypeOK, frontVars, history
<1> QED BY <1>2, <1>3, <1>4, <1>5, <1>6 DEF Server

LEMMA FrontTypes ==
    ASSUME SidecarTyped, RingInv', Front
    PROVE  SidecarTypeOK'
<1> USE SidecarAssumption DEF SidecarTyped
<1>0. DOMAIN ring'.buf = 0 .. Capacity - 1 /\ ring'.head \in 0 .. Capacity - 1
      /\ ring'.filled \in 0 .. Capacity /\ total' \in 0 .. MaxOutput
  BY DEF RingInv, RingOf, Positions
<1>1. Destroyed \in SUBSET Calls
  BY DEF Destroyed, SidecarTypeOK
<1>2. ASSUME NEW k \in Calls, NEW op \in Ops, Asked(k, op)
      PROVE  /\ call' \in [Calls -> [op : Ops \cup {"none"}, at : Stages]]
             /\ ctl' \in Seq([op : Ops, k : Calls]) /\ up' \in {up, up'}
  BY <1>2 DEF Asked, SidecarTypeOK, Stages
<1>3. CASE \E k \in Calls : CreateSession(k)
  BY <1>0, <1>2, <1>3 DEF CreateSession, SidecarTypeOK, serverVars, history, linkVars, Ops
<1>4. CASE \E k \in Calls : ReconnectSession(k)
  BY <1>0, <1>2, <1>4 DEF ReconnectSession, SidecarTypeOK, serverVars, history, linkVars, Ops
<1>5. CASE \E k \in Calls : KillSession(k)
  BY <1>0, <1>1, <1>2, <1>5 DEF KillSession, SidecarTypeOK, serverVars, history, Ops
<1>6. CASE \E k \in Calls : Connected(k)
  <2> PICK k \in Calls : Connected(k) BY <1>6
  <2>1. call' \in [Calls -> [op : Ops \cup {"none"}, at : Stages]]
    <3>1. call \in [Calls -> [op : Ops \cup {"none"}, at : Stages]]
      BY DEF SidecarTypeOK
    <3>2. \E phase \in {"joining", "given_up"} : call' = [call EXCEPT ![k].at = phase]
      BY DEF Connected
    <3> QED BY <3>1, <3>2 DEF Stages
  <2>2. backlog' \in Seq(Calls) /\ joining' \in Seq(Calls)
    <3>1. backlog' \in Seq(Calls)
      <4>1. backlog \in Seq(Calls) /\ (backlog' = Append(backlog, k) \/ backlog' = backlog)
        BY DEF Connected, SidecarTypeOK
      <4> QED BY <4>1
    <3>2. joining' \in Seq(Calls)
      <4>1. joining \in Seq(Calls) /\ (joining' = Append(joining, k) \/ joining' = joining)
        BY DEF Connected, SidecarTypeOK
      <4> QED BY <4>1
    <3> QED BY <3>1, <3>2
  <2> QED BY <1>0, <2>1, <2>2 DEF Connected, SidecarTypeOK, serverVars, history
<1>7. CASE Linked
  <2>1. Head(joining) \in Calls /\ joining' \in Seq(Calls)
    BY <1>7, HeadTailProperties DEF Linked, SidecarTypeOK
  <2>2. call' \in [Calls -> [op : Ops \cup {"none"}, at : Stages]]
    BY <1>7, <2>1 DEF Linked, SidecarTypeOK, Stages
  <2>3. sock' \in Calls \cup {None} /\ hungup' \in SUBSET Calls /\ ids' \in BOOLEAN
    BY <1>1, <1>7, <2>1 DEF Linked
  <2> QED BY <1>0, <1>7, <2>1, <2>2, <2>3 DEF Linked, SidecarTypeOK, serverVars, history
<1>8. CASE Replied
  <2>1. Head(rsp) \in Replies /\ rsp' \in Seq(Replies)
    BY <1>8, HeadTailProperties DEF Replied, SidecarTypeOK
  <2>2. call' \in [Calls -> [op : Ops \cup {"none"}, at : Stages]]
    <3>1. call \in [Calls -> [op : Ops \cup {"none"}, at : Stages]]
      BY DEF SidecarTypeOK
    <3>2. \/ call' = call
          \/ /\ Head(rsp).op \in Ops
             /\ \E phase \in {"linking", "done", "refused"} : call' = [call EXCEPT ![Head(rsp).k].at = phase]
      BY <1>8 DEF Replied, Ops
    <3>3. Head(rsp).op \in Ops => Head(rsp).k \in Calls
      BY <2>1 DEF Replies, Ops
    <3> QED BY <3>1, <3>2, <3>3 DEF Stages
  <2>3. sock' \in Calls \cup {None} /\ hungup' \in SUBSET Calls /\ ids' \in BOOLEAN
        /\ reported' \in BOOLEAN
    BY <1>1, <1>8 DEF Replied, SidecarTypeOK
  <2> QED BY <1>0, <1>8, <2>1, <2>2, <2>3 DEF Replied, SidecarTypeOK, serverVars, history
<1>9. CASE \E k \in Calls : TimedOut(k)
  <2> PICK k \in Calls : TimedOut(k) BY <1>9
  <2>1. call' \in [Calls -> [op : Ops \cup {"none"}, at : Stages]] /\ ids' \in BOOLEAN
    BY GivenUpTypes DEF TimedOut
  <2> QED BY <1>0, <2>1 DEF TimedOut, SidecarTypeOK, serverVars, linkVars, history
<1>10. CASE Renewed
  <2>1. call' \in [Calls -> [op : Ops \cup {"none"}, at : Stages]] /\ ids' \in BOOLEAN
    BY <1>10, GivenUpTypes DEF Renewed
  <2>2. ctl' \in Seq([op : Ops, k : Calls]) /\ rsp' \in Seq(Replies) /\ lost' \in BOOLEAN
    <3>1. PICK n \in 0 .. Len(ctl) : ctl' = SubSeq(ctl, 1, n)
      BY <1>10 DEF Renewed
    <3>2. PICK T : T = [op : Ops, k : Calls] /\ ctl \in Seq(T)
      BY DEF SidecarTypeOK
    <3>3. SubSeq(ctl, 1, n) \in Seq(T)
      BY <3>1, <3>2, Beginning
    <3> QED BY <1>10, <3>1, <3>2, <3>3 DEF Renewed, SidecarTypeOK
  <2> QED BY <1>0, <1>10, <2>1, <2>2 DEF Renewed, SidecarTypeOK, serverVars, linkVars
<1> QED BY <1>3, <1>4, <1>5, <1>6, <1>7, <1>8, <1>9, <1>10 DEF Front

LEMMA TypesStep == SidecarTyped /\ [Next]_vars => SidecarTyped'
<1> SUFFICES ASSUME SidecarTyped, [Next]_vars PROVE SidecarTyped'
  OBVIOUS
<1>1. RingInv'
  BY RingStep DEF SidecarTyped
<1>2. CASE UNCHANGED vars
  BY <1>2 DEF vars, streamVars, serverVars, linkVars, frontVars, history, SidecarTyped, SidecarTypeOK, RingInv
<1> QED BY <1>1, <1>2, ProcessTypes, ServerTypes, FrontTypes DEF Next, SidecarTyped

LEMMA TypesInvariant == Spec => []SidecarTyped
BY TypesStart, TypesStep, PTL DEF Spec

(* Every variable of the terminal keeps its type.                          *)
THEOREM SidecarTypeCorrect == Spec => []SidecarTypeOK
BY TypesInvariant, PTL DEF SidecarTyped

-----------------------------------------------------------------------------
(* The current client and the queue of a reconnect each have a run of      *)
(* units that ends with the latest; they are never both there.             *)
RunOf(S) == \E first \in 1 .. total + 1 : S = first .. total

ClientInv ==
    /\ SidecarTyped
    /\ queue # NotQueuing => client = None /\ RunOf(queue)
    /\ ClientGapless

LEMMA ClientStart == Init => ClientInv
BY TypesStart DEF Init, ClientInv, ClientGapless

LEMMA OutputExtends ==
    ASSUME total \in Nat, NEW len \in Nat \ {0}, total' = total + len, NEW S, RunOf(S)
    PROVE  \E first \in 1 .. total' + 1 : S \cup (total + 1 .. total + len) = first .. total'
<1> PICK first \in 1 .. total + 1 : S = first .. total
  BY DEF RunOf
<1>1. S \cup (total + 1 .. total + len) = first .. total'
  OBVIOUS
<1> QED BY <1>1

(* What the server sends a new connection. *)
LEMMA SentIsRun ==
    ASSUME ClientInv
    PROVE  /\ RunOf(Units(Snapshot(ring))) /\ RunOf({})
           /\ queue # NotQueuing => RunOf(Units(Snapshot(ring)) \cup queue)
<1>0. Capacity \in Nat /\ Capacity > 0 /\ total \in Nat
  BY SidecarAssumption, ScrollbackIsTail DEF ClientInv, SidecarTyped
<1>1. PICK low \in 1 .. total + 1 : Units(Snapshot(ring)) = low .. total
  <2>1. Units(Snapshot(ring)) = (IF total <= Capacity THEN 1 ELSE total - Capacity + 1) .. total
    BY ScrollbackIsTail DEF ClientInv, SidecarTyped
  <2> QED BY <1>0, <2>1
<1>2. {} = total + 1 .. total /\ total + 1 \in 1 .. total + 1
  BY <1>0
<1>3. ASSUME queue # NotQueuing PROVE RunOf(Units(Snapshot(ring)) \cup queue)
  <2>1. PICK first \in 1 .. total + 1 : queue = first .. total
    BY <1>3 DEF ClientInv, RunOf
  <2>2. (low .. total) \cup (first .. total) = (IF low <= first THEN low ELSE first) .. total
    BY <1>0
  <2> QED BY <1>0, <1>1, <2>1, <2>2 DEF RunOf
<1> QED BY <1>1, <1>2, <1>3 DEF RunOf

LEMMA ClientStep == ClientInv /\ [Next]_vars => ClientInv'
<1> SUFFICES ASSUME ClientInv, [Next]_vars PROVE ClientInv'
  OBVIOUS
<1>0. SidecarTyped'
  BY TypesStep DEF ClientInv
<1>1. CASE \E len \in 1 .. MaxOutput : Output(len)
  <2> PICK len \in 1 .. MaxOutput : Output(len) BY <1>1
  <2>0. total \in Nat /\ len \in Nat \ {0} /\ total' = total + len /\ UNCHANGED client
    BY ScrollbackIsTail, SidecarAssumption DEF Output, ClientInv, SidecarTyped
  <2>1. CASE queue # NotQueuing
    <3>1. client' = None /\ queue' = queue \cup (total + 1 .. total + len) /\ RunOf(queue)
      BY <2>0, <2>1 DEF Output, ClientInv
    <3>2. \E first \in 1 .. total' + 1 : queue' = first .. total'
      BY <2>0, <3>1, OutputExtends
    <3> QED BY <1>0, <3>1, <3>2 DEF ClientInv, ClientGapless, RunOf
  <2>2. CASE queue = NotQueuing
    <3>1. queue' = NotQueuing
      BY <2>2 DEF Output
    <3>2. ASSUME client # None
          PROVE  \E first \in 1 .. total' + 1 : seen' = first .. total'
      <4>1. RunOf(seen)
        BY <3>2 DEF ClientInv, ClientGapless, RunOf
      <4>2. seen' = seen \cup (total + 1 .. total + len)
        BY <2>2, <3>2 DEF Output
      <4> QED BY <2>0, <4>1, <4>2, OutputExtends
    <3> QED BY <1>0, <2>0, <3>1, <3>2 DEF ClientInv, ClientGapless, NotQueuing
  <2> QED BY <2>1, <2>2
<1>2. CASE Accept /\ listed
  <2> DEFINE k == Head(backlog)
  <2>1. k \in Calls /\ client' = k /\ queue' = NotQueuing /\ UNCHANGED total
    BY <1>2, HeadTailProperties DEF Accept, ClientInv, SidecarTyped, SidecarTypeOK, streamVars
  <2>2. RunOf(seen')
    BY <1>2, SentIsRun DEF Accept
  <2> QED BY <1>0, <2>1, <2>2 DEF ClientInv, ClientGapless, RunOf, NotQueuing
<1>3. CASE HandleReconnect
  <2>1. UNCHANGED <<total, seen>> /\ total \in Nat
    BY <1>3, ScrollbackIsTail DEF HandleReconnect, streamVars, linkVars, ClientInv, SidecarTyped
  <2>2. CASE UNCHANGED <<queue, client>>
    BY <1>0, <2>1, <2>2 DEF ClientInv, ClientGapless, RunOf, NotQueuing
  <2>3. CASE queue' = NotQueuing /\ UNCHANGED client
    BY <1>0, <2>1, <2>3 DEF ClientInv, ClientGapless, RunOf, NotQueuing
  <2>4. CASE queue' = {} /\ client' = None
    <3>1. {} = total' + 1 .. total' /\ total' + 1 \in 1 .. total' + 1
      BY <2>1
    <3> QED BY <1>0, <2>4, <3>1 DEF ClientInv, ClientGapless, RunOf, NotQueuing
  <2> QED BY <1>3, <2>2, <2>3, <2>4 DEF HandleReconnect
<1>4. CASE UNCHANGED <<queue, total, seen>> /\ client' \in {client, None}
  BY <1>0, <1>4 DEF ClientInv, ClientGapless, RunOf, NotQueuing
<1>5. \/ \E len \in 1 .. MaxOutput : Output(len)
      \/ Accept /\ listed
      \/ HandleReconnect
      \/ UNCHANGED <<queue, total, seen>> /\ client' \in {client, None}
  <2>1. CASE Exits \/ Crash
    BY <2>1 DEF Exits, Crash, streamVars, linkVars
  <2>2. CASE Server
    BY <2>2 DEF Server, HandleCreate, HandleReconnect, HandleKill, Accept, Hangup, streamVars, linkVars
  <2>3. CASE Front
    BY <2>3 DEF Front, CreateSession, ReconnectSession, KillSession, TimedOut, Renewed, Connected, Linked, Replied, streamVars,
       linkVars, serverVars
  <2>4. CASE UNCHANGED vars
    BY <2>4 DEF vars, streamVars, linkVars, serverVars
  <2> QED BY <2>1, <2>2, <2>3, <2>4 DEF Next
<1> QED BY <1>1, <1>2, <1>3, <1>4, <1>5

LEMMA ClientInvariant == Spec => []ClientInv
BY ClientStart, ClientStep, PTL DEF Spec

(* Through any number of overlapping reconnects and replaced clients, the  *)
(* current client has every unit from the first it was sent.               *)
THEOREM ClientHasNoGap == Spec => []ClientGapless
BY ClientInvariant, PTL DEF ClientInv

(* The connection that follows a reconnect, and the first, are sent all of *)
(* the scrollback.                                                         *)
THEOREM ScrollbackSent == Spec => ScrollbackReplayed
<1>1. ClientInv /\ [Next]_vars =>
        [client' # client /\ client' # None /\ (queue # NotQueuing \/ ~attached) =>
            {n \in 1 .. total : n > total - Capacity} \subseteq seen']_vars
  <2> SUFFICES ASSUME ClientInv, [Next]_vars, client' # client, client' # None,
                      queue # NotQueuing \/ ~attached
               PROVE  {n \in 1 .. total : n > total - Capacity} \subseteq seen'
    OBVIOUS
  <2>1. Accept /\ listed
    <3>1. ~Exits /\ ~Crash /\ ~Front /\ ~(UNCHANGED vars)
      BY DEF Exits, Crash, Front, CreateSession, ReconnectSession, KillSession, TimedOut, Renewed, Connected,
         Linked, Replied, serverVars, vars
    <3>2. Server
      BY <3>1 DEF Next, Output
    <3> QED BY <3>2 DEF Server, HandleCreate, HandleReconnect, HandleKill, Accept, Hangup
  <2>2. Head(backlog) \in Calls /\ client' = Head(backlog)
    BY <2>1, HeadTailProperties DEF Accept, ClientInv, SidecarTyped, SidecarTypeOK
  <2>3. Units(Snapshot(ring)) \subseteq seen'
    BY <2>1 DEF Accept
  <2>4. total \in Nat /\ Units(Snapshot(ring)) =
           (IF total <= Capacity THEN 1 ELSE total - Capacity + 1) .. total
    BY ScrollbackIsTail DEF ClientInv, SidecarTyped
  <2>5. {n \in 1 .. total : n > total - Capacity} \subseteq Units(Snapshot(ring))
    BY <2>4, SidecarAssumption
  <2> QED BY <2>3, <2>5
<1> QED BY <1>1, ClientInvariant, PTL DEF Spec, ScrollbackReplayed

-----------------------------------------------------------------------------
(* The two ends of the connections.  Both take the connections up in the   *)
(* order in which they were made, so the last one made is the last one of  *)
(* the server's backlog, or its client, and the last the front end has     *)
(* still to join, or its socket; unless a kill dropped it, or the last     *)
(* reconnect the server carried out took the server's client away and its  *)
(* caller has not connected, or never will because it gave up.  A call has *)
(* at most one message on the control connection, which keeps the stages of*)
(* the calls true; the create succeeds before any other call is made; and  *)
(* while the session is listed neither an exit nor a kill was answered.    *)
LastOf(q) == q[Len(q)]
KeysOnce(q) == \A i, j \in DOMAIN q : q[i].k = q[j].k /\ q[i].k # None => i = j

Pending(m) == call[m.k].op = m.op /\ call[m.k].at \in {"asked", "given_up"}
Messages ==
    /\ \A m \in Units(ctl) : Pending(m)
    /\ \A m \in Units(rsp) : m.op # "exited" => Pending(m)
    /\ KeysOnce(ctl) /\ KeysOnce(rsp)
    /\ \A m \in Units(ctl), r \in Units(rsp) : m.k # r.k

CreateFirst ==
    \A k \in Calls : call[k].op = "create" /\ call[k].at # "done" =>
        \A j \in Calls \ {k} : call[j] = Idle

Connections ==
    /\ \A k \in Units(joining) : call[k].at = "joining"
    /\ \A i, j \in DOMAIN joining : joining[i] = joining[j] => i = j
    /\ \A k \in Units(backlog) : call[k].at \in {"joining", "done"}
    /\ client # None => call[client].at \in {"joining", "done"}
    /\ \A k \in hungup : call[k].at = "done"
    /\ sock # None => call[sock].at = "done"
    /\ ids => \E k \in Calls : call[k].at = "done"

ExitSent == \E m \in Units(rsp) : m.op = "exited"
Lifetime ==
    /\ proc # "none" => \E k \in Calls : call[k].op = "create" /\ \A m \in Units(ctl) : m.k # k
    /\ listed \/ ExitSent => proc # "none"
    /\ proc = "gone" => reported \/ lost \/ ExitSent
    /\ listed => \A m \in Units(rsp) : m.op \notin {"kill", "exited"}

Latest == IF joining = <<>> THEN sock ELSE LastOf(joining)
Killing == \E k \in Calls : call[k].op = "kill" /\ call[k].at = "asked"
Opening ==
    /\ latest # None
    /\ \/ call[latest].at \in {"linking", "given_up"}
       \/ [op |-> "reconnect", k |-> latest, ok |-> TRUE] \in Units(rsp)
Dropped(c) == Latest = None /\ c \in hungup
Agreed ==
    listed =>
        /\ sock \notin hungup
        /\ ids /\ sock = None => Killing
        /\ backlog # <<>> => LastOf(backlog) = Latest \/ Dropped(LastOf(backlog))
        /\ backlog = <<>> => client = Latest \/ Dropped(client) \/ (client = None /\ Opening)

Links == Messages /\ CreateFirst /\ Connections /\ Lifetime /\ Agreed
LinkInv == SidecarTyped /\ (up => Links)

-----------------------------------------------------------------------------
(* Sequences: what is in one that grows at the end or loses its head.      *)

LEMMA Appended ==
    ASSUME NEW T, NEW q \in Seq(T), NEW x \in T
    PROVE  /\ Append(q, x) \in Seq(T) /\ Append(q, x) # <<>>
           /\ Units(Append(q, x)) = Units(q) \cup {x}
           /\ LastOf(Append(q, x)) = x
<1>1. /\ Append(q, x) \in Seq(T) /\ Append(q, x) # <<>> /\ Len(Append(q, x)) = Len(q) + 1
      /\ \A i \in 1 .. Len(q) : Append(q, x)[i] = q[i]
      /\ Append(q, x)[Len(q) + 1] = x
  BY AppendProperties
<1>2. Len(q) \in Nat /\ DOMAIN q = 1 .. Len(q) /\ DOMAIN Append(q, x) = 1 .. Len(q) + 1
  BY <1>1, LenProperties
<1>3. Units(Append(q, x)) = Units(q) \cup {x}
  BY <1>1, <1>2 DEF Units
<1> QED BY <1>1, <1>3 DEF LastOf

LEMMA Shifted ==
    ASSUME NEW T, NEW q \in Seq(T), q # <<>>
    PROVE  /\ Head(q) \in T /\ Head(q) = q[1] /\ 1 \in DOMAIN q
           /\ Tail(q) \in Seq(T) /\ Len(q) \in Nat /\ Len(q) > 0 /\ Len(Tail(q)) = Len(q) - 1
           /\ DOMAIN q = 1 .. Len(q) /\ DOMAIN Tail(q) = 1 .. Len(q) - 1
           /\ \A i \in DOMAIN Tail(q) : i \in Nat /\ i > 0 /\ i + 1 \in DOMAIN q /\ Tail(q)[i] = q[i + 1]
<1>1. /\ Head(q) = q[1] /\ Tail(q) \in Seq(T) /\ Len(Tail(q)) = Len(q) - 1
      /\ \A i \in 1 .. Len(Tail(q)) : Tail(q)[i] = q[i + 1]
  BY HeadTailProperties
<1>2. Len(q) \in Nat /\ Len(q) > 0 /\ DOMAIN q = 1 .. Len(q) /\ DOMAIN Tail(q) = 1 .. Len(Tail(q))
  BY <1>1, LenProperties, EmptySeq
<1>3. q[1] \in T
  BY <1>2, ElementOfSeq
<1> QED BY <1>1, <1>2, <1>3

LEMMA Taken ==
    ASSUME NEW T, NEW q \in Seq(T), q # <<>>
    PROVE  /\ Units(q) = {Head(q)} \cup Units(Tail(q))
           /\ Tail(q) # <<>> => LastOf(Tail(q)) = LastOf(q)
           /\ Tail(q) = <<>> => LastOf(q) = Head(q)
<1>0. /\ Head(q) \in T /\ Head(q) = q[1] /\ 1 \in DOMAIN q
      /\ Tail(q) \in Seq(T) /\ Len(q) \in Nat /\ Len(q) > 0 /\ Len(Tail(q)) = Len(q) - 1
      /\ DOMAIN q = 1 .. Len(q) /\ DOMAIN Tail(q) = 1 .. Len(q) - 1
      /\ \A i \in DOMAIN Tail(q) : i \in Nat /\ i > 0 /\ i + 1 \in DOMAIN q /\ Tail(q)[i] = q[i + 1]
  BY Shifted
<1>1. ASSUME NEW x \in Units(q) PROVE x \in {Head(q)} \cup Units(Tail(q))
  <2> PICK i \in DOMAIN q : x = q[i]
    BY <1>1 DEF Units
  <2>1. CASE i = 1
    BY <1>0, <2>1
  <2>2. CASE i # 1
    <3>1. i - 1 \in DOMAIN Tail(q) /\ (i - 1) + 1 = i
      BY <1>0, <2>2
    <3> QED BY <1>0, <3>1 DEF Units
  <2> QED BY <2>1, <2>2
<1>2. {Head(q)} \cup Units(Tail(q)) \subseteq Units(q)
  BY <1>0 DEF Units
<1>3. Tail(q) # <<>> => LastOf(Tail(q)) = LastOf(q)
  <2> HAVE Tail(q) # <<>>
  <2>1. Len(Tail(q)) \in Nat /\ Len(Tail(q)) > 0
    BY <1>0, LenProperties, EmptySeq
  <2>2. Len(q) - 1 \in DOMAIN Tail(q) /\ (Len(q) - 1) + 1 = Len(q)
    BY <1>0, <2>1
  <2> QED BY <1>0, <2>2 DEF LastOf
<1>4. Tail(q) = <<>> => LastOf(q) = Head(q)
  <2> HAVE Tail(q) = <<>>
  <2>1. Len(Tail(q)) = 0
    BY EmptySeq
  <2>2. Len(q) = 1
    BY <1>0, <2>1
  <2> QED BY <1>0, <2>2 DEF LastOf
<1> QED BY <1>1, <1>2, <1>3, <1>4

LEMMA KeysAppended ==
    ASSUME NEW T, NEW q \in Seq(T), NEW x \in T, KeysOnce(q),
           x.k # None => \A m \in Units(q) : m.k # x.k
    PROVE  KeysOnce(Append(q, x))
<1>1. /\ Append(q, x) \in Seq(T) /\ Len(Append(q, x)) = Len(q) + 1
      /\ \A i \in 1 .. Len(q) : Append(q, x)[i] = q[i]
      /\ Append(q, x)[Len(q) + 1] = x
  BY AppendProperties
<1>2. Len(q) \in Nat /\ DOMAIN q = 1 .. Len(q) /\ DOMAIN Append(q, x) = 1 .. Len(q) + 1
  BY <1>1, LenProperties
<1>3. \A i \in DOMAIN q : q[i] \in Units(q)
  BY DEF Units
<1> SUFFICES ASSUME NEW i \in DOMAIN Append(q, x), NEW j \in DOMAIN Append(q, x),
                    Append(q, x)[i].k = Append(q, x)[j].k, Append(q, x)[i].k # None
             PROVE  i = j
  BY DEF KeysOnce
<1>4. CASE i \in DOMAIN q /\ j \in DOMAIN q
  BY <1>1, <1>2, <1>4 DEF KeysOnce
<1>5. CASE i = Len(q) + 1 \/ j = Len(q) + 1
  BY <1>1, <1>2, <1>3, <1>5
<1> QED BY <1>2, <1>4, <1>5

LEMMA KeysTaken ==
    ASSUME NEW T, NEW q \in Seq(T), q # <<>>, KeysOnce(q)
    PROVE  /\ KeysOnce(Tail(q))
           /\ Head(q).k # None => \A m \in Units(Tail(q)) : m.k # Head(q).k
<1>0. /\ Head(q) = q[1] /\ 1 \in DOMAIN q
      /\ \A i \in DOMAIN Tail(q) : i \in Nat /\ i > 0 /\ i + 1 \in DOMAIN q /\ Tail(q)[i] = q[i + 1]
  BY Shifted
<1>1. KeysOnce(Tail(q))
  <2> SUFFICES ASSUME NEW i \in DOMAIN Tail(q), NEW j \in DOMAIN Tail(q),
                      Tail(q)[i].k = Tail(q)[j].k, Tail(q)[i].k # None
               PROVE  i = j
    BY DEF KeysOnce
  <2>1. i + 1 = j + 1
    BY <1>0 DEF KeysOnce
  <2> QED BY <1>0, <2>1
<1>2. ASSUME Head(q).k # None, NEW m \in Units(Tail(q)), m.k = Head(q).k PROVE FALSE
  <2> PICK i \in DOMAIN Tail(q) : m = Tail(q)[i]
    BY <1>2 DEF Units
  <2>1. i + 1 = 1
    BY <1>0, <1>2 DEF KeysOnce
  <2> QED BY <1>0, <2>1
<1> QED BY <1>1, <1>2

-----------------------------------------------------------------------------
(* What the types say of the ends, and what a message is about.            *)
LEMMA LinkTypes ==
    ASSUME SidecarTyped
    PROVE  /\ call \in [Calls -> [op : Ops \cup {"none"}, at : Stages]]
           /\ ctl \in Seq([op : Ops, k : Calls]) /\ rsp \in Seq(Replies)
           /\ backlog \in Seq(Calls) /\ joining \in Seq(Calls) /\ hungup \in SUBSET Calls
           /\ client \in Calls \cup {None} /\ sock \in Calls \cup {None}
           /\ listed \in BOOLEAN /\ ids \in BOOLEAN /\ reported \in BOOLEAN
           /\ latest \in Calls \cup {None} /\ lost \in BOOLEAN
           /\ None \notin Calls
           /\ Units(backlog) \subseteq Calls /\ Units(joining) \subseteq Calls
           /\ \A m \in Units(ctl) : m \in [op : Ops, k : Calls]
           /\ \A m \in Units(rsp) : m \in Replies
<1>1. /\ call \in [Calls -> [op : Ops \cup {"none"}, at : Stages]]
      /\ ctl \in Seq([op : Ops, k : Calls]) /\ rsp \in Seq(Replies)
      /\ backlog \in Seq(Calls) /\ joining \in Seq(Calls) /\ hungup \in SUBSET Calls
      /\ client \in Calls \cup {None} /\ sock \in Calls \cup {None}
      /\ listed \in BOOLEAN /\ ids \in BOOLEAN /\ reported \in BOOLEAN
      /\ latest \in Calls \cup {None} /\ lost \in BOOLEAN
  BY DEF SidecarTyped, SidecarTypeOK
<1>2. ASSUME NEW T, NEW q \in Seq(T) PROVE \A x \in Units(q) : x \in T
  BY ElementOfSeq, LenProperties DEF Units
<1>3. /\ Units(backlog) \subseteq Calls /\ Units(joining) \subseteq Calls
      /\ \A m \in Units(ctl) : m \in [op : Ops, k : Calls]
      /\ \A m \in Units(rsp) : m \in Replies
  BY <1>1, <1>2
<1> QED BY <1>1, <1>3, SidecarAssumption

(* The server answers the head of the requests.                            *)
Answers(ok) ==
    /\ ctl # <<>> /\ ctl' = Tail(ctl)
    /\ Reply(Head(ctl), ok)

LEMMA AnswerKept ==
    ASSUME SidecarTyped, Messages, call' = call, NEW ok \in BOOLEAN, Answers(ok)
    PROVE  /\ Messages'
           /\ Head(ctl) \in Units(ctl) /\ Head(ctl) \in [op : Ops, k : Calls]
           /\ Units(ctl) = {Head(ctl)} \cup Units(ctl')
           /\ \A m \in Units(ctl') : m.k # Head(ctl).k
           /\ Units(rsp') = Units(rsp) \cup {[op |-> Head(ctl).op, k |-> Head(ctl).k, ok |-> ok]}
<1> PICK m : m = Head(ctl)
  OBVIOUS
<1> PICK r : r = [op |-> m.op, k |-> m.k, ok |-> ok]
  OBVIOUS
<1>0. /\ ctl \in Seq([op : Ops, k : Calls]) /\ rsp \in Seq(Replies) /\ None \notin Calls
      /\ ctl # <<>> /\ ctl' = Tail(ctl) /\ rsp' = Append(rsp, r)
      /\ KeysOnce(ctl) /\ KeysOnce(rsp)
  BY LinkTypes DEF Answers, Reply, Messages
<1>1. Units(ctl) = {m} \cup Units(ctl') /\ m \in [op : Ops, k : Calls]
  BY <1>0, Taken, Shifted
<1>2. r \in Replies /\ r.k = m.k /\ r.op = m.op /\ m.k # None
  BY <1>0, <1>1 DEF Replies
<1>3. KeysOnce(ctl') /\ \A n \in Units(ctl') : n.k # m.k
  BY <1>0, <1>2, KeysTaken
<1>4. \A n \in Units(rsp) : n.k # r.k
  BY <1>1, <1>2 DEF Messages
<1>5. Units(rsp') = Units(rsp) \cup {r} /\ KeysOnce(rsp')
  <2>1. Units(rsp') = Units(rsp) \cup {r}
    BY <1>0, <1>2, Appended
  <2>2. KeysOnce(rsp')
    BY <1>0, <1>2, <1>4, KeysAppended
  <2> QED BY <2>1, <2>2
<1>6. Messages'
  <2>1. \A n \in Units(ctl') : Pending(n)'
    BY <1>1 DEF Messages, Pending
  <2>2. \A n \in Units(rsp') : n.op # "exited" => Pending(n)'
    BY <1>1, <1>2, <1>5 DEF Messages, Pending
  <2>3. \A n \in Units(ctl'), x \in Units(rsp') : n.k # x.k
    BY <1>1, <1>2, <1>3, <1>5 DEF Messages
  <2> QED BY <1>3, <1>5, <2>1, <2>2, <2>3 DEF Messages
<1> QED BY <1>1, <1>3, <1>5, <1>6

LEMMA CreateLinks ==
    ASSUME SidecarTyped, Links, HandleCreate
    PROVE  Links'
<1> USE DEF Links
<1> PICK m : m = Head(ctl)
  OBVIOUS
<1>0. /\ ctl # <<>> /\ m.op = "create"
      /\ UNCHANGED <<client, backlog, hungup, call, joining, sock, ids, reported, latest, lost>>
  BY DEF HandleCreate, linkVars, frontVars, history
<1> PICK ok \in BOOLEAN :
      Answers(ok) /\ IF ok THEN proc' = "up" /\ listed' = TRUE ELSE UNCHANGED <<proc, listed>>
  BY <1>0 DEF HandleCreate, Answers
<1>1. /\ Messages' /\ m \in Units(ctl) /\ m \in [op : Ops, k : Calls]
      /\ Units(ctl) = {m} \cup Units(ctl')
      /\ \A n \in Units(ctl') : n.k # m.k
      /\ Units(rsp') = Units(rsp) \cup {[op |-> m.op, k |-> m.k, ok |-> ok]}
  BY <1>0, AnswerKept
\* nothing has been called, linked or started before
<1>2. /\ call[m.k].op = "create" /\ call[m.k].at \in {"asked", "given_up"}
      /\ \A j \in Calls \ {m.k} : call[j] = Idle
  BY <1>0, <1>1 DEF Messages, Pending, CreateFirst
<1>3. \A j \in Calls : call[j].at \in {"idle", "asked", "given_up"}
  BY <1>2 DEF Idle
<1>4. /\ Units(joining) = {} /\ Units(backlog) = {} /\ client = None /\ sock = None /\ hungup = {} /\ ids = FALSE
  BY <1>3, LinkTypes DEF Connections
<1>5. joining = <<>> /\ backlog = <<>>
  <2>1. joining \in Seq(Calls) /\ backlog \in Seq(Calls)
    BY LinkTypes
  <2>2. joining # <<>> => Units(joining) # {}
    BY <2>1, Taken
  <2>3. backlog # <<>> => Units(backlog) # {}
    BY <2>1, Taken
  <2> QED BY <1>4, <2>2, <2>3
<1>6. proc = "none" /\ ~listed /\ ~ExitSent
  BY <1>1, <1>2 DEF Lifetime, Idle
<1>7. \A n \in Units(rsp) : n.op \notin {"kill", "exited"}
  <2> TAKE n \in Units(rsp)
  <2>1. n.op # "exited"
    BY <1>6 DEF ExitSent
  <2>2. n \in Replies /\ n.k \in Calls
    BY <2>1, LinkTypes DEF Replies
  <2>3. call[n.k].op = n.op
    BY <2>1 DEF Messages, Pending
  <2>4. call[n.k].op # "kill"
    BY <1>2, <2>2 DEF Idle
  <2> QED BY <2>1, <2>3, <2>4
<1>8. CreateFirst' /\ Connections'
  BY <1>0 DEF CreateFirst, Connections
<1>9. Lifetime'
  <2>1. \A k \in Calls : call[k].op # "kill"
    BY <1>2 DEF Idle
  <2>2. \A n \in Units(rsp') : n.op \notin {"kill", "exited"}
    BY <1>0, <1>1, <1>7
  <2> QED BY <1>0, <1>1, <1>2, <1>6, <2>1, <2>2 DEF Lifetime, ExitSent
<1>10. Agreed'
  <2>1. Latest' = None /\ client' = None
    BY <1>0, <1>4, <1>5 DEF Latest
  <2> QED BY <1>0, <1>4, <1>5, <2>1 DEF Agreed
<1> QED BY <1>1, <1>8, <1>9, <1>10

LEMMA ReconnectLinks ==
    ASSUME SidecarTyped, Links, HandleReconnect
    PROVE  Links'
<1> USE DEF Links
<1> PICK m : m = Head(ctl)
  OBVIOUS
<1>0. /\ ctl # <<>> /\ m.op = "reconnect"
      /\ UNCHANGED <<proc, listed, backlog, hungup, call, joining, sock, ids, reported, lost>>
  BY DEF HandleReconnect, linkVars, frontVars
<1>a. \/ Answers(FALSE) /\ client' = client /\ latest' = latest
      \/ Answers(TRUE) /\ client' = None /\ latest' = m.k
  BY DEF HandleReconnect, Answers
<1> PICK ok \in BOOLEAN :
      Answers(ok) /\ IF ok THEN client' = None /\ latest' = m.k ELSE UNCHANGED <<client, latest>>
  <2>1. CASE Answers(FALSE) /\ client' = client /\ latest' = latest
    <3> WITNESS FALSE \in BOOLEAN
    <3> QED BY <2>1
  <2>2. CASE Answers(TRUE) /\ client' = None /\ latest' = m.k
    <3> WITNESS TRUE \in BOOLEAN
    <3> QED BY <2>2
  <2> QED BY <1>a, <2>1, <2>2
<1>1. /\ Messages' /\ m \in Units(ctl) /\ m \in [op : Ops, k : Calls]
      /\ Units(ctl) = {m} \cup Units(ctl')
      /\ \A n \in Units(ctl') : n.k # m.k
      /\ Units(rsp') = Units(rsp) \cup {[op |-> m.op, k |-> m.k, ok |-> ok]}
  BY <1>0, AnswerKept
<1>2. CreateFirst' /\ Connections'
  BY <1>0 DEF CreateFirst, Connections
<1>3. Lifetime'
  <2>0. m.k \in Calls
    BY <1>1
  <2>1. ExitSent' <=> ExitSent
    BY <1>0, <1>1 DEF ExitSent
  <2> QED BY <1>0, <1>1, <2>0, <2>1 DEF Lifetime
<1>4. Agreed'
  <2>1. Latest' = Latest /\ (Killing => Killing') /\ \A c : Dropped(c)' <=> Dropped(c)
    BY <1>0 DEF Latest, Killing, Dropped
  <2>2. IF ok THEN Opening' ELSE Opening => Opening'
    <3>1. m.k # None
      BY <1>1, LinkTypes
    <3> QED BY <1>0, <1>1, <3>1 DEF Opening
  <2> QED BY <1>0, <2>1, <2>2 DEF Agreed
<1> QED BY <1>1, <1>2, <1>3, <1>4

LEMMA KillLinks ==
    ASSUME SidecarTyped, Links, HandleKill
    PROVE  Links'
<1> USE DEF Links
<1> PICK m : m = Head(ctl)
  OBVIOUS
<1>a. Answers(TRUE)
  BY DEF HandleKill, Answers
<1>0. /\ ctl # <<>> /\ m.op = "kill" /\ Answers(TRUE)
      /\ UNCHANGED <<backlog, hungup, call, joining, sock, ids, reported, lost>>
      /\ ~listed' /\ client' \in {client, None}
      /\ (listed /\ proc' = "killed") \/ (~listed /\ proc' = proc)
  BY <1>a DEF HandleKill, linkVars, frontVars, history
<1>1. /\ Messages' /\ m \in Units(ctl) /\ m \in [op : Ops, k : Calls]
      /\ Units(ctl) = {m} \cup Units(ctl')
      /\ Units(rsp') = Units(rsp) \cup {[op |-> m.op, k |-> m.k, ok |-> TRUE]}
  BY <1>0, AnswerKept
<1>2. CreateFirst' /\ Connections'
  BY <1>0 DEF CreateFirst, Connections
<1>3. ExitSent' <=> ExitSent
  BY <1>0, <1>1 DEF ExitSent
<1>4. Lifetime'
  BY <1>0, <1>1, <1>3 DEF Lifetime
<1> QED BY <1>0, <1>1, <1>2, <1>4 DEF Agreed

LEMMA AcceptLinks ==
    ASSUME SidecarTyped, Links, Accept
    PROVE  Links'
<1> USE DEF Links
<1>0. /\ backlog # <<>> /\ backlog' = Tail(backlog) /\ backlog \in Seq(Calls)
      /\ UNCHANGED <<proc, listed, hungup, ctl, rsp, call, joining, sock, ids, reported, latest, lost>>
      /\ IF listed THEN client' = Head(backlog) ELSE client' = client
  BY LinkTypes DEF Accept, frontVars, history
<1>1. /\ Units(backlog) = {Head(backlog)} \cup Units(backlog')
      /\ backlog' # <<>> => LastOf(backlog') = LastOf(backlog)
      /\ backlog' = <<>> => LastOf(backlog) = Head(backlog)
  BY <1>0, Taken
<1>2. Messages' /\ CreateFirst' /\ Connections' /\ Lifetime'
  BY <1>0, <1>1 DEF Messages, Pending, CreateFirst, Connections, Lifetime, ExitSent
<1>3. Latest' = Latest /\ (Killing => Killing') /\ \A c : Dropped(c)' <=> Dropped(c)
  BY <1>0 DEF Latest, Killing, Dropped
<1> QED BY <1>0, <1>1, <1>2, <1>3 DEF Agreed

LEMMA LatestType ==
    ASSUME SidecarTyped, Connections
    PROVE  /\ Latest \in Calls \cup {None}
           /\ joining # <<>> => Latest \in Units(joining) /\ call[Latest].at = "joining"
<1>1. CASE joining = <<>>
  BY <1>1, LinkTypes DEF Latest
<1>2. CASE joining # <<>>
  <2>1. joining \in Seq(Calls) /\ Len(joining) \in DOMAIN joining
    BY <1>2, LinkTypes, Shifted
  <2>2. Latest \in Units(joining)
    BY <1>2, <2>1 DEF Latest, LastOf, Units
  <2> QED BY <2>2, LinkTypes DEF Connections
<1> QED BY <1>1, <1>2

LEMMA HangupLinks ==
    ASSUME SidecarTyped, Links, NEW k \in Calls, Hangup(k)
    PROVE  Links'
<1> USE DEF Links
<1>0. /\ k \in hungup /\ hungup' = hungup \ {k} /\ k \notin Units(backlog)
      /\ client' = IF client = k THEN None ELSE client
      /\ UNCHANGED <<proc, listed, backlog, ctl, rsp, call, joining, sock, ids, reported, latest, lost>>
  BY DEF Hangup, frontVars, history
<1>1. Messages' /\ CreateFirst' /\ Connections' /\ Lifetime'
  BY <1>0 DEF Messages, Pending, CreateFirst, Connections, Lifetime, ExitSent
<1>2. Latest' = Latest /\ (Opening' <=> Opening) /\ (Killing => Killing')
  BY <1>0 DEF Latest, Opening, Killing
<1>3. sock \notin hungup => Latest # k
  <2>1. joining # <<>> => call[Latest].at = "joining"
    BY LatestType
  <2>2. call[k].at = "done"
    BY <1>0 DEF Connections
  <2> QED BY <1>0, <2>1, <2>2 DEF Latest
<1>4. backlog # <<>> => LastOf(backlog) # k
  <2> HAVE backlog # <<>>
  <2>1. backlog \in Seq(Calls) /\ Len(backlog) \in DOMAIN backlog
    BY LinkTypes, Shifted
  <2> QED BY <1>0, <2>1 DEF LastOf, Units
<1>5. Agreed'
  <2> SUFFICES ASSUME listed PROVE Agreed'
    BY <1>0 DEF Agreed
  <2>1. sock' \notin hungup' /\ (ids' /\ sock' = None => Killing')
    BY <1>0, <1>2 DEF Agreed
  <2>2. backlog # <<>> => LastOf(backlog) = Latest' \/ Dropped(LastOf(backlog))'
    BY <1>0, <1>2, <1>4 DEF Agreed, Dropped
  <2>3. backlog = <<>> => client' = Latest' \/ Dropped(client)' \/ (client' = None /\ Opening')
    <3> HAVE backlog = <<>>
    <3>1. CASE client = Latest
      BY <1>0, <1>2, <1>3, <3>1 DEF Agreed
    <3>2. CASE Dropped(client)
      BY <1>0, <1>2, <3>2 DEF Dropped
    <3>3. CASE client = None /\ Opening
      BY <1>0, <1>2, LinkTypes, <3>3
    <3> QED BY <3>1, <3>2, <3>3 DEF Agreed
  <2> QED BY <1>0, <2>1, <2>2, <2>3 DEF Agreed
<1> QED BY <1>1, <1>5

LEMMA ExitLinks ==
    ASSUME SidecarTyped, Links, Exits
    PROVE  Links'
<1> USE DEF Links
<1> PICK r \in Replies : r.k = None /\ r.op = "exited" /\ rsp' = Append(rsp, r)
  <2>1. [op |-> "exited", k |-> None, ok |-> TRUE] \in Replies
    BY DEF Replies
  <2> QED BY <2>1 DEF Exits
<1>0. /\ proc' = "gone" /\ proc # "none" /\ ~listed' /\ client' = None
      /\ UNCHANGED <<backlog, hungup, ctl, call, joining, sock, ids, reported, lost>>
  BY DEF Exits, linkVars, frontVars, history
<1>1. rsp \in Seq(Replies)
  BY LinkTypes
<1>2. Units(rsp') = Units(rsp) \cup {r}
  <2>1. Units(Append(rsp, r)) = Units(rsp) \cup {r}
    BY <1>1, Appended
  <2> QED BY <1>0, <2>1
<1>3. KeysOnce(rsp')
  BY <1>0, <1>1, KeysAppended DEF Messages
<1>4. \A m \in Units(ctl) : m.k # None
  BY LinkTypes
<1>5. Messages'
  BY <1>0, <1>1, <1>2, <1>3, <1>4 DEF Messages, Pending
<1>6. CreateFirst' /\ Connections'
  BY <1>0 DEF CreateFirst, Connections
<1>7. Lifetime'
  BY <1>0, <1>1, <1>2 DEF Lifetime, ExitSent
<1> QED BY <1>0, <1>5, <1>6, <1>7 DEF Agreed

LEMMA AskedKept ==
    ASSUME SidecarTyped, Messages, UNCHANGED rsp, NEW k \in Calls, NEW op \in Ops, Asked(k, op)
    PROVE  /\ Messages'
           /\ Units(ctl') = Units(ctl) \cup {[op |-> op, k |-> k]}
           /\ \A m \in Units(ctl) : m.k # k
           /\ call[k] = Idle /\ call'[k] = [op |-> op, at |-> "asked"]
           /\ \A j \in Calls \ {k} : call'[j] = call[j]
<1> PICK m \in [op : Ops, k : Calls] : m.op = op /\ m.k = k /\ ctl' = Append(ctl, m)
  <2>1. [op |-> op, k |-> k] \in [op : Ops, k : Calls]
    OBVIOUS
  <2> QED BY <2>1 DEF Asked
<1>0. /\ ctl \in Seq([op : Ops, k : Calls]) /\ call[k] = Idle
      /\ call'[k] = [op |-> op, at |-> "asked"]
      /\ \A j \in Calls \ {k} : call'[j] = call[j]
  BY LinkTypes DEF Asked
<1>1. Units(ctl') = Units(ctl) \cup {m}
  <2>1. PICK T : ctl \in Seq(T) /\ m \in T
    BY <1>0
  <2>2. Units(Append(ctl, m)) = Units(ctl) \cup {m}
    BY <2>1, Appended
  <2> QED BY <2>2
<1>2. \A n \in Units(ctl) : n.k \in Calls /\ n.k # k
  <2> TAKE n \in Units(ctl)
  <2>1. n \in [op : Ops, k : Calls]
    BY LinkTypes
  <2>2. call[n.k].at \in {"asked", "given_up"} /\ call[k].at = "idle"
    BY <1>0 DEF Messages, Pending, Idle
  <2> QED BY <2>1, <2>2
<1>3. \A n \in Units(rsp) : n.k # k /\ (n.op # "exited" => n.k \in Calls)
  <2> TAKE n \in Units(rsp)
  <2>1. n \in Replies /\ None \notin Calls
    BY LinkTypes
  <2>2. CASE n.op = "exited"
    BY <2>1, <2>2 DEF Replies, Ops
  <2>3. CASE n.op # "exited"
    <3>1. n.k \in Calls
      BY <2>1, <2>3 DEF Replies
    <3>2. call[n.k].at \in {"asked", "given_up"} /\ call[k].at = "idle"
      BY <1>0, <2>3 DEF Messages, Pending, Idle
    <3> QED BY <3>1, <3>2
  <2> QED BY <2>2, <2>3
<1>4. KeysOnce(ctl')
  BY <1>0, <1>2, KeysAppended DEF Messages
<1>5. Messages'
  <2>1. \A n \in Units(ctl') : Pending(n)'
    BY <1>0, <1>1, <1>2 DEF Messages, Pending
  <2>2. \A n \in Units(rsp') : n.op # "exited" => Pending(n)'
    BY <1>0, <1>3 DEF Messages, Pending
  <2>3. \A n \in Units(ctl'), r \in Units(rsp') : n.k # r.k
    BY <1>0, <1>1, <1>3 DEF Messages
  <2> QED BY <1>4, <2>1, <2>2, <2>3 DEF Messages
<1> QED BY <1>0, <1>1, <1>2, <1>5

(* A kill drops the socket of the front end, and nothing else.             *)
LEMMA KilledAgree ==
    ASSUME SidecarTyped, Connections, Agreed, UNCHANGED <<listed, client, backlog, joining>>,
           sock' = None, hungup' = hungup \cup ({sock} \ {None}), Killing', Opening => Opening'
    PROVE  Agreed'
<1> SUFFICES ASSUME listed PROVE Agreed'
  BY DEF Agreed
<1>0. /\ None \notin hungup' /\ Latest \in Calls \cup {None}
      /\ backlog # <<>> => LastOf(backlog) \in Calls
  <2>1. backlog # <<>> => LastOf(backlog) \in Calls
    <3> HAVE backlog # <<>>
    <3>1. backlog \in Seq(Calls) /\ Len(backlog) \in DOMAIN backlog
      BY LinkTypes, Shifted
    <3> QED BY <3>1, LinkTypes DEF LastOf, Units
  <2> QED BY <2>1, LinkTypes, LatestType
<1>1. ASSUME NEW c, c = Latest \/ Dropped(c)
      PROVE  c = Latest' \/ Dropped(c)'
  <2>1. CASE joining # <<>>
    BY <1>1, <2>1, LatestType, LinkTypes DEF Latest, Dropped
  <2>2. CASE joining = <<>>
    BY <1>1, <2>2 DEF Latest, Dropped
  <2> QED BY <2>1, <2>2
<1> QED BY <1>0, <1>1 DEF Agreed

LEMMA CallingLinks ==
    ASSUME SidecarTyped, Links, NEW k \in Calls,
           CreateSession(k) \/ ReconnectSession(k) \/ KillSession(k)
    PROVE  Links'
<1> USE DEF Links
<1> PICK op \in Ops :
      /\ Asked(k, op)
      /\ op = "kill" => KillSession(k)
      /\ op # "kill" => UNCHANGED <<sock, hungup>>
      /\ IF op = "create" THEN \A j \in Calls : call[j] = Idle ELSE Known
  <2>1. CASE CreateSession(k)
    <3>1. "create" \in Ops
      BY DEF Ops
    <3> WITNESS "create" \in Ops
    <3> QED BY <2>1 DEF CreateSession, linkVars
  <2>2. CASE ReconnectSession(k)
    <3>1. "reconnect" \in Ops
      BY DEF Ops
    <3> WITNESS "reconnect" \in Ops
    <3> QED BY <2>2 DEF ReconnectSession, linkVars
  <2>3. CASE KillSession(k)
    <3>1. "kill" \in Ops
      BY DEF Ops
    <3> WITNESS "kill" \in Ops
    <3> QED BY <2>3 DEF KillSession
  <2> QED BY <2>1, <2>2, <2>3
<1>0. UNCHANGED <<proc, listed, client, backlog, rsp, joining, ids, reported, latest, lost>>
  BY DEF CreateSession, ReconnectSession, KillSession, serverVars, linkVars, history
<1>1. /\ Messages'
      /\ Units(ctl') = Units(ctl) \cup {[op |-> op, k |-> k]}
      /\ \A m \in Units(ctl) : m.k # k
      /\ call[k] = Idle /\ call'[k] = [op |-> op, at |-> "asked"]
      /\ \A j \in Calls \ {k} : call'[j] = call[j]
  <2>1. Asked(k, op) /\ UNCHANGED rsp
    BY <1>0
  <2> QED BY <2>1, AskedKept
<1>2. \A j \in Calls : call[j].at # "idle" => call'[j] = call[j]
  BY <1>1 DEF Idle
<1>a. op = "kill" => sock' = None /\ hungup' = hungup \cup ({sock} \ {None})
  BY LinkTypes DEF KillSession, Destroyed
<1>3. /\ hungup' \subseteq hungup \cup ({sock} \ {None}) /\ sock' \in {sock, None}
  BY <1>a
<1>4. CreateFirst'
  <2>1. CASE op = "create"
    BY <1>1, <2>1 DEF CreateFirst, Idle
  <2>2. CASE op # "create"
    <3> PICK first \in Calls : call[first] = [op |-> "create", at |-> "done"]
      BY <2>2 DEF Known
    <3>1. \A j \in Calls : call[j].op = "create" => call[j].at = "done"
      BY DEF CreateFirst, Idle
    <3> QED BY <1>1, <2>2, <3>1 DEF CreateFirst
  <2> QED BY <2>1, <2>2
<1>5. Connections'
  <2>1. /\ \A j \in Units(joining') : call'[j].at = "joining"
        /\ \A j \in Units(backlog') : call'[j].at \in {"joining", "done"}
    BY <1>0, <1>2, LinkTypes DEF Connections
  <2>2. client' # None => call'[client'].at \in {"joining", "done"}
    BY <1>0, <1>2, LinkTypes DEF Connections
  <2>3. \A j \in hungup' : call'[j].at = "done"
    BY <1>2, <1>3, LinkTypes DEF Connections
  <2>4. sock' # None => call'[sock'].at = "done"
    BY <1>2, <1>3, LinkTypes DEF Connections
  <2>5. ids' => \E j \in Calls : call'[j].at = "done"
    BY <1>0, <1>2 DEF Connections
  <2> QED BY <1>0, <2>1, <2>2, <2>3, <2>4, <2>5 DEF Connections
<1>6. op = "create" => proc = "none" /\ ~listed
  BY DEF Lifetime, Idle
<1>7. Lifetime'
  <2>1. proc' # "none" => \E j \in Calls : call'[j].op = "create" /\ \A m \in Units(ctl') : m.k # j
    <3> HAVE proc' # "none"
    <3> PICK j \in Calls : call[j].op = "create" /\ \A m \in Units(ctl) : m.k # j
      BY <1>0 DEF Lifetime
    <3>1. j # k
      BY <1>1 DEF Idle
    <3> QED BY <1>1, <3>1
  <2>2. ExitSent' <=> ExitSent
    BY <1>0 DEF ExitSent
  <2> QED BY <1>0, <2>1, <2>2 DEF Lifetime
<1>8. Killing => Killing'
  BY <1>2 DEF Killing
<1>9. Opening => Opening'
  BY <1>0, <1>2, LinkTypes DEF Opening
<1>10. Agreed'
  <2>1. CASE op = "create"
    BY <1>0, <1>6, <2>1 DEF Agreed
  <2>2. CASE op = "kill"
    BY <1>0, <1>1, <1>a, <1>9, <2>2, KilledAgree DEF Killing
  <2>3. CASE op = "reconnect"
    <3>1. UNCHANGED <<sock, hungup>>
      BY <2>3
    <3>2. Latest' = Latest /\ \A c : Dropped(c)' <=> Dropped(c)
      BY <1>0, <3>1 DEF Latest, Dropped
    <3> QED BY <1>0, <1>8, <1>9, <3>1, <3>2 DEF Agreed
  <2> QED BY <2>1, <2>2, <2>3 DEF Ops
<1> QED BY <1>1, <1>4, <1>5, <1>7, <1>10

LEMMA RepliedLinks ==
    ASSUME SidecarTyped, Links, Replied
    PROVE  Links'
<1> USE DEF Links
<1> PICK m \in Replies : m = Head(rsp)
  BY LinkTypes, Shifted DEF Replied
<1>0. /\ rsp # <<>> /\ rsp' = Tail(rsp) /\ rsp \in Seq(Replies)
      /\ UNCHANGED <<proc, listed, client, backlog, ctl, joining, latest, lost>>
  BY LinkTypes DEF Replied, serverVars, history
<1>1. /\ Units(rsp) = {m} \cup Units(rsp') /\ KeysOnce(rsp')
      /\ m.k # None => \A n \in Units(rsp') : n.k # m.k
  <2>1. Units(rsp) = {m} \cup Units(rsp')
    BY <1>0, Taken
  <2>2. KeysOnce(rsp') /\ (m.k # None => \A n \in Units(rsp') : n.k # m.k)
    BY <1>0, KeysTaken DEF Messages
  <2> QED BY <2>1, <2>2
<1>2. CASE m.op = "exited"
  <2>0. /\ UNCHANGED call /\ ids' = FALSE /\ reported' = TRUE /\ sock' = None
        /\ hungup' = hungup \cup ({sock} \ {None})
    BY <1>2, LinkTypes DEF Replied, Destroyed
  <2>1. Messages' /\ CreateFirst'
    BY <1>0, <1>1, <2>0 DEF Messages, Pending, CreateFirst
  <2>2. Connections'
    BY <1>0, <2>0 DEF Connections
  <2>3. Lifetime' /\ ~listed
    BY <1>0, <1>1, <1>2, <2>0 DEF Lifetime, ExitSent
  <2> QED BY <1>0, <2>1, <2>2, <2>3 DEF Agreed
<1>3. CASE m.op # "exited" /\ call[m.k].at # "asked"
  <2>0. /\ UNCHANGED <<call, sock, hungup, ids, reported>>
        /\ call[m.k].at = "given_up"
    BY <1>1, <1>3 DEF Replied, Messages, Pending
  <2>1. Messages' /\ CreateFirst' /\ Connections'
    BY <1>0, <1>1, <2>0 DEF Messages, Pending, CreateFirst, Connections
  <2>2. Lifetime'
    BY <1>0, <1>1, <1>3, <2>0 DEF Lifetime, ExitSent
  <2>3. Latest' = Latest /\ (Killing => Killing') /\ \A c : Dropped(c)' <=> Dropped(c)
    BY <1>0, <2>0 DEF Latest, Killing, Dropped
  <2>4. Opening => Opening'
    BY <1>0, <1>1, <2>0 DEF Opening
  <2> QED BY <1>0, <2>0, <2>1, <2>2, <2>3, <2>4 DEF Agreed
<1>4. CASE m.op # "exited" /\ call[m.k].at = "asked"
  <2>0. /\ m.k \in Calls /\ call[m.k] = [op |-> m.op, at |-> "asked"] /\ m.k # None
        /\ \A n \in Units(ctl) : n.k # m.k
    BY <1>1, <1>4, LinkTypes DEF Messages, Pending, Replies
  <2> PICK phase \in Stages :
        /\ call' = [call EXCEPT ![m.k].at = phase]
        /\ m.op = "kill" => phase = "done"
        /\ m.ok /\ m.op = "reconnect" => phase = "linking"
        /\ phase \in {"linking", "done", "refused"}
        /\ m.op = "create" => phase # "done"
    BY <1>4 DEF Replied, Stages
  <2>1. /\ call'[m.k] = [op |-> m.op, at |-> phase]
        /\ \A j \in Calls : j # m.k => call'[j] = call[j]
        /\ \A j \in Calls : call'[j].op = call[j].op
    BY <2>0, LinkTypes
  <2>2. /\ UNCHANGED <<sock, hungup>>
        /\ ids' => ids
        /\ m.op # "kill" => ids' = ids
        /\ reported => reported'
    <3>1. \/ m.op \in {"create", "reconnect"} /\ UNCHANGED <<sock, hungup, ids, reported>>
          \/ m.op = "kill" /\ ids' = FALSE /\ reported' = TRUE /\ UNCHANGED <<sock, hungup>>
      BY <1>4 DEF Replied
    <3>3. CASE m.op \in {"create", "reconnect"} /\ UNCHANGED <<sock, hungup, ids, reported>>
      BY <3>3
    <3>4. CASE m.op = "kill" /\ ids' = FALSE /\ reported' = TRUE /\ UNCHANGED <<sock, hungup>>
      BY <3>4
    <3> QED BY <3>1, <3>3, <3>4
  <2>3. \A j \in Calls : call[j].at # "asked" => j # m.k /\ call'[j] = call[j]
    BY <2>0, <2>1
  <2>4. Messages'
    <3>1. \A n \in Units(ctl') : Pending(n)'
      <4> TAKE n \in Units(ctl')
      <4>1. n.k \in Calls /\ n.k # m.k /\ Pending(n)
        BY <1>0, <2>0, LinkTypes DEF Messages
      <4> QED BY <2>1, <4>1 DEF Pending
    <3>2. \A n \in Units(rsp') : n.op # "exited" => Pending(n)'
      <4> TAKE n \in Units(rsp')
      <4> HAVE n.op # "exited"
      <4>1. n \in Replies /\ Pending(n)
        BY <1>1, LinkTypes DEF Messages
      <4>2. n.k \in Calls /\ n.k # m.k
        BY <1>1, <2>0, <4>1 DEF Replies
      <4> QED BY <2>1, <4>1, <4>2 DEF Pending
    <3>3. \A n \in Units(ctl'), r \in Units(rsp') : n.k # r.k
      BY <1>0, <1>1 DEF Messages
    <3> QED BY <1>0, <1>1, <3>1, <3>2, <3>3 DEF Messages
  <2>5. CreateFirst'
    <3> SUFFICES ASSUME NEW k \in Calls, call'[k].op = "create", call'[k].at # "done",
                        NEW j \in Calls \ {k}
                 PROVE  call'[j] = Idle
      BY DEF CreateFirst
    <3>1. call[k].op = "create" /\ call[k].at # "done"
      BY <2>0, <2>1
    <3>2. call[j] = Idle
      BY <3>1 DEF CreateFirst
    <3> QED BY <2>3, <3>2 DEF Idle
  <2>6. Connections'
    <3>1. /\ \A j \in Units(joining') : call'[j].at = "joining"
          /\ \A j \in Units(backlog') : call'[j].at \in {"joining", "done"}
      BY <1>0, <2>3, LinkTypes DEF Connections
    <3>2. client' # None => call'[client'].at \in {"joining", "done"}
      BY <1>0, <2>3, LinkTypes DEF Connections
    <3>3. (\A j \in hungup' : call'[j].at = "done") /\ (sock' # None => call'[sock'].at = "done")
      BY <2>2, <2>3, LinkTypes DEF Connections
    <3>4. ids' => \E j \in Calls : call'[j].at = "done"
      BY <2>2, <2>3 DEF Connections
    <3> QED BY <1>0, <3>1, <3>2, <3>3, <3>4 DEF Connections
  <2>7. Lifetime'
    <3>1. ExitSent' <=> ExitSent
      BY <1>1, <1>4 DEF ExitSent
    <3>2. listed' => \A n \in Units(rsp') : n.op \notin {"kill", "exited"}
      BY <1>0, <1>1 DEF Lifetime
    <3>3. proc' # "none" => \E k \in Calls : call'[k].op = "create" /\ \A n \in Units(ctl') : n.k # k
      BY <1>0, <2>1 DEF Lifetime
    <3> QED BY <1>0, <2>2, <3>1, <3>2, <3>3 DEF Lifetime
  <2>8. Agreed'
    <3>1. listed => m.op # "kill"
      BY <1>1 DEF Lifetime
    <3>2. Latest' = Latest /\ \A c : Dropped(c)' <=> Dropped(c)
      BY <1>0, <2>2 DEF Latest, Dropped
    <3>3. Opening => Opening'
      <4> HAVE Opening
      <4>1. latest \in Calls /\ latest # None
        BY LinkTypes DEF Opening
      <4>2. CASE call[latest].at \in {"linking", "given_up"}
        BY <1>0, <2>3, <4>1, <4>2 DEF Opening
      <4>3. CASE [op |-> "reconnect", k |-> latest, ok |-> TRUE] = m
        <5>1. m.k = latest /\ call'[latest].at = "linking"
          BY <2>0, <2>1, <4>3
        <5> QED BY <1>0, <4>1, <5>1 DEF Opening
      <4>4. CASE [op |-> "reconnect", k |-> latest, ok |-> TRUE] \in Units(rsp')
        BY <1>0, <4>1, <4>4 DEF Opening
      <4> QED BY <1>1, <4>2, <4>3, <4>4 DEF Opening
    <3>4. m.op # "kill" /\ Killing => Killing'
      BY <2>0, <2>1 DEF Killing
    <3> QED BY <1>0, <2>2, <3>1, <3>2, <3>3, <3>4 DEF Agreed
  <2> QED BY <2>4, <2>5, <2>6, <2>7, <2>8
<1> QED BY <1>2, <1>3, <1>4

(* Calls that are given up, and what is left of the two directions of the  *)
(* control connection.                                                     *)
LEMMA GivenUpLinks ==
    ASSUME SidecarTyped, Links, NEW S \in SUBSET Calls, GivenUp(S),
           \A k \in S : call[k].at = "asked",
           UNCHANGED <<proc, listed, client, backlog, hungup, joining, sock, reported, latest>>,
           Units(ctl') \subseteq Units(ctl), KeysOnce(ctl'),
           Units(rsp') \subseteq Units(rsp), KeysOnce(rsp'),
           \A m \in Units(rsp) : m \in Units(rsp') \/ m.op = "exited" \/ call'[m.k].at = "given_up",
           lost => lost', ExitSent => ExitSent' \/ lost'
    PROVE  Links'
<1> USE DEF Links
<1>0. /\ \A k \in S : call'[k].op = call[k].op /\ call'[k].at = "given_up"
      /\ \A k \in Calls \ S : call'[k] = call[k]
      /\ \A k \in Calls : call'[k].op = call[k].op
  <2>1. \A k \in Calls : call'[k] = IF k \in S THEN [call[k] EXCEPT !.at = "given_up"] ELSE call[k]
    BY DEF GivenUp
  <2>2. \A k \in Calls : call[k] \in [op : Ops \cup {"none"}, at : Stages]
    BY LinkTypes
  <2>3. ASSUME NEW k \in Calls PROVE call'[k].op = call[k].op /\ (k \in S => call'[k].at = "given_up")
    BY <2>1, <2>2
  <2> QED BY <2>1, <2>3
<1>a. ids' => ids /\ \A k \in S : call[k].op # "kill"
  BY DEF GivenUp
<1>1. \A k \in Calls : call[k].at # "asked" => k \notin S /\ call'[k] = call[k]
  BY <1>0
<1>2. Messages'
  <2>1. ASSUME NEW m, Pending(m), m.k \in Calls PROVE Pending(m)'
    BY <1>0, <2>1 DEF Pending
  <2>2. /\ \A m \in Units(ctl) : Pending(m) /\ m.k \in Calls
        /\ \A m \in Units(rsp) : m.op # "exited" => Pending(m) /\ m.k \in Calls
    BY LinkTypes DEF Messages, Replies
  <2>3. \A m \in Units(ctl'), r \in Units(rsp') : m.k # r.k
    BY DEF Messages
  <2> QED BY <2>1, <2>2, <2>3 DEF Messages
<1>3. CreateFirst'
  <2> SUFFICES ASSUME NEW k \in Calls, call'[k].op = "create", call'[k].at # "done", NEW j \in Calls \ {k}
               PROVE  call'[j] = Idle
    BY DEF CreateFirst
  <2>1. call[k].op = "create" /\ call[k].at # "done"
    BY <1>0, <1>1
  <2>2. call[j] = Idle
    BY <2>1 DEF CreateFirst
  <2> QED BY <1>1, <2>2 DEF Idle
<1>4. Connections'
  <2>1. /\ \A j \in Units(joining') : call'[j].at = "joining"
        /\ \A j \in Units(backlog') : call'[j].at \in {"joining", "done"}
    BY <1>1, LinkTypes DEF Connections
  <2>2. client' # None => call'[client'].at \in {"joining", "done"}
    BY <1>1, LinkTypes DEF Connections
  <2>3. (\A j \in hungup' : call'[j].at = "done") /\ (sock' # None => call'[sock'].at = "done")
    BY <1>1, LinkTypes DEF Connections
  <2>4. ids' => \E j \in Calls : call'[j].at = "done"
    BY <1>a, <1>1 DEF Connections
  <2> QED BY <2>1, <2>2, <2>3, <2>4 DEF Connections
<1>5. Lifetime'
  <2>1. ExitSent' => ExitSent
    BY DEF ExitSent
  <2>2. proc' # "none" => \E k \in Calls : call'[k].op = "create" /\ \A m \in Units(ctl') : m.k # k
    BY <1>0 DEF Lifetime
  <2> QED BY <2>1, <2>2 DEF Lifetime
<1>6. Agreed'
  <2>1. Latest' = Latest /\ \A c : Dropped(c)' <=> Dropped(c)
    BY DEF Latest, Dropped
  <2>2. ids' /\ sock = None /\ listed => Killing'
    BY <1>0, <1>a DEF Agreed, Killing
  <2>3. Opening => Opening'
    <3> HAVE Opening
    <3>1. latest \in Calls /\ latest # None
      BY LinkTypes DEF Opening
    <3>2. CASE call[latest].at \in {"linking", "given_up"}
      BY <1>1, <3>1, <3>2 DEF Opening
    <3>3. CASE [op |-> "reconnect", k |-> latest, ok |-> TRUE] \in Units(rsp)
      <4>1. \/ [op |-> "reconnect", k |-> latest, ok |-> TRUE] \in Units(rsp')
            \/ call'[latest].at = "given_up"
        BY <3>3
      <4> QED BY <3>1, <4>1 DEF Opening
    <3> QED BY <3>2, <3>3 DEF Opening
  <2> QED BY <2>1, <2>2, <2>3 DEF Agreed
<1> QED BY <1>2, <1>3, <1>4, <1>5, <1>6

LEMMA TimedOutLinks ==
    ASSUME SidecarTyped, Links, NEW k \in Calls, TimedOut(k)
    PROVE  Links'
<1>1. /\ {k} \in SUBSET Calls /\ GivenUp({k}) /\ \A j \in {k} : call[j].at = "asked"
      /\ UNCHANGED <<proc, listed, client, backlog, hungup, joining, sock, reported, latest, ctl, rsp, lost>>
  BY DEF TimedOut, serverVars, linkVars, history
<1>2. KeysOnce(ctl') /\ KeysOnce(rsp') /\ (ExitSent' <=> ExitSent)
  BY <1>1 DEF Links, Messages, ExitSent
<1>3. \A m \in Units(rsp) : m \in Units(rsp')
  BY <1>1
<1>4. Units(ctl') \subseteq Units(ctl) /\ Units(rsp') \subseteq Units(rsp)
  BY <1>1
<1> QED BY <1>1, <1>2, <1>3, <1>4, GivenUpLinks

LEMMA RenewedLinks ==
    ASSUME SidecarTyped, Links, Renewed
    PROVE  Links'
<1> PICK S \in SUBSET Calls : S = {k \in Calls : call[k].at = "asked"} /\ GivenUp(S)
  BY DEF Renewed
<1>1. UNCHANGED <<proc, listed, client, backlog, hungup, joining, sock, reported, latest>>
  BY DEF Renewed, serverVars, linkVars
<1>2. Units(ctl') \subseteq Units(ctl) /\ KeysOnce(ctl')
  <2>1. PICK n \in 0 .. Len(ctl) : ctl' = SubSeq(ctl, 1, n)
    BY DEF Renewed
  <2>2. PICK T : ctl \in Seq(T)
    BY LinkTypes
  <2>3. DOMAIN ctl' \subseteq DOMAIN ctl /\ \A i \in DOMAIN ctl' : ctl'[i] = ctl[i]
    BY <2>1, <2>2, Beginning
  <2>4. KeysOnce(ctl)
    BY DEF Links, Messages
  <2> QED BY <2>3, <2>4 DEF Units, KeysOnce
<1>3. Units(rsp') = {} /\ KeysOnce(rsp')
  <2>1. rsp' = <<>> /\ DOMAIN <<>> = {}
    BY EmptySeq DEF Renewed
  <2> QED BY <2>1 DEF Units, KeysOnce
<1>4. \A m \in Units(rsp) : m.op # "exited" => call'[m.k].at = "given_up"
  <2> TAKE m \in Units(rsp)
  <2> HAVE m.op # "exited"
  <2>1. m.k \in Calls /\ call[m.k].at \in {"asked", "given_up"}
    BY LinkTypes DEF Links, Messages, Pending, Replies
  <2> QED BY <2>1, LinkTypes DEF GivenUp
<1>5. (lost' <=> lost \/ ExitSent) /\ lost' \in BOOLEAN /\ lost \in BOOLEAN
  <2>1. lost' = (lost \/ \E i \in DOMAIN rsp : rsp[i].op = "exited")
    BY DEF Renewed
  <2>2. ExitSent <=> \E i \in DOMAIN rsp : rsp[i].op = "exited"
    BY DEF ExitSent, Units
  <2> QED BY <2>1, <2>2, LinkTypes
<1> QED BY <1>1, <1>2, <1>3, <1>4, <1>5, GivenUpLinks

(* A call that moves from one stage to the next once its reply is in.      *)
LEMMA StageKept ==
    ASSUME SidecarTyped, Links, UNCHANGED <<ctl, rsp>>,
           NEW k \in Calls, call[k].at \in {"linking", "joining"},
           call'[k].op = call[k].op,
           \A j \in Calls \ {k} : call'[j] = call[j]
    PROVE  /\ Messages' /\ CreateFirst' /\ (ExitSent' <=> ExitSent)
           /\ \A j \in Calls : call'[j].op = call[j].op
<1> USE DEF Links
<1>0. \A j \in Calls : call'[j].op = call[j].op
  OBVIOUS
<1>1. \A n \in Units(ctl) : n.k \in Calls /\ n.k # k
  <2> TAKE n \in Units(ctl)
  <2>1. n \in [op : Ops, k : Calls]
    BY LinkTypes
  <2>2. call[n.k].at \in {"asked", "given_up"}
    BY DEF Messages, Pending
  <2> QED BY <2>1, <2>2
<1>2. \A n \in Units(rsp) : n.op # "exited" => n.k \in Calls /\ n.k # k
  <2> TAKE n \in Units(rsp)
  <2> HAVE n.op # "exited"
  <2>1. n.k \in Calls
    BY LinkTypes DEF Replies
  <2>2. call[n.k].at \in {"asked", "given_up"}
    BY DEF Messages, Pending
  <2> QED BY <2>1, <2>2
<1>3. Messages'
  <2>1. Messages
    OBVIOUS
  <2> QED BY <1>1, <1>2, <2>1 DEF Messages, Pending
<1>4. CreateFirst'
  <2> SUFFICES ASSUME NEW f \in Calls, call'[f].op = "create", call'[f].at # "done",
                      NEW j \in Calls \ {f}
               PROVE  call'[j] = Idle
    BY DEF CreateFirst
  <2>1. call[f].op = "create" /\ call[f].at # "done"
    OBVIOUS
  <2>2. call[j] = Idle
    BY <2>1 DEF CreateFirst
  <2>3. j # k
    BY <2>2 DEF Idle
  <2> QED BY <2>2, <2>3
<1> QED BY <1>0, <1>3, <1>4 DEF ExitSent

LEMMA ConnectedLinks ==
    ASSUME SidecarTyped, Links, NEW k \in Calls, Connected(k)
    PROVE  Links'
<1> USE DEF Links
<1>0. /\ call[k].at = "linking"
      /\ UNCHANGED <<proc, listed, client, hungup, ctl, rsp, sock, ids, reported, latest, lost>>
  BY DEF Connected, serverVars, history
<1> PICK phase \in Stages :
      /\ call' = [call EXCEPT ![k].at = phase]
      /\ \/ phase = "joining" /\ listed /\ backlog' = Append(backlog, k) /\ joining' = Append(joining, k)
         \/ phase = "given_up" /\ UNCHANGED <<backlog, joining>>
  BY DEF Connected, Stages
<1>1. /\ call'[k].op = call[k].op /\ call'[k].at = phase
      /\ \A j \in Calls \ {k} : call'[j] = call[j]
  BY LinkTypes
<1>2. /\ Messages' /\ CreateFirst' /\ (ExitSent' <=> ExitSent)
      /\ \A j \in Calls : call'[j].op = call[j].op
  BY <1>0, <1>1, StageKept
<1>3. Lifetime'
  BY <1>0, <1>2 DEF Lifetime
<1>4. \A j \in Calls : call[j].at \in {"joining", "done"} => j # k /\ call'[j] = call[j]
  BY <1>0, <1>1
<1>5. /\ client' # None => call'[client'].at \in {"joining", "done"}
      /\ \A j \in hungup' : call'[j].at = "done"
      /\ sock' # None => call'[sock'].at = "done"
      /\ ids' => \E j \in Calls : call'[j].at = "done"
  BY <1>0, <1>4, LinkTypes DEF Connections
<1>6. CASE phase = "joining"
  <2>0. /\ backlog' = Append(backlog, k) /\ joining' = Append(joining, k)
        /\ backlog \in Seq(Calls) /\ joining \in Seq(Calls)
    BY <1>6, LinkTypes
  <2>1. /\ Units(backlog') = Units(backlog) \cup {k} /\ backlog' # <<>> /\ LastOf(backlog') = k
        /\ Units(joining') = Units(joining) \cup {k} /\ joining' # <<>> /\ LastOf(joining') = k
    BY <2>0, Appended
  <2>2. \A i, j \in DOMAIN joining' : joining'[i] = joining'[j] => i = j
    <3>1. \A i \in DOMAIN joining : joining[i] # k
      BY <1>0, LinkTypes DEF Connections, Units
    <3>2. /\ Len(joining) \in Nat /\ DOMAIN joining = 1 .. Len(joining)
          /\ DOMAIN joining' = 1 .. Len(joining) + 1
          /\ \A i \in 1 .. Len(joining) : joining'[i] = joining[i]
          /\ joining'[Len(joining) + 1] = k
      BY <2>0, AppendProperties, LenProperties
    <3>3. \A i, j \in DOMAIN joining : joining[i] = joining[j] => i = j
      BY DEF Connections
    <3> QED BY <3>1, <3>2, <3>3
  <2>3. Connections'
    <3>1. \A j \in Units(joining') : call'[j].at = "joining"
      BY <1>1, <1>4, <1>6, <2>1, LinkTypes DEF Connections
    <3>2. \A j \in Units(backlog') : call'[j].at \in {"joining", "done"}
      BY <1>1, <1>4, <1>6, <2>1, LinkTypes DEF Connections
    <3> QED BY <1>5, <2>2, <3>1, <3>2 DEF Connections
  <2>4. Agreed'
    <3>1. sock \notin hungup /\ (ids /\ sock = None => Killing)
      BY <1>6 DEF Agreed
    <3>2. (Killing => Killing') /\ Latest' = k
      BY <1>0, <1>1, <1>2, <2>1 DEF Killing, Latest
    <3> QED BY <1>0, <2>1, <3>1, <3>2 DEF Agreed
  <2> QED BY <1>2, <1>3, <2>3, <2>4
<1>7. CASE phase = "given_up"
  <2>0. UNCHANGED <<backlog, joining>>
    BY <1>7
  <2>1. Connections'
    <3>1. /\ \A j \in Units(joining') : call'[j].at = "joining"
          /\ \A j \in Units(backlog') : call'[j].at \in {"joining", "done"}
      BY <1>4, <2>0, LinkTypes DEF Connections
    <3> QED BY <1>5, <2>0, <3>1 DEF Connections
  <2>2. Latest' = Latest /\ (Killing => Killing') /\ \A c : Dropped(c)' <=> Dropped(c)
    BY <1>0, <1>1, <2>0 DEF Latest, Killing, Dropped
  <2>3. Opening => Opening'
    BY <1>0, <1>1, <1>7, LinkTypes DEF Opening
  <2> QED BY <1>0, <1>2, <1>3, <2>0, <2>1, <2>2, <2>3 DEF Agreed
<1> QED BY <1>6, <1>7

LEMMA LinkedLinks ==
    ASSUME SidecarTyped, Links, Linked
    PROVE  Links'
<1> USE DEF Links
<1> PICK k \in Calls : k = Head(joining) /\ k \in Units(joining)
  <2>1. joining # <<>> /\ joining \in Seq(Calls)
    BY LinkTypes DEF Linked
  <2> QED BY <2>1, Shifted, Taken
<1>0. /\ call[k].at = "joining" /\ joining # <<>> /\ joining' = Tail(joining) /\ joining \in Seq(Calls)
      /\ sock' = k /\ hungup' = hungup \cup ({sock} \ {None}) /\ ids' = TRUE
      /\ UNCHANGED <<proc, listed, client, backlog, ctl, rsp, reported, latest, lost>>
      /\ call' = [call EXCEPT ![k].at = "done"]
  BY LinkTypes DEF Linked, serverVars, Destroyed, Connections, history
<1>1. /\ call'[k].op = call[k].op /\ call'[k].at = "done"
      /\ \A j \in Calls \ {k} : call'[j] = call[j]
  BY <1>0, LinkTypes
<1>2. /\ Messages' /\ CreateFirst' /\ (ExitSent' <=> ExitSent)
      /\ \A j \in Calls : call'[j].op = call[j].op
  BY <1>0, <1>1, StageKept
<1>3. Lifetime'
  BY <1>0, <1>2 DEF Lifetime
<1>4. /\ Units(joining) = {k} \cup Units(joining')
      /\ joining' # <<>> => LastOf(joining') = LastOf(joining)
      /\ joining' = <<>> => LastOf(joining) = k
  BY <1>0, Taken
<1>5. /\ \A i, j \in DOMAIN joining' : joining'[i] = joining'[j] => i = j
      /\ k \notin Units(joining')
  <2>1. /\ joining[1] = k /\ 1 \in DOMAIN joining
        /\ \A i \in DOMAIN joining' : i \in Nat /\ i > 0 /\ i + 1 \in DOMAIN joining /\ joining'[i] = joining[i + 1]
    BY <1>0, Shifted
  <2>2. \A i, j \in DOMAIN joining : joining[i] = joining[j] => i = j
    BY DEF Connections
  <2>3. ASSUME NEW i \in DOMAIN joining', NEW j \in DOMAIN joining', joining'[i] = joining'[j]
        PROVE  i = j
    <3>1. i + 1 = j + 1
      BY <2>1, <2>2, <2>3
    <3> QED BY <2>1, <3>1
  <2>4. ASSUME NEW i \in DOMAIN joining', joining'[i] = k PROVE FALSE
    <3>1. i + 1 = 1
      BY <2>1, <2>2, <2>4
    <3> QED BY <2>1, <3>1
  <2> QED BY <2>3, <2>4 DEF Units
<1>6. \A j \in Calls : call[j].at = "done" => j # k /\ call'[j].at = "done"
  BY <1>0, <1>1
<1>7. Connections'
  <2>1. \A j \in Units(joining') : call'[j].at = "joining"
    BY <1>1, <1>4, <1>5, LinkTypes DEF Connections
  <2>2. (\A j \in Units(backlog') : call'[j].at \in {"joining", "done"})
    BY <1>0, <1>1, LinkTypes DEF Connections
  <2>3. client' # None => call'[client'].at \in {"joining", "done"}
    BY <1>0, <1>1, LinkTypes DEF Connections
  <2>4. \A j \in hungup' : call'[j].at = "done"
    BY <1>0, <1>6, LinkTypes DEF Connections
  <2>5. call'[sock'].at = "done" /\ \E j \in Calls : call'[j].at = "done"
    BY <1>0, <1>1
  <2> QED BY <1>5, <2>1, <2>2, <2>3, <2>4, <2>5 DEF Connections
<1>8. Agreed'
  <2>1. k \notin hungup' /\ k # None
    BY <1>0, LinkTypes DEF Connections
  <2>2. Latest' = Latest /\ Latest # None /\ sock' # None
    <3>1. Latest' = Latest
      BY <1>0, <1>4 DEF Latest
    <3>2. Latest \in Units(joining)
      BY <1>0, LatestType
    <3> QED BY <1>0, <2>1, <3>1, <3>2, LinkTypes
  <2>3. Opening => Opening'
    BY <1>0, <1>1, LinkTypes DEF Opening
  <2> QED BY <1>0, <1>2, <2>1, <2>2, <2>3 DEF Agreed, Dropped
<1> QED BY <1>2, <1>3, <1>7, <1>8

LEMMA LinkStep == LinkInv /\ [Next]_vars => LinkInv'
<1> SUFFICES ASSUME LinkInv, [Next]_vars PROVE LinkInv'
  OBVIOUS
<1>0. SidecarTyped /\ SidecarTyped'
  BY TypesStep DEF LinkInv
<1>1. CASE ~up'
  BY <1>0, <1>1 DEF LinkInv
<1>2. CASE up'
  <2>1. up /\ ~Crash
    BY <1>2 DEF Next, vars, Output, Exits, Server, Front, Crash, HandleCreate, HandleReconnect, HandleKill, Accept,
       Hangup, CreateSession, ReconnectSession, KillSession, TimedOut, Renewed, Connected, Linked, Replied
  <2>2. Links
    BY <2>1 DEF LinkInv
  <2>3. CASE UNCHANGED vars \/ \E len \in 1 .. MaxOutput : Output(len)
    <3>1. UNCHANGED <<proc, listed, client, backlog, hungup, ctl, rsp, call, joining, sock, ids, reported,
                      latest, lost>>
      BY <2>3 DEF vars, Output, serverVars, linkVars, frontVars, history
    <3> QED BY <1>0, <2>2, <3>1 DEF LinkInv, Links, Messages, Pending, CreateFirst, Connections, Lifetime, Agreed,
            Latest, Opening, Killing, Dropped, ExitSent
  <2>4. CASE Exits \/ Server
    BY <1>0, <2>2, <2>4, ExitLinks, CreateLinks, ReconnectLinks, KillLinks, AcceptLinks, HangupLinks
       DEF Server, LinkInv
  <2>5. CASE Front
    BY <1>0, <2>2, <2>5, CallingLinks, TimedOutLinks, RenewedLinks, ConnectedLinks, LinkedLinks, RepliedLinks
       DEF Front, LinkInv
  <2> QED BY <2>1, <2>3, <2>4, <2>5 DEF Next
<1> QED BY <1>1, <1>2

LEMMA LinkStart == Init => LinkInv
<1> SUFFICES ASSUME Init PROVE Links
  BY TypesStart DEF LinkInv
<1>1. Units(<<>>) = {} /\ DOMAIN <<>> = {}
  BY EmptySeq DEF Units
<1>2. /\ proc = "none" /\ ~listed /\ client = None /\ backlog = <<>> /\ hungup = {} /\ ctl = <<>> /\ rsp = <<>>
      /\ call = [k \in Calls |-> Idle] /\ joining = <<>> /\ sock = None /\ ~ids
  BY DEF Init
<1> QED BY <1>1, <1>2 DEF Links, Messages, CreateFirst, Connections, Lifetime, Agreed, KeysOnce, ExitSent, Idle

LEMMA LinkInvariant == Spec => []LinkInv
BY LinkStart, LinkStep, PTL DEF Spec

(* However creates, reconnects, kills, timeouts, hang-ups, an exit and new *)
(* control connections overlapped, once they are over the front end types  *)
(* into the connection the server reads, or the server has none because the*)
(* caller of the last reconnect it carried out was told that it failed; and*)
(* an end of the terminal was reported, unless its notification was lost.  *)
THEOREM EndsMeet == Spec => []EndsAgree
<1>1. LinkInv => EndsAgree
  <2> SUFFICES ASSUME LinkInv, Quiet, up
               PROVE  /\ listed /\ ids =>
                            \/ sock = client /\ sock # None
                            \/ client = None /\ latest # None /\ call[latest].at = "given_up"
                      /\ proc = "gone" => reported \/ lost
    BY DEF EndsAgree
  <2>0. /\ Links /\ ctl = <<>> /\ rsp = <<>> /\ backlog = <<>> /\ hungup = {}
        /\ \A k \in Calls : call[k].at \in {"idle", "done", "refused", "given_up"}
    BY DEF LinkInv, Quiet
  <2>1. Units(<<>>) = {}
    BY EmptySeq DEF Units
  <2>2. proc = "gone" => reported \/ lost
    BY <2>0, <2>1 DEF Links, Lifetime, ExitSent
  <2>3. joining = <<>>
    <3>1. SidecarTyped /\ Connections
      BY <2>0 DEF LinkInv, Links
    <3> QED BY <2>0, <3>1, LatestType, LinkTypes
  <2>4. Opening => latest # None /\ call[latest].at = "given_up"
    <3>1. latest \in Calls \cup {None}
      BY LinkTypes DEF LinkInv
    <3> QED BY <2>0, <2>1, <3>1 DEF Opening
  <2>5. ~Killing
    BY <2>0 DEF Killing
  <2> QED BY <2>0, <2>2, <2>3, <2>4, <2>5 DEF Links, Agreed, Latest, Dropped
<1> QED BY <1>1, LinkInvariant, PTL
=============================================================================
