------------------------- MODULE MessageQueueProofs -------------------------
(***************************************************************************)
(* The message queue of module MessageQueue loses no message of its pool   *)
(* and no wake-up, and implements a bounded queue with urgent messages,    *)
(* for any threads, priorities, contents and size of the pool, with sends  *)
(* from interrupt handlers, time-outs, reset and detach.                   *)
(***************************************************************************)
EXTENDS MessageQueue, KernelProofs, FiniteSetTheorems

Blocking == {"recv_sched"}

\* The places where a thread has interrupts disabled from one step to the next.
Masked == {"reset_wake", "reset_free", "lost"}

\* The places of rt_mq_recv where a thread waits, or was woken.
InRecv == {t \in Thread : pc[t] \in {"recv_sched", "recv_return"}}

\* The places between the two sections of a send and of a receive.
Sending == {"send_copy", "send_link", "urgent_copy", "urgent_link"}
Copying == {"recv_copy", "recv_free"}

\* The receivers that were woken for a message and have yet to run.
Woken == {t \in InRecv : t \notin ToSet(k.wait[Mq]) /\ k.error[t] = "RT_EOK"}

\* irq is the thread at a masked place; no receiver waits any more when a reset
\* comes to the messages.
IrqOK ==
    /\ \A t \in Thread : irq = t <=> pc[t] \in Masked
    /\ irq # NoThread => k.current = irq
    /\ \A t \in Thread : pc[t] = "reset_free" => k.wait[Mq] = <<>>

\* A receiver is on the list while it is suspended.
ThreadOK(t) ==
    /\ t \in ToSet(k.wait[Mq]) <=> (t \in InRecv /\ k.stat[t] = "suspend")
    /\ t \in ToSet(k.wait[Mq]) => k.error[t] = "RT_EOK"

\* While receivers wait, enough of them were woken.
RecvCount == k.wait[Mq] # <<>> => q.entry <= Cardinality(Woken)

\* The part of the invariant about the threads ...
Waits ==
    /\ SystemOK(Blocking)
    /\ IrqOK
    /\ RecvCount
    /\ \A t \in Thread : ThreadOK(t)

\* c is the list of the messages linked from start on.
Chained(next, start, c) ==
    /\ c \in Seq(Msg)
    /\ start = IF c = <<>> THEN Null ELSE c[1]
    /\ \A i, j \in 1 .. Len(c) : c[i] = c[j] => i = j
    /\ \A i \in 1 .. Len(c) : next[c[i]] = IF i = Len(c) THEN Null ELSE c[i + 1]

\* c is the queue and f the free list of s.
Lists(s, c, f) ==
    /\ Chained(s.next, s.head, c)
    /\ Chained(s.next, s.free, f)
    /\ s.tail = IF c = <<>> THEN Null ELSE c[Len(c)]
    /\ ToSet(c) \cap ToSet(f) = {}

Holders == {t \in Thread : msg[t] # Null}

\* The messages of the set U, n of them, are on the lists, and every other one
\* is with a thread of its own.
Accounted(U, n) ==
    /\ \A t \in Thread : msg[t] \notin U
    /\ \A t, u \in Holders : msg[t] = msg[u] => t = u
    /\ \A m \in Msg : m \in U \/ \E t \in Thread : msg[t] = m
    /\ n + Cardinality(Holders) = MaxMsgs

Counted(c) == (\A t \in Thread : pc[t] # "reset_free") => q.entry = Len(c)

Partition(c, f) ==
    /\ Lists(q, c, f)
    /\ Accounted(ToSet(c) \cup ToSet(f), Len(c) + Len(f))
    /\ Counted(c)

\* What a call in progress has of its message.
CallOK(t) ==
    /\ msg[t] # Null <=> pc[t] \in Sending \cup Copying
    /\ pc[t] \in Sending => buffer[t] \in Value
    /\ pc[t] = "send_link" => q.next[msg[t]] = Null
    /\ pc[t] \in {"send_link", "urgent_link"} => q.data[msg[t]] = buffer[t]
    /\ pc[t] \in {"recv_sched", "recv_return"} \cup Copying => t \in Receiver

\* ... and the part about the messages.
Pool == (\E c, f \in Seq(Msg) : Partition(c, f)) /\ \A t \in Thread : CallOK(t)

IInv == TypeOK /\ Waits /\ Pool

-----------------------------------------------------------------------------
(***************************************************************************)
(* Lists that are linked through the next fields.                          *)
(***************************************************************************)
LEMMA ToSetFacts ==
  ASSUME NEW T, NEW c \in Seq(T)
  PROVE  /\ ToSet(c) = {c[i] : i \in 1 .. Len(c)} /\ ToSet(c) \subseteq T
         /\ \A i \in 1 .. Len(c) : c[i] \in ToSet(c) /\ c[i] \in T
BY DEF ToSet

\* A change elsewhere does not matter.
LEMMA ChainFrame ==
  ASSUME NEW next, NEW other, NEW start, NEW c, Chained(next, start, c),
         \A m \in ToSet(c) : other[m] = next[m]
  PROVE  Chained(other, start, c)
<1>1. c \in Seq(Msg) BY DEF Chained
<1>2. \A i \in 1 .. Len(c) : c[i] \in ToSet(c) BY <1>1, ToSetFacts
<1> QED BY <1>2 DEF Chained

\* The first element of a list.
LEMMA ChainHead ==
  ASSUME NEW next, NEW start, NEW c, Chained(next, start, c)
  PROVE  /\ start = Null <=> c = <<>>
         /\ start = Null <=> Len(c) = 0
         /\ start # Null => start \in Msg /\ start \in ToSet(c) /\ start = c[1] /\ Len(c) > 0
<1>1. c \in Seq(Msg) /\ Msg \subseteq Nat \ {Null} BY MessageQueueAssumption DEF Chained, Msg, Null
<1>2. ASSUME c # <<>> PROVE Len(c) > 0 /\ 1 \in 1 .. Len(c) BY <1>1, <1>2
<1>3. ASSUME c # <<>> PROVE c[1] \in Msg /\ c[1] \in ToSet(c) BY <1>1, <1>2, <1>3, ToSetFacts
<1>4. c = <<>> <=> Len(c) = 0 BY <1>1, <1>2
<1>5. start = IF c = <<>> THEN Null ELSE c[1] BY DEF Chained
<1>6. CASE c = <<>> BY <1>4, <1>5, <1>6
<1>7. CASE c # <<>> BY <1>1, <1>2, <1>3, <1>4, <1>5, <1>7
<1> QED BY <1>6, <1>7

\* The head is taken off a list.
LEMMA ChainPop ==
  ASSUME NEW next, NEW start, NEW c, Chained(next, start, c), start # Null
  PROVE  /\ Chained(next, next[start], Tail(c))
         /\ ToSet(Tail(c)) = ToSet(c) \ {start}
         /\ Len(Tail(c)) = Len(c) - 1 /\ Len(c) - 1 \in Nat
         /\ \A i \in 1 .. Len(c) - 1 : Tail(c)[i] = c[i + 1]
<1>1. c \in Seq(Msg) /\ c # <<>> /\ start = c[1] /\ Len(c) > 0 BY ChainHead DEF Chained
<1>2. PICK d : d = Tail(c) OBVIOUS
<1>3. /\ d \in Seq(Msg) /\ Len(d) = Len(c) - 1 /\ Len(d) \in Nat
      /\ \A i \in 1 .. Len(d) : d[i] = c[i + 1]
  BY <1>1, <1>2, HeadTailProperties
<1>4. \A i, j \in 1 .. Len(c) : c[i] = c[j] => i = j BY DEF Chained
<1>5. \A i \in 1 .. Len(c) : next[c[i]] = IF i = Len(c) THEN Null ELSE c[i + 1] BY DEF Chained
<1>6. \A i, j \in 1 .. Len(d) : d[i] = d[j] => i = j
  <2>1. SUFFICES ASSUME NEW i \in 1 .. Len(d), NEW j \in 1 .. Len(d), d[i] = d[j] PROVE i = j
    OBVIOUS
  <2>2. i + 1 \in 1 .. Len(c) /\ j + 1 \in 1 .. Len(c) /\ c[i + 1] = c[j + 1]
    BY <1>1, <1>3, <2>1
  <2>3. i + 1 = j + 1 BY <1>4, <2>2
  <2> QED BY <2>3
<1>7. ASSUME NEW i \in 1 .. Len(d)
      PROVE  next[d[i]] = IF i = Len(d) THEN Null ELSE d[i + 1]
  <2>1. i + 1 \in 1 .. Len(c) /\ d[i] = c[i + 1] /\ (i + 1 = Len(c) <=> i = Len(d))
    BY <1>1, <1>3
  <2>2. i # Len(d) => d[i + 1] = c[i + 1 + 1] BY <1>3
  <2>3. next[c[i + 1]] = IF i + 1 = Len(c) THEN Null ELSE c[i + 1 + 1] BY <1>5, <2>1
  <2> QED BY <2>1, <2>2, <2>3
<1>8. next[start] = IF d = <<>> THEN Null ELSE d[1]
  <2>1. 1 \in 1 .. Len(c) BY <1>1
  <2>2. next[c[1]] = IF 1 = Len(c) THEN Null ELSE c[1 + 1] BY <1>5, <2>1
  <2>3. d = <<>> <=> Len(c) = 1 BY <1>1, <1>3
  <2>4. Len(c) # 1 => d[1] = c[2] BY <1>1, <1>3
  <2> QED BY <1>1, <2>2, <2>3, <2>4
<1>9. ToSet(d) = ToSet(c) \ {start}
  <2>1. ASSUME NEW m, m \in ToSet(d) PROVE m \in ToSet(c) /\ m # start
    <3>1. PICK i \in 1 .. Len(d) : m = d[i] BY <1>3, <2>1, ToSetFacts
    <3>2. i + 1 \in 1 .. Len(c) /\ m = c[i + 1] /\ 1 \in 1 .. Len(c) BY <1>1, <1>3, <3>1
    <3>3. m # start BY <1>1, <1>4, <3>2
    <3> QED BY <1>1, <3>2, <3>3, ToSetFacts
  <2>2. ASSUME NEW m, m \in ToSet(c), m # start PROVE m \in ToSet(d)
    <3>1. PICK i \in 1 .. Len(c) : m = c[i] BY <1>1, <2>2, ToSetFacts
    <3>2. i # 1 BY <1>1, <2>2, <3>1
    <3>3. i - 1 \in 1 .. Len(d) /\ d[i - 1] = c[i - 1 + 1] BY <1>1, <1>3, <3>1, <3>2
    <3>4. d[i - 1] = m BY <3>1, <3>3
    <3> QED BY <1>3, <3>3, <3>4, ToSetFacts
  <2> QED BY <2>1, <2>2
<1>10. Chained(next, next[start], d) BY <1>3, <1>6, <1>7, <1>8 DEF Chained
<1> QED BY <1>2, <1>3, <1>9, <1>10

\* An element is put before a list.
Pushed(next, other, start, c, m) ==
    /\ Chained(next, start, c)
    /\ m \in Msg /\ m \notin ToSet(c)
    /\ other[m] = start
    /\ \A l \in ToSet(c) : other[l] = next[l]

LEMMA ChainPush ==
  ASSUME NEW next, NEW other, NEW start, NEW c, NEW m, Pushed(next, other, start, c, m)
  PROVE  /\ Chained(other, m, <<m>> \o c)
         /\ ToSet(<<m>> \o c) = ToSet(c) \cup {m}
         /\ Len(<<m>> \o c) = Len(c) + 1
         /\ (<<m>> \o c)[1] = m /\ \A i \in 1 .. Len(c) : (<<m>> \o c)[i + 1] = c[i]
<1> USE DEF Pushed
<1>1. c \in Seq(Msg) /\ start = IF c = <<>> THEN Null ELSE c[1] BY DEF Chained
<1>2. PICK d : d = <<m>> \o c OBVIOUS
<1>3. /\ d \in Seq(Msg) /\ Len(d) = Len(c) + 1 /\ d[1] = m /\ d # <<>>
      /\ \A i \in 1 .. Len(c) : d[i + 1] = c[i]
  BY <1>1, <1>2
<1>4. \A i, j \in 1 .. Len(c) : c[i] = c[j] => i = j BY DEF Chained
<1>5. \A i \in 1 .. Len(c) : c[i] \in ToSet(c) BY <1>1, ToSetFacts
<1>6. \A i \in 1 .. Len(d) : i = 1 \/ (i - 1 \in 1 .. Len(c) /\ d[i] = c[i - 1])
  <2>1. TAKE i \in 1 .. Len(d)
  <2>2. CASE i # 1
    <3>1. i - 1 \in 1 .. Len(c) BY <1>1, <1>3, <2>2
    <3>2. d[i - 1 + 1] = c[i - 1] BY <1>3, <3>1
    <3> QED BY <3>1, <3>2
  <2> QED BY <2>2
<1>7. \A i, j \in 1 .. Len(d) : d[i] = d[j] => i = j
  <2>1. SUFFICES ASSUME NEW i \in 1 .. Len(d), NEW j \in 1 .. Len(d), d[i] = d[j] PROVE i = j
    OBVIOUS
  <2>2. CASE i = 1 \/ j = 1 BY <1>3, <1>5, <1>6, <2>1, <2>2
  <2>3. CASE i # 1 /\ j # 1
    <3>1. i - 1 \in 1 .. Len(c) /\ j - 1 \in 1 .. Len(c) /\ c[i - 1] = c[j - 1]
      BY <1>6, <2>1, <2>3
    <3>2. i - 1 = j - 1 BY <1>4, <3>1
    <3> QED BY <3>2
  <2> QED BY <2>2, <2>3
<1>8. ASSUME NEW i \in 1 .. Len(d)
      PROVE  other[d[i]] = IF i = Len(d) THEN Null ELSE d[i + 1]
  <2>1. CASE i = 1
    <3>1. Len(c) = 0 <=> c = <<>> BY <1>1
    <3>2. Len(c) # 0 => d[2] = c[1]
      <4>1. Len(c) # 0 => 1 \in 1 .. Len(c) BY <1>1
      <4> QED BY <1>3, <4>1
    <3> QED BY <1>1, <1>3, <2>1, <3>1, <3>2
  <2>2. CASE i # 1
    <3>1. PICK j \in 1 .. Len(c) : j = i - 1 /\ d[i] = c[j] BY <1>6, <2>2
    <3>2. next[c[j]] = IF j = Len(c) THEN Null ELSE c[j + 1] BY <3>1 DEF Chained
    <3>3. other[c[j]] = next[c[j]] BY <1>5
    <3>4. (j = Len(c) <=> i = Len(d)) /\ j + 1 = i BY <1>1, <1>3, <3>1
    <3>5. j # Len(c) => d[i + 1] = c[i] /\ i \in 1 .. Len(c) BY <1>1, <1>3, <3>1, <3>4
    <3> QED BY <3>1, <3>2, <3>3, <3>4, <3>5
  <2> QED BY <2>1, <2>2
<1>9. ToSet(d) = ToSet(c) \cup {m}
  <2>1. ASSUME NEW l, l \in ToSet(d) PROVE l \in ToSet(c) \cup {m}
    <3>1. PICK i \in 1 .. Len(d) : l = d[i] BY <1>3, <2>1, ToSetFacts
    <3> QED BY <1>3, <1>5, <1>6, <3>1
  <2>2. ASSUME NEW l, l \in ToSet(c) PROVE l \in ToSet(d)
    <3>1. PICK i \in 1 .. Len(c) : l = c[i] BY <1>1, <2>2, ToSetFacts
    <3>2. i + 1 \in 1 .. Len(d) /\ d[i + 1] = l BY <1>1, <1>3, <3>1
    <3> QED BY <1>3, <3>2, ToSetFacts
  <2>3. m \in ToSet(d)
    <3>1. 1 \in 1 .. Len(d) BY <1>1, <1>3
    <3> QED BY <1>3, <3>1, ToSetFacts
  <2> QED BY <2>1, <2>2, <2>3
<1>10. Chained(other, m, d) BY <1>3, <1>7, <1>8 DEF Chained
<1> QED BY <1>2, <1>3, <1>9, <1>10

\* An element is put at the end of a list.
Appended(next, other, start, c, m) ==
    /\ Chained(next, start, c)
    /\ m \in Msg /\ m \notin ToSet(c)
    /\ other[m] = Null
    /\ c # <<>> => other[c[Len(c)]] = m
    /\ \A i \in 1 .. Len(c) : i # Len(c) => other[c[i]] = next[c[i]]

LEMMA ChainAppend ==
  ASSUME NEW next, NEW other, NEW start, NEW c, NEW m, Appended(next, other, start, c, m)
  PROVE  /\ Chained(other, IF start = Null THEN m ELSE start, Append(c, m))
         /\ ToSet(Append(c, m)) = ToSet(c) \cup {m}
         /\ Append(c, m) # <<>> /\ Append(c, m)[Len(Append(c, m))] = m
         /\ Len(Append(c, m)) = Len(c) + 1
<1> USE DEF Appended
<1>1. c \in Seq(Msg) /\ (start = Null <=> c = <<>>) /\ (start # Null => start = c[1])
      /\ Len(c) \in Nat /\ (Len(c) = 0 <=> c = <<>>)
  BY ChainHead DEF Chained
<1>2. PICK d : d = Append(c, m) OBVIOUS
<1>3. /\ d \in Seq(Msg) /\ Len(d) = Len(c) + 1 /\ d[Len(c) + 1] = m /\ d # <<>>
      /\ \A i \in 1 .. Len(c) : d[i] = c[i]
  BY <1>1, <1>2
<1>4. \A i, j \in 1 .. Len(c) : c[i] = c[j] => i = j BY DEF Chained
<1>5. \A i \in 1 .. Len(c) : c[i] \in ToSet(c) BY <1>1, ToSetFacts
<1>6. \A i \in 1 .. Len(d) : i = Len(d) \/ i \in 1 .. Len(c) BY <1>1, <1>3
<1>7. \A i, j \in 1 .. Len(d) : d[i] = d[j] => i = j
  <2>1. SUFFICES ASSUME NEW i \in 1 .. Len(d), NEW j \in 1 .. Len(d), d[i] = d[j] PROVE i = j
    OBVIOUS
  <2>2. CASE i \in 1 .. Len(c) /\ j \in 1 .. Len(c) BY <1>3, <1>4, <2>1, <2>2
  <2>3. CASE i = Len(d) \/ j = Len(d) BY <1>3, <1>5, <1>6, <2>1, <2>3
  <2> QED BY <1>6, <2>2, <2>3
<1>8. ASSUME NEW i \in 1 .. Len(d)
      PROVE  other[d[i]] = IF i = Len(d) THEN Null ELSE d[i + 1]
  <2>1. CASE i = Len(d) BY <1>3, <2>1
  <2>2. CASE i = Len(c)
    <3>1. c # <<>> /\ d[i] = c[i] /\ i # Len(d) BY <1>1, <1>3, <2>2
    <3> QED BY <1>3, <2>2, <3>1
  <2>3. CASE i # Len(d) /\ i # Len(c)
    <3>1. i \in 1 .. Len(c) /\ i + 1 \in 1 .. Len(c) BY <1>1, <1>6, <2>3
    <3>2. next[c[i]] = IF i = Len(c) THEN Null ELSE c[i + 1] BY <3>1 DEF Chained
    <3>3. other[c[i]] = c[i + 1] BY <2>3, <3>1, <3>2
    <3> QED BY <1>3, <2>3, <3>1, <3>3
  <2> QED BY <2>1, <2>2, <2>3
<1>9. ToSet(d) = ToSet(c) \cup {m}
  <2>1. ASSUME NEW l, l \in ToSet(d) PROVE l \in ToSet(c) \cup {m}
    <3>1. PICK i \in 1 .. Len(d) : l = d[i] BY <1>3, <2>1, ToSetFacts
    <3> QED BY <1>3, <1>5, <1>6, <3>1
  <2>2. ASSUME NEW l, l \in ToSet(c) PROVE l \in ToSet(d)
    <3>1. PICK i \in 1 .. Len(c) : l = c[i] BY <1>1, <2>2, ToSetFacts
    <3>2. i \in 1 .. Len(d) /\ d[i] = l BY <1>1, <1>3, <3>1
    <3> QED BY <1>3, <3>2, ToSetFacts
  <2>3. m \in ToSet(d)
    <3>1. Len(d) \in 1 .. Len(d) BY <1>1, <1>3
    <3> QED BY <1>3, <3>1, ToSetFacts
  <2> QED BY <2>1, <2>2, <2>3
<1>10. (IF start = Null THEN m ELSE start) = d[1]
  <2>1. CASE c = <<>> BY <1>1, <1>3, <2>1
  <2>2. CASE c # <<>>
    <3>1. 1 \in 1 .. Len(c) BY <1>1, <2>2
    <3> QED BY <1>1, <1>3, <2>2, <3>1
  <2> QED BY <2>1, <2>2
<1>11. Chained(other, IF start = Null THEN m ELSE start, d)
  BY <1>3, <1>7, <1>8, <1>10 DEF Chained
<1> QED BY <1>2, <1>3, <1>9, <1>11

-----------------------------------------------------------------------------
(***************************************************************************)
(* The operations on the lists of a message queue.                         *)
(***************************************************************************)
MqState ==
    [next : [Msg -> Msg \cup {Null}], head : Msg \cup {Null}, tail : Msg \cup {Null},
     free : Msg \cup {Null}, entry : 0 .. MaxMsgs, data : [Msg -> Value \cup {NoValue}]]

\* The last element is on the list.
LEMMA ListTail ==
  ASSUME NEW s \in MqState, NEW c, NEW f, Lists(s, c, f)
  PROVE  /\ c \in Seq(Msg) /\ f \in Seq(Msg) /\ Len(c) \in Nat /\ Len(f) \in Nat
         /\ ToSet(c) \subseteq Msg /\ ToSet(f) \subseteq Msg
         /\ s.tail = Null <=> c = <<>>
         /\ c # <<>> => /\ s.tail = c[Len(c)] /\ s.tail \in ToSet(c) /\ s.tail \in Msg
                        /\ Len(c) \in 1 .. Len(c)
<1>1. c \in Seq(Msg) /\ f \in Seq(Msg) /\ Len(c) \in Nat /\ Len(f) \in Nat
  BY DEF Lists, Chained
<1>2. ToSet(c) \subseteq Msg /\ ToSet(f) \subseteq Msg BY <1>1, ToSetFacts
<1>3. ASSUME c # <<>> PROVE Len(c) \in 1 .. Len(c) BY <1>1, <1>3
<1>4. ASSUME c # <<>> PROVE s.tail = c[Len(c)] /\ s.tail \in ToSet(c) /\ s.tail \in Msg
  BY <1>1, <1>3, <1>4, ToSetFacts DEF Lists
<1>5. Null \notin Msg BY MessageQueueAssumption DEF Msg, Null
<1> QED BY <1>1, <1>2, <1>3, <1>4, <1>5 DEF Lists

LEMMA AllocLists ==
  ASSUME NEW s \in MqState, NEW c, NEW f, Lists(s, c, f), s.free # Null
  PROVE  /\ Alloc(s) \in MqState /\ Lists(Alloc(s), c, Tail(f))
         /\ Alloc(s).entry = s.entry /\ Alloc(s).data = s.data /\ Alloc(s).next = s.next
         /\ s.free \in Msg /\ s.free \in ToSet(f)
         /\ ToSet(Tail(f)) = ToSet(f) \ {s.free} /\ Len(Tail(f)) = Len(f) - 1
<1>1. Chained(s.next, s.head, c) /\ Chained(s.next, s.free, f) BY DEF Lists
<1>2. s.free \in Msg /\ s.free \in ToSet(f) BY <1>1, ChainHead
<1>3. /\ Chained(s.next, s.next[s.free], Tail(f))
      /\ ToSet(Tail(f)) = ToSet(f) \ {s.free} /\ Len(Tail(f)) = Len(f) - 1
  BY <1>1, ChainPop
<1>4. PICK r : r = Alloc(s) OBVIOUS
<1>5. /\ r \in MqState /\ r.next = s.next /\ r.head = s.head /\ r.tail = s.tail
      /\ r.free = s.next[s.free] /\ r.entry = s.entry /\ r.data = s.data
  BY <1>2, <1>4 DEF Alloc, MqState
<1>6. Lists(r, c, Tail(f)) BY <1>1, <1>3, <1>5 DEF Lists
<1> QED BY <1>2, <1>3, <1>4, <1>5, <1>6

\* A message that is on no list is written.
LEMMA WriteLists ==
  ASSUME NEW s \in MqState, NEW r \in MqState, NEW c, NEW f, Lists(s, c, f), NEW m,
         m \notin ToSet(c) \cup ToSet(f),
         r.head = s.head, r.tail = s.tail, r.free = s.free,
         \A l \in Msg \ {m} : r.next[l] = s.next[l]
  PROVE  Lists(r, c, f)
<1>1. Chained(s.next, s.head, c) /\ Chained(s.next, s.free, f) BY DEF Lists
<1>2. ToSet(c) \subseteq Msg \ {m} /\ ToSet(f) \subseteq Msg \ {m} BY ListTail
<1>3. Chained(r.next, s.head, c) /\ Chained(r.next, s.free, f)
  BY <1>1, <1>2, ChainFrame
<1> QED BY <1>3 DEF Lists

\* Message m is on no list.
OffLists(s, c, f, m) ==
    /\ s \in MqState /\ Lists(s, c, f)
    /\ m \in Msg /\ m \notin ToSet(c) \cup ToSet(f)

Copied(s, r, c, f, m, v) ==
    /\ r \in MqState /\ Lists(r, c, f)
    /\ r.entry = s.entry /\ r.head = s.head /\ r.free = s.free /\ r.data[m] = v
    /\ \A l \in Msg \ {m} : r.data[l] = s.data[l] /\ r.next[l] = s.next[l]

LEMMA CopyLists ==
  ASSUME NEW s, NEW c, NEW f, NEW m, OffLists(s, c, f, m), NEW v \in Value
  PROVE  /\ Copied(s, CopyIn(s, m, v), c, f, m, v) /\ CopyIn(s, m, v).next[m] = Null
         /\ Copied(s, CopyUrgent(s, m, v), c, f, m, v)
<1> USE DEF OffLists
<1>1. ASSUME NEW r, r = CopyIn(s, m, v) \/ r = CopyUrgent(s, m, v)
      PROVE  Copied(s, r, c, f, m, v)
  <2>1. /\ r \in MqState /\ r.entry = s.entry /\ r.data = [s.data EXCEPT ![m] = v]
        /\ r.head = s.head /\ r.tail = s.tail /\ r.free = s.free
        /\ \A l \in Msg \ {m} : r.next[l] = s.next[l]
    <3>1. CASE r = CopyIn(s, m, v) BY <3>1 DEF CopyIn, MqState
    <3>2. CASE r = CopyUrgent(s, m, v) BY <3>2 DEF CopyUrgent, MqState
    <3> QED BY <1>1, <3>1, <3>2
  <2>2. r.data[m] = v /\ \A l \in Msg \ {m} : r.data[l] = s.data[l] BY <2>1 DEF MqState
  <2>3. Lists(r, c, f) BY <2>1, WriteLists
  <2> QED BY <2>1, <2>2, <2>3 DEF Copied
<1>2. CopyIn(s, m, v).next[m] = Null BY DEF CopyIn, MqState
<1> QED BY <1>1, <1>2

\* A message that is on no list is linked to the end of the queue.
LEMMA LinkLists ==
  ASSUME NEW s, NEW c, NEW f, NEW m, OffLists(s, c, f, m), s.next[m] = Null,
         s.entry + 1 \in 0 .. MaxMsgs
  PROVE  LET r == Link(s, m) IN
         /\ r \in MqState /\ Lists(r, Append(c, m), f)
         /\ r.entry = s.entry + 1 /\ r.data = s.data /\ r.free = s.free
         /\ ToSet(Append(c, m)) = ToSet(c) \cup {m} /\ Len(Append(c, m)) = Len(c) + 1
         /\ \A l \in Msg \ ToSet(c) : r.next[l] = s.next[l]
<1> USE DEF OffLists
<1>20. PICK r : r = Link(s, m) OBVIOUS
<1>1. Chained(s.next, s.head, c) /\ Chained(s.next, s.free, f) BY DEF Lists
<1>2. /\ c \in Seq(Msg) /\ f \in Seq(Msg) /\ Len(c) \in Nat
      /\ ToSet(c) \subseteq Msg /\ ToSet(f) \subseteq Msg
      /\ s.tail = Null <=> c = <<>>
      /\ c # <<>> => /\ s.tail = c[Len(c)] /\ s.tail \in ToSet(c) /\ s.tail \in Msg
                     /\ Len(c) \in 1 .. Len(c)
  BY ListTail
<1>3. PICK e \in 0 .. MaxMsgs : e = s.entry + 1 OBVIOUS
<1>4. /\ r \in MqState /\ r.tail = m /\ r.head = (IF s.head = Null THEN m ELSE s.head)
      /\ r.entry = e /\ r.data = s.data /\ r.free = s.free
      /\ r.next = IF s.tail = Null THEN s.next ELSE [s.next EXCEPT ![s.tail] = m]
  <2>1. CASE s.tail = Null BY ONLY <1>3, <2>1, s \in MqState, m \in Msg, <1>20 DEF Link, MqState
  <2>2. CASE s.tail # Null
    BY ONLY <1>2, <1>3, <2>2, s \in MqState, m \in Msg, <1>20 DEF Link, MqState
  <2> QED BY <2>1, <2>2
<1>5. s.next \in [Msg -> Msg \cup {Null}] BY DEF MqState
<1>6. \A l \in Msg : l # s.tail => r.next[l] = s.next[l] BY <1>4, <1>5
<1>7. r.next[m] = Null BY <1>2, <1>4, <1>6
<1>8. c # <<>> => r.next[c[Len(c)]] = m BY <1>2, <1>4, <1>5
<1>9. ASSUME NEW i \in 1 .. Len(c), i # Len(c) PROVE r.next[c[i]] = s.next[c[i]]
  <2>1. c # <<>> /\ c[i] \in Msg /\ Len(c) \in 1 .. Len(c) BY <1>2, <1>9
  <2>2. c[i] # c[Len(c)] BY <1>1, <1>9, <2>1 DEF Chained
  <2> QED BY <1>2, <1>6, <2>1, <2>2
<1>10. m \notin ToSet(c) /\ m \notin ToSet(f) OBVIOUS
<1>11. /\ Chained(r.next, r.head, Append(c, m))
       /\ ToSet(Append(c, m)) = ToSet(c) \cup {m}
       /\ Append(c, m) # <<>> /\ Append(c, m)[Len(Append(c, m))] = m
       /\ Len(Append(c, m)) = Len(c) + 1
  <2>1. Appended(s.next, r.next, s.head, c, m)
    BY <1>1, <1>7, <1>8, <1>9, <1>10 DEF Appended
  <2> QED BY ONLY <1>4, <2>1, ChainAppend
<1>12. Chained(r.next, r.free, f)
  <2>1. \A l \in ToSet(f) : r.next[l] = s.next[l]
    <3>1. s.tail \notin ToSet(f)
      BY <1>2, MessageQueueAssumption DEF Lists, Msg, Null
    <3> QED BY <1>2, <1>6, <3>1
  <2> QED BY <1>1, <1>4, <2>1, ChainFrame
<1>13. Lists(r, Append(c, m), f)
  <2>1. (ToSet(c) \cup {m}) \cap ToSet(f) = {} BY <1>10 DEF Lists
  <2> QED BY <1>4, <1>11, <1>12, <2>1 DEF Lists
<1>14. \A l \in Msg \ ToSet(c) : r.next[l] = s.next[l]
  BY <1>2, <1>6, MessageQueueAssumption DEF Msg, Null
<1> QED BY <1>3, <1>4, <1>11, <1>13, <1>14, <1>20

\* A message that is on no list is linked to the beginning of the queue.
LEMMA UrgentLists ==
  ASSUME NEW s, NEW c, NEW f, NEW m, OffLists(s, c, f, m),
         s.entry + 1 \in 0 .. MaxMsgs
  PROVE  LET r == LinkUrgent(s, m) IN
         /\ r \in MqState /\ Lists(r, <<m>> \o c, f)
         /\ r.entry = s.entry + 1 /\ r.data = s.data /\ r.free = s.free
         /\ ToSet(<<m>> \o c) = ToSet(c) \cup {m} /\ Len(<<m>> \o c) = Len(c) + 1
         /\ \A l \in Msg \ {m} : r.next[l] = s.next[l]
<1> USE DEF OffLists
<1>20. PICK r : r = LinkUrgent(s, m) OBVIOUS
<1>1. Chained(s.next, s.head, c) /\ Chained(s.next, s.free, f) BY DEF Lists
<1>2. /\ c \in Seq(Msg) /\ f \in Seq(Msg) /\ Len(c) \in Nat
      /\ ToSet(c) \subseteq Msg /\ ToSet(f) \subseteq Msg
      /\ s.tail = Null <=> c = <<>>
      /\ c # <<>> => s.tail = c[Len(c)] /\ Len(c) \in 1 .. Len(c)
  BY ListTail
<1>3. PICK e \in 0 .. MaxMsgs : e = s.entry + 1 OBVIOUS
<1>4. /\ r \in MqState /\ r.tail = (IF s.tail = Null THEN m ELSE s.tail) /\ r.head = m
      /\ r.entry = e /\ r.data = s.data /\ r.free = s.free
      /\ r.next = [s.next EXCEPT ![m] = s.head]
  BY ONLY <1>3, s \in MqState, m \in Msg, <1>20 DEF LinkUrgent, MqState
<1>5. s.next \in [Msg -> Msg \cup {Null}] BY DEF MqState
<1>6. r.next[m] = s.head /\ \A l \in Msg \ {m} : r.next[l] = s.next[l] BY <1>4, <1>5
<1>7. m \notin ToSet(c) /\ m \notin ToSet(f) OBVIOUS
<1>8. /\ \A l \in ToSet(c) : r.next[l] = s.next[l]
      /\ \A l \in ToSet(f) : r.next[l] = s.next[l]
  BY <1>2, <1>6, <1>7
<1>9. PICK d : d = <<m>> \o c OBVIOUS
<1>10. /\ Chained(r.next, m, d) /\ ToSet(d) = ToSet(c) \cup {m}
       /\ Len(d) = Len(c) + 1
       /\ d[1] = m /\ \A i \in 1 .. Len(c) : d[i + 1] = c[i]
  <2>1. Pushed(s.next, r.next, s.head, c, m)
    BY <1>1, <1>6, <1>7, <1>8 DEF Pushed
  <2> QED BY ONLY <1>9, <2>1, ChainPush
<1>11. Chained(r.next, s.free, f) BY <1>1, <1>8, ChainFrame
<1>12. r.tail = IF d = <<>> THEN Null ELSE d[Len(d)]
  <2>1. d # <<>> BY <1>2, <1>9
  <2>2. CASE c = <<>> BY <1>2, <1>4, <1>10, <2>1, <2>2
  <2>3. CASE c # <<>>
    <3>1. d[Len(c) + 1] = c[Len(c)] BY <1>2, <1>10, <2>3
    <3> QED BY <1>2, <1>4, <1>10, <2>1, <2>3, <3>1
  <2> QED BY <2>2, <2>3
<1>13. (ToSet(c) \cup {m}) \cap ToSet(f) = {} BY <1>7 DEF Lists
<1>14. Lists(r, d, f) BY <1>4, <1>10, <1>11, <1>12, <1>13 DEF Lists
<1> QED BY <1>3, <1>4, <1>6, <1>9, <1>10, <1>14, <1>20

\* The head is taken off the queue.
LEMMA UnlinkLists ==
  ASSUME NEW s \in MqState, NEW c, NEW f, Lists(s, c, f), s.head # Null
  PROVE  LET r == Unlink(s) IN
         /\ r \in MqState /\ Lists(r, Tail(c), f)
         /\ r.entry = s.entry /\ r.data = s.data /\ r.free = s.free /\ r.next = s.next
         /\ s.head \in Msg /\ s.head \in ToSet(c) /\ s.head = c[1] /\ c # <<>>
         /\ ToSet(Tail(c)) = ToSet(c) \ {s.head} /\ Len(Tail(c)) = Len(c) - 1
<1>20. PICK r : r = Unlink(s) OBVIOUS
<1>1. Chained(s.next, s.head, c) /\ Chained(s.next, s.free, f) BY DEF Lists
<1>2. s.head \in Msg /\ s.head \in ToSet(c) /\ s.head = c[1] /\ Len(c) > 0 /\ c # <<>>
  BY <1>1, ChainHead
<1>3. /\ c \in Seq(Msg) /\ Len(c) \in Nat /\ Len(c) \in 1 .. Len(c) /\ s.tail = c[Len(c)]
  BY <1>2, ListTail
<1>4. PICK d : d = Tail(c) OBVIOUS
<1>5. /\ Chained(s.next, s.next[s.head], d) /\ ToSet(d) = ToSet(c) \ {s.head}
      /\ Len(d) = Len(c) - 1 /\ Len(c) - 1 \in Nat
      /\ \A i \in 1 .. Len(c) - 1 : d[i] = c[i + 1]
  BY ONLY <1>1, <1>4, s.head # Null, ChainPop
<1>6. /\ r \in MqState /\ r.tail = (IF s.tail = s.head THEN Null ELSE s.tail)
      /\ r.head = s.next[s.head] /\ r.entry = s.entry /\ r.data = s.data
      /\ r.free = s.free /\ r.next = s.next
  BY ONLY <1>2, s \in MqState, <1>20 DEF Unlink, MqState
<1>7. r.tail = IF d = <<>> THEN Null ELSE d[Len(d)]
  <2>1. d \in Seq(Msg) BY <1>5 DEF Chained
  <2>2. 1 \in 1 .. Len(c) BY <1>2, <1>3
  <2>3. s.tail = s.head <=> Len(c) = 1 BY <1>1, <1>2, <1>3, <2>2 DEF Chained
  <2>4. d = <<>> <=> Len(c) = 1 BY <1>3, <1>5, <2>1
  <2>5. ASSUME Len(c) # 1 PROVE d[Len(d)] = c[Len(c)]
    <3>1. Len(c) - 1 \in 1 .. Len(c) - 1 BY <1>3, <1>5, <2>5
    <3>2. d[Len(c) - 1] = c[Len(c) - 1 + 1] BY <1>5, <3>1
    <3> QED BY <1>3, <1>5, <3>2
  <2> QED BY <1>3, <1>6, <2>3, <2>4, <2>5
<1>8. Lists(r, d, f) BY <1>1, <1>5, <1>6, <1>7 DEF Lists
<1> QED BY <1>2, <1>4, <1>5, <1>6, <1>8, <1>20

\* A message that is on no list is freed.
LEMMA FreeLists ==
  ASSUME NEW s, NEW c, NEW f, NEW m, OffLists(s, c, f, m)
  PROVE  LET r == Free(s, m) IN
         /\ r \in MqState /\ Lists(r, c, <<m>> \o f)
         /\ r.entry = s.entry /\ r.data = s.data /\ r.head = s.head /\ r.tail = s.tail
         /\ ToSet(<<m>> \o f) = ToSet(f) \cup {m} /\ Len(<<m>> \o f) = Len(f) + 1
         /\ \A l \in Msg \ {m} : r.next[l] = s.next[l]
<1> USE DEF OffLists
<1>20. PICK r : r = Free(s, m) OBVIOUS
<1>1. Chained(s.next, s.head, c) /\ Chained(s.next, s.free, f) BY DEF Lists
<1>2. ToSet(c) \subseteq Msg /\ ToSet(f) \subseteq Msg BY ListTail
<1>3. /\ r \in MqState /\ r.tail = s.tail /\ r.head = s.head /\ r.entry = s.entry
      /\ r.data = s.data /\ r.free = m /\ r.next = [s.next EXCEPT ![m] = s.free]
  BY ONLY s \in MqState, m \in Msg, <1>20 DEF Free, MqState
<1>4. s.next \in [Msg -> Msg \cup {Null}] BY DEF MqState
<1>5. r.next[m] = s.free /\ \A l \in Msg \ {m} : r.next[l] = s.next[l] BY <1>3, <1>4
<1>6. m \notin ToSet(c) /\ m \notin ToSet(f) OBVIOUS
<1>7. /\ \A l \in ToSet(c) : r.next[l] = s.next[l]
      /\ \A l \in ToSet(f) : r.next[l] = s.next[l]
  BY <1>2, <1>5, <1>6
<1>8. PICK d : d = <<m>> \o f OBVIOUS
<1>9. /\ Chained(r.next, m, d) /\ ToSet(d) = ToSet(f) \cup {m} /\ Len(d) = Len(f) + 1
  <2>1. Pushed(s.next, r.next, s.free, f, m)
    BY <1>1, <1>5, <1>6, <1>7 DEF Pushed
  <2> QED BY ONLY <1>8, <2>1, ChainPush
<1>10. Chained(r.next, s.head, c) BY <1>1, <1>7, ChainFrame
<1>11. ToSet(c) \cap (ToSet(f) \cup {m}) = {} BY <1>6 DEF Lists
<1>12. Lists(r, c, d) BY <1>3, <1>9, <1>10, <1>11 DEF Lists
<1> QED BY <1>3, <1>5, <1>8, <1>9, <1>12, <1>20

\* rt_mq_init
LEMMA FreshLists ==
  ASSUME NEW data \in [Msg -> Value \cup {NoValue}], NEW r, r = Fresh(data)
  PROVE  /\ r \in MqState /\ r.entry = 0
         /\ \E f \in Seq(Msg) : Lists(r, <<>>, f) /\ ToSet(f) = Msg /\ Len(f) = MaxMsgs
<1>1. MaxMsgs \in Nat \ {0} /\ 0 \in 0 .. MaxMsgs BY MessageQueueAssumption
<1>2. \A m \in Msg : m - 1 \in Msg \cup {Null} BY <1>1 DEF Msg, Null
<1>3. MaxMsgs \in Msg \cup {Null} BY <1>1 DEF Msg
<1>4. /\ r \in MqState /\ r.next = [m \in Msg |-> m - 1] /\ r.head = Null /\ r.tail = Null
      /\ r.free = MaxMsgs /\ r.entry = 0
  BY ONLY <1>1, <1>2, <1>3, data \in [Msg -> Value \cup {NoValue}], r = Fresh(data)
  DEF Fresh, MqState, Null
<1>5. PICK f : f = [i \in 1 .. MaxMsgs |-> MaxMsgs + 1 - i] OBVIOUS
<1>6. \A i \in 1 .. MaxMsgs : MaxMsgs + 1 - i \in Msg BY <1>1 DEF Msg
<1>7. f \in Seq(Msg) /\ Len(f) = MaxMsgs /\ \A i \in 1 .. MaxMsgs : f[i] = MaxMsgs + 1 - i
  BY <1>1, <1>5, <1>6
<1>8. ToSet(f) = Msg
  <2>1. ASSUME NEW m \in Msg PROVE m \in ToSet(f)
    <3>1. PICK i \in 1 .. MaxMsgs : i = MaxMsgs + 1 - m BY <1>1 DEF Msg
    <3>2. f[i] = MaxMsgs + 1 - i BY <1>7
    <3>3. f[i] = m BY <1>1, <3>1, <3>2 DEF Msg
    <3>4. i \in 1 .. Len(f) BY <1>7
    <3> QED BY <1>7, <3>3, <3>4, ToSetFacts
  <2> QED BY <1>7, <2>1, ToSetFacts
<1>9. Chained(r.next, r.free, f)
  <2>1. \A i, j \in 1 .. Len(f) : f[i] = f[j] => i = j BY <1>1, <1>7
  <2>2. f # <<>> BY <1>1, <1>7
  <2>3. 1 \in 1 .. MaxMsgs BY <1>1
  <2>4. f[1] = MaxMsgs BY <1>1, <1>7, <2>3
  <2>5. ASSUME NEW i \in 1 .. Len(f)
        PROVE  r.next[f[i]] = IF i = Len(f) THEN Null ELSE f[i + 1]
    <3>1. i \in 1 .. MaxMsgs /\ f[i] = MaxMsgs + 1 - i /\ f[i] \in Msg BY <1>6, <1>7
    <3>2. r.next[f[i]] = f[i] - 1 BY <1>4, <3>1
    <3>3. CASE i = Len(f) BY <1>1, <1>7, <3>1, <3>2, <3>3 DEF Null
    <3>4. CASE i # Len(f)
      <4>1. i + 1 \in 1 .. MaxMsgs BY <1>1, <1>7, <3>4
      <4>2. f[i + 1] = MaxMsgs + 1 - (i + 1) BY <1>7, <4>1
      <4> QED BY <1>1, <3>1, <3>2, <3>4, <4>2
    <3> QED BY <3>3, <3>4
  <2> QED BY <1>4, <1>7, <2>1, <2>2, <2>4, <2>5 DEF Chained
<1>10. Chained(r.next, r.head, <<>>) BY <1>4 DEF Chained
<1>11. Lists(r, <<>>, f)
  <2>1. ToSet(<<>>) = {} BY DEF ToSet
  <2> QED BY <1>4, <1>9, <1>10, <2>1 DEF Lists
<1> QED BY <1>4, <1>7, <1>8, <1>11

-----------------------------------------------------------------------------
(***************************************************************************)
(* Who has the messages.                                                   *)
(***************************************************************************)
LEMMA HolderFacts ==
  ASSUME NEW H \in SUBSET Thread
  PROVE  IsFiniteSet(H) /\ Cardinality(H) \in Nat
BY KernelAssumption, FS_Subset, FS_CardinalityType

\* A call takes a message off a list.
LEMMA MessageTaken ==
  ASSUME msg \in [Thread -> Msg \cup {Null}], NEW U \in SUBSET Msg, NEW n \in Nat,
         Accounted(U, n), NEW t \in Thread, msg[t] = Null, NEW m \in U,
         msg' = [msg EXCEPT ![t] = m]
  PROVE  Accounted(U \ {m}, n - 1)' /\ msg' \in [Thread -> Msg \cup {Null}]
<1>1. m \in Msg /\ Null \notin Msg BY MessageQueueAssumption DEF Msg, Null
<1>2. \A u \in Thread : msg'[u] = IF u = t THEN m ELSE msg[u] OBVIOUS
<1>3. Holders \in SUBSET Thread /\ Holders' = Holders \cup {t} /\ t \notin Holders
  BY <1>1, <1>2 DEF Holders
<1>4. Cardinality(Holders') = Cardinality(Holders) + 1 /\ Cardinality(Holders) \in Nat
  BY <1>3, HolderFacts, FS_AddElement
<1>5. n - 1 + Cardinality(Holders') = MaxMsgs BY <1>4 DEF Accounted
<1>6. \A u \in Thread : msg'[u] \notin U \ {m} BY <1>2 DEF Accounted
<1>7. ASSUME NEW u \in Holders', NEW w \in Holders', msg'[u] = msg'[w] PROVE u = w
  <2>1. \A x \in Thread : msg[x] # m BY DEF Accounted
  <2> QED BY <1>2, <1>3, <1>7, <2>1 DEF Accounted
<1>8. ASSUME NEW l \in Msg PROVE l \in U \ {m} \/ \E u \in Thread : msg'[u] = l
  <2>1. CASE l = m BY <1>2, <2>1
  <2>2. CASE l # m /\ l \notin U
    <3>1. PICK u \in Thread : msg[u] = l BY <2>2 DEF Accounted
    <3>2. u # t BY <1>1, <3>1
    <3> QED BY <1>2, <3>1, <3>2
  <2> QED BY <2>1, <2>2
<1>9. Accounted(U \ {m}, n - 1)' BY <1>5, <1>6, <1>7, <1>8 DEF Accounted
<1>10. msg' \in [Thread -> Msg \cup {Null}] BY <1>1
<1> QED BY <1>9, <1>10

\* A call gives its message back.
LEMMA MessageGiven ==
  ASSUME msg \in [Thread -> Msg \cup {Null}], NEW U \in SUBSET Msg, NEW n \in Nat,
         Accounted(U, n), NEW t \in Thread, NEW m \in Msg, msg[t] = m,
         msg' = [msg EXCEPT ![t] = Null]
  PROVE  /\ Accounted(U \cup {m}, n + 1)' /\ msg' \in [Thread -> Msg \cup {Null}]
         /\ n + 1 <= MaxMsgs /\ m \notin U
         /\ \A u \in Thread \ {t} : msg[u] # m
<1>1. Null \notin Msg BY MessageQueueAssumption DEF Msg, Null
<1>2. \A u \in Thread : msg'[u] = IF u = t THEN Null ELSE msg[u] OBVIOUS
<1>3. Holders \in SUBSET Thread /\ Holders' = Holders \ {t} /\ t \in Holders
  BY <1>1, <1>2 DEF Holders
<1>4. Cardinality(Holders') = Cardinality(Holders) - 1 /\ Cardinality(Holders) \in Nat
      /\ Cardinality(Holders') \in Nat
  <2>1. Holders' \in SUBSET Thread BY <1>3
  <2> QED BY <1>3, <2>1, HolderFacts, FS_RemoveElement
<1>5. n + Cardinality(Holders) = MaxMsgs BY DEF Accounted
<1>6. n + 1 + Cardinality(Holders') = MaxMsgs /\ n + 1 <= MaxMsgs BY <1>4, <1>5
<1>7. \A u \in Thread \ {t} : msg[u] # m BY <1>1, <1>3 DEF Accounted, Holders
<1>8. \A u \in Thread : msg'[u] \notin U \cup {m} BY <1>1, <1>2, <1>7 DEF Accounted
<1>9. \A u, w \in Holders' : msg'[u] = msg'[w] => u = w
  BY <1>2, <1>3 DEF Accounted
<1>10. \A l \in Msg : l \in U \cup {m} \/ \E u \in Thread : msg'[u] = l
  BY <1>2 DEF Accounted
<1>11. Accounted(U \cup {m}, n + 1)' BY <1>6, <1>8, <1>9, <1>10 DEF Accounted
<1> QED BY <1>6, <1>7, <1>11 DEF Accounted

LEMMA MessagesStay ==
  ASSUME NEW U, NEW n, Accounted(U, n), msg' = msg
  PROVE  Accounted(U, n)'
BY DEF Accounted, Holders

LEMMA RoomLeft ==
  ASSUME NEW U, NEW n \in Nat, Accounted(U, n)
  PROVE  n <= MaxMsgs
<1>1. Holders \in SUBSET Thread BY DEF Holders
<1> QED BY <1>1, HolderFacts, MessageQueueAssumption DEF Accounted

\* What a call in progress has of its message, after a step of another thread.
CallKept(u) ==
    /\ pc'[u] = pc[u] /\ msg'[u] = msg[u] /\ buffer'[u] = buffer[u]
    /\ pc[u] = "send_link" => q'.next[msg[u]] = q.next[msg[u]]
    /\ pc[u] \in {"send_link", "urgent_link"} => q'.data[msg[u]] = q.data[msg[u]]

LEMMA CallStays ==
  ASSUME NEW u \in Thread, CallOK(u), CallKept(u)
  PROVE  CallOK(u)'
BY DEF CallOK, CallKept

\* Thread u does nothing to the messages.
Aside(u) ==
    \/ pc'[u] = pc[u]
    \/ /\ {pc[u], pc'[u]} \cap (Sending \cup Copying) = {}
       /\ pc'[u] \in {"recv_sched", "recv_return"} => u \in Receiver

LEMMA PoolAside ==
  ASSUME Pool, UNCHANGED <<q, msg, buffer>>, \A u \in Thread : Aside(u),
         (\A u \in Thread : pc'[u] # "reset_free") => \A u \in Thread : pc[u] # "reset_free"
  PROVE  Pool'
<1>1. PICK c, f \in Seq(Msg) : Partition(c, f) BY DEF Pool
<1>2. Partition(c, f)'
  <2>1. Lists(q, c, f)' BY <1>1 DEF Partition
  <2>2. Accounted(ToSet(c) \cup ToSet(f), Len(c) + Len(f))'
    BY <1>1, MessagesStay DEF Partition
  <2>3. Counted(c)' BY <1>1 DEF Partition, Counted
  <2> QED BY <2>1, <2>2, <2>3 DEF Partition
<1>3. ASSUME NEW u \in Thread PROVE CallOK(u)'
  <2>1. CallOK(u) BY DEF Pool
  <2>2. CASE pc'[u] = pc[u] BY <2>1, <2>2, CallStays DEF CallKept
  <2>3. CASE pc'[u] # pc[u] BY <2>1, <2>3 DEF CallOK, Aside, Sending, Copying
  <2> QED BY <2>2, <2>3
<1> QED BY <1>2, <1>3 DEF Pool

-----------------------------------------------------------------------------
(***************************************************************************)
(* What the parts of the invariant say at the places they are used.        *)
(***************************************************************************)
LEMMA Types ==
  ASSUME IInv
  PROVE  /\ TypeOK /\ Waits /\ Pool /\ SystemOK(Blocking) /\ IrqOK
         /\ k \in KernelState /\ KernelOK(k) /\ k.nest = 0 /\ pc \in [Thread -> Pc]
         /\ k.stat \in [Thread -> Stat] /\ k.error \in [Thread -> Error]
         /\ Mq \in Queue /\ Flag \in {"RT_IPC_FLAG_FIFO", "RT_IPC_FLAG_PRIO"}
         /\ NoThread \notin Thread /\ Woken \in SUBSET Thread
         /\ q \in MqState /\ q.entry \in 0 .. MaxMsgs /\ MaxMsgs \in Nat \ {0}
         /\ msg \in [Thread -> Msg \cup {Null}] /\ buffer \in [Thread -> Value \cup {NoValue}]
         /\ timeout \in [Thread -> Time] /\ alive \in BOOLEAN
<1>1. TypeOK /\ Waits /\ Pool BY DEF IInv
<1>2. SystemOK(Blocking) /\ IrqOK BY <1>1 DEF Waits
<1>3. /\ k \in KernelState /\ pc \in [Thread -> Pc] /\ q \in MqState
      /\ msg \in [Thread -> Msg \cup {Null}] /\ buffer \in [Thread -> Value \cup {NoValue}]
      /\ timeout \in [Thread -> Time] /\ alive \in BOOLEAN
  BY <1>1 DEF TypeOK, MqState
<1>4. k.stat \in [Thread -> Stat] /\ k.error \in [Thread -> Error] BY <1>3 DEF KernelState
<1>5. KernelOK(k) /\ k.nest = 0 BY <1>2 DEF SystemOK
<1>6. q.entry \in 0 .. MaxMsgs BY <1>3 DEF MqState
<1>7. Woken \in SUBSET Thread BY DEF Woken, InRecv
<1> QED BY <1>1, <1>2, <1>3, <1>4, <1>5, <1>6, <1>7, KernelAssumption, MessageQueueAssumption

\* The types after a step.
LEMMA TypesNext ==
  ASSUME SystemOK(Blocking)', irq' \in Thread \cup {NoThread}, pc' \in [Thread -> Pc],
         q' \in MqState, msg' \in [Thread -> Msg \cup {Null}],
         buffer' \in [Thread -> Value \cup {NoValue}], timeout' \in [Thread -> Time],
         alive' \in BOOLEAN
  PROVE  TypeOK'
<1>1. k' \in KernelState /\ k'.current # Wild BY DEF SystemOK
<1> QED BY <1>1 DEF TypeOK, MqState

\* A thread that runs its own code with interrupts enabled.
LEMMA CallerFacts ==
  ASSUME IInv, NEW t \in Thread, Running(t), pc[t] \notin Masked
  PROVE  /\ irq = NoThread /\ k.current = t
         /\ pc[t] \notin Blocking => k.stat[t] = "ready" /\ t \notin ToSet(k.wait[Mq])
<1>1. irq = NoThread /\ k.current = t BY Types DEF Running, IrqOK
<1>2. ASSUME pc[t] \notin Blocking
      PROVE  k.stat[t] = "ready" /\ t \notin ToSet(k.wait[Mq])
  <2>1. k.stat[t] = "ready" BY <1>1, <1>2, Types DEF SystemOK
  <2>2. ThreadOK(t) BY DEF IInv, Waits
  <2> QED BY <2>1, <2>2 DEF ThreadOK
<1> QED BY <1>1, <1>2

\* The list, by its members.
LEMMA ListFacts ==
  ASSUME NEW s \in KernelState
  PROVE  /\ s.wait[Mq] = <<>> <=> ToSet(s.wait[Mq]) = {}
         /\ ToSet(s.wait[Mq]) \subseteq Thread
<1>1. s.wait[Mq] \in Seq(Thread) BY MessageQueueAssumption DEF KernelState
<1> QED BY <1>1, HeadToSet

\* Thread u stays where it is, as far as the waiting receivers are concerned.
Stays(u) == u \in InRecv' <=> u \in InRecv

Same(u) ==
    /\ Stays(u)
    /\ u \in ToSet(k'.wait[Mq]) <=> u \in ToSet(k.wait[Mq])
    /\ u \in InRecv => k'.stat[u] = k.stat[u] /\ k'.error[u] = k.error[u]

LEMMA SameKept ==
  ASSUME NEW u \in Thread, ThreadOK(u), Same(u)
  PROVE  /\ ThreadOK(u)'
         /\ u \in Woken' <=> u \in Woken
<1>1. ThreadOK(u)' BY DEF ThreadOK, Same, Stays
<1>2. u \in Woken' <=> u \in Woken BY DEF Same, Stays, Woken
<1> QED BY <1>1, <1>2

\* The count does not notice a step that leaves the messages on the queue and
\* the woken threads alone, and puts nobody on the list.
LEMMA CountKeeps ==
  ASSUME IInv, k' \in KernelState,
         q'.entry = q.entry \/ k.wait[Mq] = <<>>,
         ToSet(k'.wait[Mq]) \subseteq ToSet(k.wait[Mq]),
         \A u \in Thread : u \in Woken' <=> u \in Woken
  PROVE  RecvCount'
<1>1. k'.wait[Mq] # <<>> => k.wait[Mq] # <<>> BY Types, ListFacts
<1>2. Woken' \subseteq Thread BY DEF Woken, InRecv
<1>3. Woken' = Woken BY <1>2, Types
<1> QED BY <1>1, <1>3 DEF IInv, Waits, RecvCount

\* A step that leaves the list and the receivers alone.
LEMMA WaitsQuiet ==
  ASSUME IInv, SystemOK(Blocking)', IrqOK', k'.wait = k.wait,
         q'.entry = q.entry \/ k.wait[Mq] = <<>>,
         \A u \in Thread : Stays(u),
         \A u \in InRecv : k'.stat[u] = k.stat[u] /\ k'.error[u] = k.error[u]
  PROVE  Waits'
<1>1. \A u \in Thread : Same(u) BY DEF Same
<1>2. \A u \in Thread : ThreadOK(u)' /\ (u \in Woken' <=> u \in Woken)
  BY <1>1, SameKept DEF IInv, Waits
<1>3. k' \in KernelState BY DEF SystemOK
<1>4. RecvCount' BY <1>2, <1>3, CountKeeps
<1> QED BY <1>2, <1>4 DEF Waits

\* ... and the messages too.
LEMMA Quiet ==
  ASSUME IInv, SystemOK(Blocking)', IrqOK', irq' \in Thread \cup {NoThread},
         pc' \in [Thread -> Pc], alive' \in BOOLEAN, UNCHANGED <<q, callVars>>,
         k'.wait = k.wait,
         \A u \in Thread : Stays(u) /\ Aside(u),
         \A u \in InRecv : k'.stat[u] = k.stat[u] /\ k'.error[u] = k.error[u],
         (\A u \in Thread : pc'[u] # "reset_free") => \A u \in Thread : pc[u] # "reset_free"
  PROVE  IInv'
<1>1. UNCHANGED <<q, msg, buffer, timeout>> BY DEF callVars
<1>2. Waits' BY <1>1, WaitsQuiet
<1>3. Pool' BY <1>1, PoolAside, Types
<1>4. TypeOK' BY <1>1, Types, TypesNext
<1> QED BY <1>2, <1>3, <1>4 DEF IInv

LEMMA StutterKeeps ==
  ASSUME IInv, UNCHANGED vars
  PROVE  IInv'
<1>1. UNCHANGED <<q, callVars>> /\ k' = k /\ irq' = irq /\ pc' = pc /\ alive' = alive
  BY DEF vars, callVars
<1>2. SystemOK(Blocking)' /\ IrqOK' BY <1>1, Types DEF SystemOK, IrqOK
<1>3. \A u \in Thread : Stays(u) /\ Aside(u) BY <1>1 DEF Stays, InRecv, Aside
<1>4. irq' \in Thread \cup {NoThread} BY <1>1, Types DEF TypeOK
<1> QED BY <1>1, <1>2, <1>3, <1>4, Quiet, Types

-----------------------------------------------------------------------------
(***************************************************************************)
(* The steps that send and receive nothing.                                *)
(***************************************************************************)

\* A step of t with interrupts enabled before and after it.
LEMMA IrqCalm ==
  ASSUME IInv, irq = NoThread, irq' = NoThread, NEW t \in Thread, NEW to \in Pc \ Masked,
         pc' = [pc EXCEPT ![t] = to]
  PROVE  /\ IrqOK' /\ pc' \in [Thread -> Pc] /\ irq' \in Thread \cup {NoThread}
         /\ \A u \in Thread : pc'[u] = IF u = t THEN to ELSE pc[u]
         /\ \A u \in Thread : pc[u] # "reset_free" /\ pc'[u] # "reset_free"
<1>1. pc \in [Thread -> Pc] BY Types
<1>2. \A u \in Thread : pc'[u] = IF u = t THEN to ELSE pc[u] BY <1>1
<1>3. NoThread \notin Thread BY KernelAssumption
<1>4. \A u \in Thread : pc[u] \notin Masked /\ pc'[u] \notin Masked
  BY <1>2, <1>3, Types DEF IrqOK
<1>5. IrqOK' BY <1>3, <1>4 DEF IrqOK, Masked
<1>6. \A u \in Thread : pc[u] # "reset_free" /\ pc'[u] # "reset_free" BY <1>4 DEF Masked
<1> QED BY <1>1, <1>2, <1>5, <1>6

LEMMA BootKeeps ==
  ASSUME IInv, Boot
  PROVE  IInv'
<1>1. SystemOK(Blocking) /\ "run" \notin Blocking BY Types DEF Blocking
<1>2. StartStep \/ \E t \in Thread : BootStep(t) BY DEF Boot
<1>3. /\ SystemOK(Blocking)' /\ k'.wait = k.wait /\ pc' = pc /\ irq' = irq
      /\ \A u \in Thread : pc[u] = "run"
  BY <1>1, <1>2, BootEffect
<1>4. UNCHANGED <<q, callVars, alive>> BY DEF Boot, mqVars, callVars
<1>5. \A u \in Thread : Stays(u) /\ Aside(u) BY <1>3 DEF Stays, InRecv, Aside
<1>6. InRecv = {} BY <1>3 DEF InRecv
<1>7. k.current = NoThread BY DEF Boot, StartStep, BootStep
<1>8. irq = NoThread BY <1>7, Types DEF IrqOK
<1>9. IrqOK' BY <1>3, <1>8, KernelAssumption DEF IrqOK, Masked
<1> QED BY <1>3, <1>4, <1>5, <1>6, <1>8, <1>9, Quiet, Types

\* A thread calls rt_schedule, to block or at the end of a call.
LEMMA ScheduleKeeps ==
  ASSUME IInv, NEW t \in Thread, RecvSchedule(t) \/ CallSchedule(t)
  PROVE  IInv'
<1>1. PICK from \in {"recv_sched", "sched"}, to \in {"recv_return", "run"} :
         /\ ScheduleStep(t, from, to) /\ UNCHANGED mqVars
         /\ from = "recv_sched" <=> to = "recv_return"
  <2>1. CASE RecvSchedule(t) BY <2>1 DEF RecvSchedule
  <2>2. CASE CallSchedule(t) BY <2>2 DEF CallSchedule
  <2> QED BY <2>1, <2>2
<1>2. /\ Running(t) /\ pc[t] = from /\ pc' = [pc EXCEPT ![t] = to]
      /\ k' = Schedule(k) /\ irq' = irq
  BY <1>1 DEF ScheduleStep, Goto
<1>3. irq = NoThread /\ k.current = t BY <1>1, <1>2, CallerFacts DEF Masked
<1>4. /\ SystemOK(Blocking)' /\ k'.stat = k.stat /\ k'.wait = k.wait
      /\ k'.error = k.error
  <2>1. SystemOK(Blocking) BY Types
  <2> QED BY <1>2, <1>3, <2>1, ScheduleEffect
<1>5. to \in Pc \ Masked BY <1>1 DEF Pc, Masked
<1>6. /\ IrqOK' /\ pc' \in [Thread -> Pc] /\ irq' \in Thread \cup {NoThread}
      /\ \A u \in Thread : pc'[u] = IF u = t THEN to ELSE pc[u]
      /\ \A u \in Thread : pc[u] # "reset_free" /\ pc'[u] # "reset_free"
  BY <1>2, <1>3, <1>5, IrqCalm
<1>7. \A u \in Thread : Stays(u)
  BY <1>1, <1>2, <1>6 DEF Stays, InRecv
<1>8. \A u \in Thread : Aside(u)
  <2>1. to = "recv_return" => t \in Receiver
    <3>1. CallOK(t) BY Types DEF Pool
    <3> QED BY <1>1, <1>2, <3>1 DEF CallOK
  <2> QED BY <1>1, <1>2, <1>6, <2>1 DEF Aside, Sending, Copying
<1>9. UNCHANGED <<q, callVars, alive>> BY <1>1 DEF mqVars, callVars
<1> QED BY <1>4, <1>6, <1>7, <1>8, <1>9, Quiet, Types

LEMMA YieldKeeps ==
  ASSUME IInv, YieldStep, UNCHANGED mqVars
  PROVE  IInv'
<1>1. /\ SystemOK(Blocking)' /\ pc' = pc /\ irq' = irq
      /\ k'.stat = k.stat /\ k'.wait = k.wait /\ k'.error = k.error
  BY YieldEffect, Types
<1>2. irq = NoThread BY DEF YieldStep, Interrupt
<1>3. IrqOK' BY <1>1, <1>2, Types DEF IrqOK
<1>4. \A u \in Thread : Stays(u) /\ Aside(u) BY <1>1 DEF Stays, InRecv, Aside
<1>5. UNCHANGED <<q, callVars, alive>> BY DEF mqVars, callVars
<1> QED BY <1>1, <1>2, <1>3, <1>4, <1>5, Quiet, Types

\* rt_mq_detach goes on to another place of its own.
LEMMA DetachKeeps ==
  ASSUME IInv, NEW t \in Thread,
         \/ Detach(t)
         \/ ResumeAllTest(t, Mq, "detach_test", "detach_body", "run") /\ UNCHANGED mqVars
  PROVE  IInv'
<1>1. PICK from \in {"run", "detach_test"}, to \in {"run", "detach_test", "detach_body"} :
         /\ Running(t) /\ pc[t] = from /\ pc' = [pc EXCEPT ![t] = to]
         /\ UNCHANGED <<k, irq, q, callVars>> /\ alive' \in BOOLEAN
  <2>1. CASE Detach(t) BY <2>1 DEF Detach, Goto
  <2>2. CASE ResumeAllTest(t, Mq, "detach_test", "detach_body", "run") /\ UNCHANGED mqVars
    BY <2>2, Types DEF ResumeAllTest, Goto, mqVars, callVars
  <2> QED BY <2>1, <2>2
<1>2. irq = NoThread /\ k.current = t BY <1>1, CallerFacts DEF Masked
<1>3. to \in Pc \ Masked BY <1>1 DEF Pc, Masked
<1>4. /\ IrqOK' /\ pc' \in [Thread -> Pc] /\ irq' \in Thread \cup {NoThread}
      /\ \A u \in Thread : pc'[u] = IF u = t THEN to ELSE pc[u]
      /\ \A u \in Thread : pc[u] # "reset_free" /\ pc'[u] # "reset_free"
  BY <1>1, <1>2, <1>3, IrqCalm
<1>5. SystemOK(Blocking)'
  <2>1. SystemOK(Blocking) /\ k \in KernelState /\ KernelOK(k) BY Types
  <2>2. pc[t] \notin Blocking BY <1>1 DEF Blocking
  <2> QED BY <1>1, <1>2, <2>1, <2>2, SystemQuiet
<1>6. \A u \in Thread : Stays(u) /\ Aside(u)
  BY <1>1, <1>4 DEF Stays, InRecv, Aside, Sending, Copying
<1> QED BY <1>1, <1>4, <1>5, <1>6, Quiet

\* A thread disables interrupts, for a reset or on the list that a time-out has
\* emptied, or goes from the receivers to the messages in a reset.
LEMMA MaskKeeps ==
  ASSUME IInv, NEW t \in Thread,
         \/ Reset(t)
         \/ /\ \/ ResumeAllLost(t, Mq, "detach_body")
               \/ /\ ResumeAllTest(t, Mq, "reset_wake", "reset_wake", "reset_free")
                  /\ k.wait[Mq] = <<>>
            /\ UNCHANGED mqVars
  PROVE  IInv'
<1>1. PICK from \in {"run", "detach_body", "reset_wake"},
           to \in {"reset_wake", "lost", "reset_free"} :
         /\ Running(t) /\ pc[t] = from /\ pc' = [pc EXCEPT ![t] = to]
         /\ to = "reset_free" => k.wait[Mq] = <<>>
         /\ irq' = t \/ (from = "reset_wake" /\ irq' = irq)
         /\ UNCHANGED <<k, mqVars>>
  <2>1. CASE Reset(t)
    BY <2>1 DEF Reset, Goto
  <2>2. CASE ResumeAllLost(t, Mq, "detach_body") /\ UNCHANGED mqVars
    BY <2>2 DEF ResumeAllLost, Goto
  <2>3. CASE /\ ResumeAllTest(t, Mq, "reset_wake", "reset_wake", "reset_free")
             /\ k.wait[Mq] = <<>> /\ UNCHANGED mqVars
    BY <2>3 DEF ResumeAllTest, Goto
  <2> QED BY <2>1, <2>2, <2>3
<1>2. k.current = t /\ irq \in {NoThread, t} BY <1>1 DEF Running
<1>3. irq' = t BY <1>1, Types DEF IrqOK, Masked
<1>4. pc \in [Thread -> Pc] /\ to \in Pc /\ to \in Masked BY Types DEF Pc, Masked
<1>5. pc' \in [Thread -> Pc] /\ \A u \in Thread : pc'[u] = IF u = t THEN to ELSE pc[u]
  BY <1>1, <1>4
<1>6. IrqOK'
  <2>1. \A u \in Thread : irq' = u <=> pc'[u] \in Masked
    BY <1>2, <1>3, <1>4, <1>5, KernelAssumption, Types DEF IrqOK
  <2>2. \A u \in Thread : pc'[u] = "reset_free" => u = t BY <1>3, <2>1 DEF Masked
  <2> QED BY <1>1, <1>2, <1>3, <1>5, <2>1, <2>2 DEF IrqOK
<1>7. SystemOK(Blocking)'
  <2>1. SystemOK(Blocking) /\ k \in KernelState /\ KernelOK(k) BY Types
  <2>2. pc[t] \notin Blocking BY <1>1 DEF Blocking
  <2> QED BY <1>1, <1>2, <2>1, <2>2, SystemQuiet
<1>8. \A u \in Thread : Stays(u) /\ Aside(u)
  BY <1>1, <1>5 DEF Stays, InRecv, Aside, Sending, Copying
<1>9. (\A u \in Thread : pc'[u] # "reset_free") => \A u \in Thread : pc[u] # "reset_free"
  BY <1>1, <1>5
<1>10. UNCHANGED <<q, callVars, alive>> /\ k' = k BY <1>1 DEF mqVars, callVars
<1> QED BY <1>3, <1>5, <1>6, <1>7, <1>8, <1>9, <1>10, Quiet, Types

-----------------------------------------------------------------------------
(***************************************************************************)
(* A waiting receiver is woken with an error: by its timer, by reset or by *)
(* detach.                                                                 *)
(***************************************************************************)
LEMMA WokenWithError ==
  ASSUME IInv, SystemOK(Blocking)', IrqOK', irq' = irq, pc' \in [Thread -> Pc],
         UNCHANGED mqVars, NEW w \in Thread, k.stat[w] = "suspend",
         ToSet(k'.wait[Mq]) = ToSet(k.wait[Mq]) \ {w},
         \A u \in Thread : Stays(u) /\ Aside(u),
         (\A u \in Thread : pc'[u] # "reset_free") => \A u \in Thread : pc[u] # "reset_free",
         k'.stat = [k.stat EXCEPT ![w] = "ready"],
         NEW e \in Error \ {"RT_EOK"}, k'.error = [k.error EXCEPT ![w] = e]
  PROVE  IInv'
<1>1. UNCHANGED <<q, msg, buffer, timeout, alive>> BY DEF mqVars
<1>2. irq' \in Thread \cup {NoThread} BY Types DEF TypeOK
<1>3. TypeOK' BY <1>1, <1>2, Types, TypesNext
<1>4. /\ k'.stat[w] = "ready" /\ k'.error[w] # "RT_EOK"
      /\ \A u \in Thread \ {w} : k'.stat[u] = k.stat[u] /\ k'.error[u] = k.error[u]
  BY Types
<1>5. \A u \in Thread \ {w} : Same(u) BY <1>4 DEF Same
<1>6. \A u \in Thread : ThreadOK(u) BY DEF IInv, Waits
<1>7. \A u \in Thread \ {w} : ThreadOK(u)' /\ (u \in Woken' <=> u \in Woken)
  BY <1>5, <1>6, SameKept
<1>8. ThreadOK(w)' BY <1>4, <1>6 DEF ThreadOK, Stays
<1>9. w \notin Woken /\ w \notin Woken' BY <1>4, <1>6 DEF ThreadOK, Woken
<1>10. RecvCount'
  <2>1. k' \in KernelState BY DEF SystemOK
  <2> QED BY <1>1, <1>7, <1>9, <2>1, CountKeeps
<1>11. Waits' BY <1>7, <1>8, <1>10 DEF Waits
<1>12. Pool' BY <1>1, PoolAside, Types
<1> QED BY <1>3, <1>11, <1>12 DEF IInv

LEMMA TimeoutKeeps ==
  ASSUME IInv, NEW w \in Thread, TimeoutStep(w), UNCHANGED mqVars
  PROVE  IInv'
<1>1. /\ SystemOK(Blocking)' /\ pc' = pc /\ irq' = irq /\ k.stat[w] = "suspend"
      /\ k'.stat = [k.stat EXCEPT ![w] = "ready"]
      /\ k'.error = [k.error EXCEPT ![w] = "RT_ETIMEOUT"]
      /\ \A r \in Queue : ToSet(k'.wait[r]) = ToSet(k.wait[r]) \ {w}
  BY TimeoutEffect, Types
<1>2. irq = NoThread BY DEF TimeoutStep, Interrupt
<1>3. IrqOK' BY <1>1, <1>2, KernelAssumption, Types DEF IrqOK, Masked
<1>4. \A u \in Thread : Stays(u) /\ Aside(u) BY <1>1 DEF Stays, InRecv, Aside
<1>5. pc' \in [Thread -> Pc] BY <1>1, Types
<1>6. "RT_ETIMEOUT" \in Error \ {"RT_EOK"} BY DEF Error
<1>7. ToSet(k'.wait[Mq]) = ToSet(k.wait[Mq]) \ {w} BY <1>1, MessageQueueAssumption
<1> QED BY <1>1, <1>3, <1>4, <1>5, <1>6, <1>7, WokenWithError

\* One turn of rt_ipc_list_resume_all, with interrupts disabled throughout or
\* for this turn.
LEMMA ResumeAllKeeps ==
  ASSUME IInv, NEW t \in Thread, UNCHANGED mqVars,
         NEW from, NEW to, <<from, to>> \in {<<"reset_wake", "reset_wake">>,
                                             <<"detach_body", "detach_test">>},
         ResumeAllWake(t, Mq, from, to)
  PROVE  IInv'
<1> DEFINE w == Head(k.wait[Mq])
<1>1. /\ Running(t) /\ k.wait[Mq] # <<>> /\ pc[t] = from /\ pc' = [pc EXCEPT ![t] = to]
      /\ k' = IpcListResumeError(k, Mq) /\ irq' = irq
  BY DEF ResumeAllWake, Goto
<1>2. /\ from \in {"reset_wake", "detach_body"} /\ to \in {"reset_wake", "detach_test"}
      /\ from \in Masked <=> to \in Masked
  BY DEF Masked
<1>3. pc \in [Thread -> Pc] /\ to \in Pc BY <1>2, Types DEF Pc
<1>4. pc' \in [Thread -> Pc] /\ \A u \in Thread : pc'[u] = IF u = t THEN to ELSE pc[u]
  BY <1>1, <1>3
<1>5. k.current = t BY <1>1 DEF Running
<1>6. pc[k.current] \notin Blocking BY <1>1, <1>2, <1>5 DEF Blocking
<1>7. Mq \in Queue /\ SystemOK(Blocking) BY Types
<1>8. /\ w \in Thread /\ w \in ToSet(k.wait[Mq]) /\ k.stat[w] = "suspend"
      /\ SystemOK(Blocking)'
      /\ k'.stat = [k.stat EXCEPT ![w] = "ready"]
      /\ k'.error = [k.error EXCEPT ![w] = "RT_ERROR"]
      /\ ToSet(k'.wait[Mq]) = ToSet(k.wait[Mq]) \ {w}
  BY <1>1, <1>5, <1>6, <1>7, WakeEffect, SMTT(30)
<1>9. k'.current = k.current
  <2>1. k \in KernelState /\ KernelOK(k) BY Types
  <2> QED BY <1>1, <1>7, <1>8, <2>1, IpcListResumeErrorProperties
<1> HIDE DEF w
<1>10. IrqOK'
  <2>1. \A u \in Thread : /\ pc'[u] \in Masked <=> pc[u] \in Masked
                          /\ pc'[u] = "reset_free" => pc[u] = "reset_free"
    BY <1>1, <1>2, <1>4
  <2>2. \A u \in Thread : pc'[u] # "reset_free" BY <1>1, <2>1, Types DEF IrqOK
  <2> QED BY <1>1, <1>9, <2>1, <2>2, Types DEF IrqOK
<1>11. \A u \in Thread : Stays(u) /\ Aside(u)
  BY <1>1, <1>2, <1>4 DEF Stays, InRecv, Aside, Sending, Copying
<1>12. "RT_ERROR" \in Error \ {"RT_EOK"} BY DEF Error
<1>13. \A u \in Thread : pc[u] # "reset_free" BY <1>1, Types DEF IrqOK
<1> QED BY <1>1, <1>4, <1>8, <1>10, <1>11, <1>12, <1>13, WokenWithError

-----------------------------------------------------------------------------
(***************************************************************************)
(* A receive returns without a message, or waits for one.                  *)
(***************************************************************************)

\* Thread t runs, and is on no list, in a step that leaves the others alone; if
\* it was woken for a message then there is none.
LEMMA OthersKept ==
  ASSUME IInv, SystemOK(Blocking)', IrqOK', NEW t \in Thread,
         t \notin ToSet(k.wait[Mq]), k'.wait = k.wait,
         \A u \in Thread \ {t} : /\ Stays(u) /\ k'.stat[u] = k.stat[u]
                                 /\ k'.error[u] = k.error[u],
         t \notin InRecv', q'.entry \in Nat,
         \/ q'.entry = q.entry /\ (t \in Woken => q.entry = 0)
         \/ q'.entry = q.entry - 1
  PROVE  Waits'
<1>1. \A u \in Thread : ThreadOK(u) BY DEF IInv, Waits
<1>2. \A u \in Thread \ {t} : Same(u) BY DEF Same
<1>3. \A u \in Thread \ {t} : ThreadOK(u)' /\ (u \in Woken' <=> u \in Woken)
  BY <1>1, <1>2, SameKept
<1>4. ThreadOK(t)' BY DEF ThreadOK
<1>5. RecvCount'
  <2>1. SUFFICES ASSUME k.wait[Mq] # <<>> PROVE q'.entry <= Cardinality(Woken')
    BY DEF RecvCount
  <2>2. q.entry <= Cardinality(Woken) BY <2>1 DEF IInv, Waits, RecvCount
  <2>3. Woken' \in SUBSET Thread BY DEF Woken, InRecv
  <2>4. Woken \in SUBSET Thread /\ q.entry \in Nat BY Types
  <2>5. Woken \ {t} \subseteq Woken' BY <1>3, <2>4
  <2>6. /\ Cardinality(Woken) \in Nat /\ Cardinality(Woken') \in Nat
        /\ Cardinality(Woken) - 1 <= Cardinality(Woken')
    BY <2>3, <2>4, <2>5, CountLess
  <2>7. CASE q'.entry = q.entry - 1 BY <2>2, <2>4, <2>6, <2>7
  <2>8. CASE q'.entry = q.entry /\ q.entry = 0 BY <2>6, <2>8
  <2>9. CASE q'.entry = q.entry /\ t \notin Woken
    <3>1. Woken \subseteq Woken' BY <2>5, <2>9
    <3>2. Cardinality(Woken) <= Cardinality(Woken') BY <2>3, <2>4, <3>1, CountKept
    <3> QED BY <2>2, <2>4, <2>6, <2>9, <3>2
  <2> QED BY <2>7, <2>8, <2>9
<1> QED BY <1>3, <1>4, <1>5 DEF Waits

LEMMA LeaveKeeps ==
  ASSUME IInv, NEW t \in Thread, Running(t), pc[t] \in {"run", "recv_return"},
         pc' = [pc EXCEPT ![t] = "run"], irq' = irq, UNCHANGED <<q, msg, buffer, alive>>,
         timeout' = [timeout EXCEPT ![t] = "zero"],
         SystemOK(Blocking)', k'.stat = k.stat, k'.wait = k.wait,
         \A u \in Thread \ {t} : k'.error[u] = k.error[u],
         t \in Woken => q.entry = 0
  PROVE  IInv'
<1>1. irq = NoThread /\ t \notin ToSet(k.wait[Mq]) BY CallerFacts DEF Masked, Blocking
<1>2. "run" \in Pc \ Masked BY DEF Pc, Masked
<1>3. /\ IrqOK' /\ pc' \in [Thread -> Pc] /\ irq' \in Thread \cup {NoThread}
      /\ \A u \in Thread : pc'[u] = IF u = t THEN "run" ELSE pc[u]
      /\ \A u \in Thread : pc[u] # "reset_free" /\ pc'[u] # "reset_free"
  BY <1>1, <1>2, IrqCalm
<1>4. timeout' \in [Thread -> Time] BY Types DEF Time
<1>5. TypeOK' BY <1>3, <1>4, Types, TypesNext
<1>6. \A u \in Thread : Aside(u) BY <1>3 DEF Aside, Sending, Copying
<1>7. Pool' BY <1>3, <1>6, PoolAside, Types
<1>8. \A u \in Thread \ {t} : Stays(u) BY <1>3 DEF Stays, InRecv
<1>9. t \notin InRecv' BY <1>3 DEF InRecv
<1>10. Waits' BY <1>1, <1>3, <1>8, <1>9, OthersKept, Types
<1> QED BY <1>5, <1>7, <1>10 DEF IInv

LEMMA RecvErrorKeeps ==
  ASSUME IInv, NEW t \in Thread, RecvError(t)
  PROVE  IInv'
<1>1. /\ Running(t) /\ pc[t] = "recv_return" /\ k.error[t] # "RT_EOK"
      /\ pc' = [pc EXCEPT ![t] = "run"] /\ timeout' = [timeout EXCEPT ![t] = "zero"]
      /\ UNCHANGED <<k, irq, q, msg, buffer, alive>>
  BY DEF RecvError, Goto
<1>2. SystemOK(Blocking)'
  <2>1. SystemOK(Blocking) /\ k \in KernelState /\ KernelOK(k) BY Types
  <2>2. pc[t] \notin Blocking /\ k.current = t BY <1>1 DEF Blocking, Running
  <2> QED BY <1>1, <2>1, <2>2, SystemQuiet
<1>3. t \notin Woken BY <1>1 DEF Woken
<1> QED BY <1>1, <1>2, <1>3, LeaveKeeps

\* No message, and no time (left).
LEMMA RecvEmptyKeeps ==
  ASSUME IInv, NEW t \in Thread, RecvEmpty(t)
  PROVE  IInv'
<1>1. /\ Running(t) /\ pc[t] \in {"run", "recv_return"} /\ q.entry = 0
      /\ pc' = [pc EXCEPT ![t] = "run"] /\ timeout' = [timeout EXCEPT ![t] = "zero"]
      /\ UNCHANGED <<irq, q, msg, buffer, alive>>
      /\ k' = IF pc[t] = "run" THEN k ELSE [k EXCEPT !.error[t] = "RT_ETIMEOUT"]
  BY DEF RecvEmpty, AtRecv
<1>2. k \in KernelState /\ KernelOK(k) /\ "RT_ETIMEOUT" \in Error BY Types DEF Error
<1>3. LET s == [k EXCEPT !.error[t] = "RT_ETIMEOUT"]
      IN  /\ s \in KernelState /\ KernelOK(s) /\ s.stat = k.stat /\ s.wait = k.wait
          /\ s.armed = k.armed /\ s.nest = k.nest /\ s.current = k.current
          /\ s.error = [k.error EXCEPT ![t] = "RT_ETIMEOUT"]
  BY ONLY <1>2, t \in Thread, SetErrorProperties
<1>4. /\ k' \in KernelState /\ KernelOK(k') /\ k'.stat = k.stat /\ k'.wait = k.wait
      /\ k'.nest = k.nest /\ k'.current = k.current
      /\ \A u \in Thread \ {t} : k'.error[u] = k.error[u]
  <2>1. CASE pc[t] = "run" BY <1>1, <1>2, <2>1
  <2>2. CASE pc[t] # "run"
    <3>1. k' = [k EXCEPT !.error[t] = "RT_ETIMEOUT"] BY <1>1, <2>2
    <3>2. k'.error = [k.error EXCEPT ![t] = "RT_ETIMEOUT"] BY <1>3, <3>1
    <3>3. \A u \in Thread \ {t} : k'.error[u] = k.error[u] BY <3>2, Types
    <3> QED BY <1>3, <3>1, <3>3
  <2> QED BY <2>1, <2>2
<1>5. SystemOK(Blocking)'
  <2>1. SystemOK(Blocking) BY Types
  <2>2. pc[t] \notin Blocking /\ k.current = t BY <1>1 DEF Blocking, Running
  <2> QED BY <1>4, <2>1, <2>2, SystemQuiet
<1> QED BY <1>1, <1>4, <1>5, LeaveKeeps

\* The queue is empty, and the thread waits, for the first time or again.
LEMMA RecvSuspendKeeps ==
  ASSUME IInv, NEW t \in Thread, NEW time \in Time, RecvSuspend(t, time)
  PROVE  IInv'
<1>1. /\ Running(t) /\ pc[t] \in {"run", "recv_return"} /\ (pc[t] = "run" => t \in Receiver)
      /\ q.entry = 0 /\ pc' = [pc EXCEPT ![t] = "recv_sched"]
      /\ timeout' = [timeout EXCEPT ![t] = time]
      /\ UNCHANGED <<irq, q, msg, buffer, alive>>
  BY DEF RecvSuspend, AtRecv
<1>2. /\ irq = NoThread /\ k.current = t /\ t \notin ToSet(k.wait[Mq])
  BY <1>1, CallerFacts DEF Masked, Blocking
<1>3. t \in Receiver /\ t # Idle
  <2>1. CallOK(t) BY Types DEF Pool
  <2> QED BY <1>1, <2>1, MessageQueueAssumption DEF CallOK
<1>4. "recv_sched" \in Pc \ Masked BY DEF Pc, Masked
<1>5. /\ IrqOK' /\ pc' \in [Thread -> Pc] /\ irq' \in Thread \cup {NoThread}
      /\ \A u \in Thread : pc'[u] = IF u = t THEN "recv_sched" ELSE pc[u]
      /\ \A u \in Thread : pc[u] # "reset_free" /\ pc'[u] # "reset_free"
  BY <1>1, <1>2, <1>4, IrqCalm
<1>6. /\ SystemOK(Blocking)'
      /\ k'.stat = [k.stat EXCEPT ![t] = "suspend"]
      /\ k'.error = [k.error EXCEPT ![t] = "RT_EOK"]
      /\ ToSet(k'.wait[Mq]) = ToSet(k.wait[Mq]) \cup {t}
  <2>1. PICK e : e = [k EXCEPT !.error[t] = "RT_EOK"] OBVIOUS
  <2>2. PICK s : s = IpcListSuspend(e, Mq, t, Flag) OBVIOUS
  <2>3. k' \in {s, TimerStart(s, t)} BY <2>1, <2>2 DEF RecvSuspend
  <2>4. /\ SystemOK(Blocking) /\ Flag \in {"RT_IPC_FLAG_FIFO", "RT_IPC_FLAG_PRIO"}
        /\ Mq \in Queue
    BY Types
  <2>5. pc[t] \notin Blocking /\ pc'[t] \in Blocking BY <1>1, <1>5 DEF Blocking
  <2> QED BY ONLY <1>2, <1>3, <2>1, <2>2, <2>3, <2>4, <2>5, WaitEffect, SMTT(90)
<1>7. /\ k'.stat[t] = "suspend" /\ k'.error[t] = "RT_EOK"
      /\ \A u \in Thread \ {t} : k'.stat[u] = k.stat[u] /\ k'.error[u] = k.error[u]
  BY <1>6, Types
<1>8. timeout' \in [Thread -> Time] BY <1>1, Types
<1>9. TypeOK' BY <1>1, <1>5, <1>6, <1>8, Types, TypesNext
<1>10. \A u \in Thread : Aside(u) BY <1>1, <1>3, <1>5 DEF Aside, Sending, Copying
<1>11. Pool' BY <1>1, <1>5, <1>10, PoolAside, Types
<1>12. \A u \in Thread : ThreadOK(u) BY DEF IInv, Waits
<1>13. \A u \in Thread \ {t} : Same(u) BY <1>5, <1>6, <1>7 DEF Same, Stays, InRecv
<1>14. \A u \in Thread \ {t} : ThreadOK(u)' BY <1>12, <1>13, SameKept
<1>15. ThreadOK(t)' BY <1>5, <1>6, <1>7 DEF ThreadOK, InRecv
<1>16. RecvCount'
  <2>1. Woken' \in SUBSET Thread BY DEF Woken, InRecv
  <2>2. Cardinality(Woken') \in Nat BY <2>1, CountKept
  <2> QED BY <1>1, <2>2 DEF RecvCount
<1>17. Waits' BY <1>5, <1>6, <1>14, <1>15, <1>16 DEF Waits
<1> QED BY <1>9, <1>11, <1>17 DEF IInv

-----------------------------------------------------------------------------
(***************************************************************************)
(* A call takes a message off a list, writes or reads it, or frees it.     *)
(***************************************************************************)
LEMMA CallMoves ==
  ASSUME IInv, NEW t \in Thread, Running(t), pc[t] \notin Masked \cup Blocking,
         NEW to \in Pc \ Masked, pc' = [pc EXCEPT ![t] = to], k' = k, irq' = irq
  PROVE  /\ irq = NoThread /\ IrqOK' /\ pc' \in [Thread -> Pc]
         /\ irq' \in Thread \cup {NoThread} /\ SystemOK(Blocking)'
         /\ t \notin ToSet(k.wait[Mq])
         /\ \A u \in Thread : pc'[u] = IF u = t THEN to ELSE pc[u]
         /\ \A u \in Thread : pc[u] # "reset_free" /\ pc'[u] # "reset_free"
<1>1. irq = NoThread /\ k.current = t /\ t \notin ToSet(k.wait[Mq]) BY CallerFacts
<1>2. /\ IrqOK' /\ pc' \in [Thread -> Pc] /\ irq' \in Thread \cup {NoThread}
      /\ \A u \in Thread : pc'[u] = IF u = t THEN to ELSE pc[u]
      /\ \A u \in Thread : pc[u] # "reset_free" /\ pc'[u] # "reset_free"
  BY <1>1, IrqCalm
<1>3. SystemOK(Blocking) /\ k \in KernelState /\ KernelOK(k) BY Types
<1>4. SystemOK(Blocking)' BY <1>1, <1>3, SystemQuiet
<1> QED BY <1>1, <1>2, <1>4

\* What the lists are made of.
LEMMA PartitionFacts ==
  ASSUME IInv, NEW c \in Seq(Msg), NEW f \in Seq(Msg), Partition(c, f)
  PROVE  /\ Lists(q, c, f) /\ Accounted(ToSet(c) \cup ToSet(f), Len(c) + Len(f))
         /\ ToSet(c) \cup ToSet(f) \in SUBSET Msg /\ ToSet(c) \cap ToSet(f) = {}
         /\ Len(c) \in Nat /\ Len(f) \in Nat /\ Len(c) + Len(f) \in Nat
         /\ Len(c) + Len(f) <= MaxMsgs
         /\ (\A t \in Thread : pc[t] # "reset_free") => q.entry = Len(c)
         /\ \A t \in Thread : CallOK(t)
         /\ \A t \in Thread : msg[t] # Null => /\ msg[t] \in Msg
                                               /\ msg[t] \notin ToSet(c) \cup ToSet(f)
         /\ \A t, u \in Thread : t # u /\ msg[t] # Null => msg[u] # msg[t]
<1>1. /\ Lists(q, c, f) /\ Accounted(ToSet(c) \cup ToSet(f), Len(c) + Len(f)) /\ Counted(c)
  BY DEF Partition
<1>2. ToSet(c) \cup ToSet(f) \in SUBSET Msg /\ ToSet(c) \cap ToSet(f) = {}
  BY <1>1, ToSetFacts DEF Lists
<1>3. Len(c) \in Nat /\ Len(f) \in Nat /\ Len(c) + Len(f) \in Nat OBVIOUS
<1>4. Len(c) + Len(f) <= MaxMsgs BY <1>1, <1>3, RoomLeft
<1>5. \A t \in Thread : CallOK(t) BY Types DEF Pool
<1>6. \A t \in Thread : msg[t] # Null => /\ msg[t] \in Msg
                                         /\ msg[t] \notin ToSet(c) \cup ToSet(f)
  BY <1>1, Types DEF Accounted
<1>7. \A t, u \in Thread : t # u /\ msg[t] # Null => msg[u] # msg[t]
  BY <1>1 DEF Accounted, Holders
<1> QED BY <1>1, <1>2, <1>3, <1>4, <1>5, <1>6, <1>7 DEF Counted

LEMMA PoolMoves ==
  ASSUME Pool, NEW c \in Seq(Msg), NEW f \in Seq(Msg), Partition(c, f)', NEW t \in Thread,
         CallOK(t)', \A u \in Thread \ {t} : CallKept(u)
  PROVE  Pool'
<1>1. \A u \in Thread : CallOK(u)' BY CallStays DEF Pool
<1> QED BY <1>1 DEF Pool

\* rt_mq_send and rt_mq_urgent take a free message.
LEMMA SendAllocKeeps ==
  ASSUME IInv, NEW t \in Thread, NEW v \in Value, NEW copy \in {"send_copy", "urgent_copy"},
         SendAlloc(t, v, copy)
  PROVE  IInv'
<1>1. /\ Running(t) /\ pc[t] = "run" /\ pc' = [pc EXCEPT ![t] = copy]
      /\ q.free # Null /\ q' = Alloc(q) /\ msg' = [msg EXCEPT ![t] = q.free]
      /\ buffer' = [buffer EXCEPT ![t] = v] /\ UNCHANGED <<k, irq, timeout, alive>>
  BY DEF SendAlloc, Goto, Holds
<1>2. pc[t] \notin Masked \cup Blocking /\ copy \in Pc \ Masked
  BY <1>1 DEF Masked, Blocking, Pc
<1>3. /\ irq = NoThread /\ IrqOK' /\ pc' \in [Thread -> Pc]
      /\ irq' \in Thread \cup {NoThread} /\ SystemOK(Blocking)'
      /\ \A u \in Thread : pc'[u] = IF u = t THEN copy ELSE pc[u]
      /\ \A u \in Thread : pc[u] # "reset_free" /\ pc'[u] # "reset_free"
  BY <1>1, <1>2, CallMoves
<1>4. PICK c, f \in Seq(Msg) : Partition(c, f) BY Types DEF Pool
<1>5. /\ Lists(q, c, f) /\ Accounted(ToSet(c) \cup ToSet(f), Len(c) + Len(f))
      /\ ToSet(c) \cup ToSet(f) \in SUBSET Msg /\ ToSet(c) \cap ToSet(f) = {}
      /\ Len(c) \in Nat /\ Len(f) \in Nat /\ Len(c) + Len(f) \in Nat /\ q.entry = Len(c)
      /\ \A u \in Thread : CallOK(u)
  BY <1>3, <1>4, PartitionFacts
<1>6. PICK m, g : m = q.free /\ g = Tail(f) OBVIOUS
<1>7. /\ q' \in MqState /\ Lists(q', c, g) /\ q'.entry = q.entry /\ q'.data = q.data
      /\ q'.next = q.next /\ m \in Msg /\ m \in ToSet(f)
      /\ ToSet(g) = ToSet(f) \ {m} /\ Len(g) = Len(f) - 1
  BY <1>1, <1>5, <1>6, AllocLists, Types
<1>8. msg[t] = Null BY <1>1, <1>5 DEF CallOK, Sending, Copying
<1>9. /\ Accounted((ToSet(c) \cup ToSet(f)) \ {m}, Len(c) + Len(f) - 1)'
      /\ msg' \in [Thread -> Msg \cup {Null}]
  <2>1. PICK U \in SUBSET Msg, n \in Nat : U = ToSet(c) \cup ToSet(f) /\ n = Len(c) + Len(f)
    BY <1>5
  <2>2. m \in U /\ Accounted(U, n) /\ msg' = [msg EXCEPT ![t] = m] BY <1>1, <1>5, <1>6, <1>7, <2>1
  <2>3. Accounted(U \ {m}, n - 1)' /\ msg' \in [Thread -> Msg \cup {Null}]
    BY <1>8, <2>2, MessageTaken, Types
  <2> QED BY <2>1, <2>3
<1>10. /\ (ToSet(c) \cup ToSet(f)) \ {m} = ToSet(c) \cup ToSet(g)
       /\ Len(c) + Len(f) - 1 = Len(c) + Len(g)
  BY <1>5, <1>7
<1>11. g \in Seq(Msg) BY <1>7 DEF Lists, Chained
<1>12. Partition(c, g)' BY <1>5, <1>7, <1>9, <1>10 DEF Partition, Counted
<1>13. \A u \in Thread \ {t} : CallKept(u) BY <1>1, <1>3, <1>7, Types DEF CallKept
<1>14. CallOK(t)'
  <2>1. pc'[t] = copy /\ msg'[t] = m /\ m # Null /\ buffer'[t] = v
    BY <1>1, <1>3, <1>6, Types
  <2> QED BY <2>1 DEF CallOK, Sending, Copying
<1>15. Pool' BY <1>11, <1>12, <1>13, <1>14, PoolMoves, Types
<1>16. TypeOK'
  <2>1. buffer' \in [Thread -> Value \cup {NoValue}] BY <1>1, Types
  <2> QED BY <1>1, <1>3, <1>7, <1>9, <2>1, TypesNext, Types
<1>17. Waits'
  <2>1. \A u \in Thread : Stays(u) BY <1>1, <1>3 DEF Stays, InRecv
  <2> QED BY <1>1, <1>3, <1>7, <2>1, WaitsQuiet
<1> QED BY <1>15, <1>16, <1>17 DEF IInv

\* The copy of a send, with interrupts enabled.
LEMMA SendCopyKeeps ==
  ASSUME IInv, NEW t \in Thread, SendCopy(t)
  PROVE  IInv'
<1>1. PICK m, v : m = msg[t] /\ v = buffer[t] OBVIOUS
<1>2. PICK to \in {"send_link", "urgent_link"} :
        /\ Running(t) /\ pc[t] \in {"send_copy", "urgent_copy"} /\ pc' = [pc EXCEPT ![t] = to]
        /\ q' = CopyIn(q, m, v) \/ q' = CopyUrgent(q, m, v)
        /\ to = "send_link" => q' = CopyIn(q, m, v)
        /\ UNCHANGED <<k, irq, msg, buffer, timeout, alive>>
  BY <1>1 DEF SendCopy, Goto, callVars
<1>3. pc[t] \notin Masked \cup Blocking /\ to \in Pc \ Masked
  BY <1>2 DEF Masked, Blocking, Pc
<1>4. /\ irq = NoThread /\ IrqOK' /\ pc' \in [Thread -> Pc]
      /\ irq' \in Thread \cup {NoThread} /\ SystemOK(Blocking)'
      /\ \A u \in Thread : pc'[u] = IF u = t THEN to ELSE pc[u]
      /\ \A u \in Thread : pc[u] # "reset_free" /\ pc'[u] # "reset_free"
  BY <1>2, <1>3, CallMoves
<1>5. PICK c, f \in Seq(Msg) : Partition(c, f) BY Types DEF Pool
<1>6. /\ Lists(q, c, f) /\ Accounted(ToSet(c) \cup ToSet(f), Len(c) + Len(f))
      /\ q.entry = Len(c)
      /\ \A u \in Thread : CallOK(u)
      /\ \A u \in Thread : msg[u] # Null => /\ msg[u] \in Msg
                                            /\ msg[u] \notin ToSet(c) \cup ToSet(f)
      /\ \A w, u \in Thread : w # u /\ msg[w] # Null => msg[u] # msg[w]
  BY <1>4, <1>5, PartitionFacts
<1>7. m # Null /\ v \in Value BY <1>2, <1>6, <1>1 DEF CallOK, Sending
<1>8. m \in Msg /\ m \notin ToSet(c) \cup ToSet(f) BY <1>6, <1>7, <1>1
<1>9. /\ q' \in MqState /\ Lists(q', c, f) /\ q'.entry = q.entry /\ q'.data[m] = v
      /\ \A l \in Msg \ {m} : q'.data[l] = q.data[l] /\ q'.next[l] = q.next[l]
      /\ q' = CopyIn(q, m, v) => q'.next[m] = Null
  <2>1. q \in MqState BY Types
  <2>2. OffLists(q, c, f, m) BY <1>6, <1>8, <2>1 DEF OffLists
  <2>3. Copied(q, q', c, f, m, v) /\ (q' = CopyIn(q, m, v) => q'.next[m] = Null)
    BY <1>2, <1>7, <2>2, CopyLists
  <2> QED BY <2>3 DEF Copied
<1>10. Partition(c, f)'
  <2>1. Accounted(ToSet(c) \cup ToSet(f), Len(c) + Len(f))' BY <1>2, <1>6, MessagesStay
  <2> QED BY <1>6, <1>9, <2>1 DEF Partition, Counted
<1>11. ASSUME NEW u \in Thread \ {t} PROVE CallKept(u)
  <2>1. pc[u] \in Sending => msg[u] \in Msg \ {m} BY <1>6, <1>7, <1>1 DEF CallOK
  <2> QED BY <1>2, <1>4, <1>9, <2>1 DEF CallKept, Sending
<1>12. CallOK(t)' BY <1>2, <1>4, <1>7, <1>9, <1>1 DEF CallOK, Sending, Copying
<1>13. Pool' BY <1>10, <1>11, <1>12, PoolMoves, Types
<1>14. TypeOK' BY <1>2, <1>4, <1>9, TypesNext, Types
<1>15. Waits'
  <2>1. \A u \in Thread : Stays(u) BY <1>2, <1>4 DEF Stays, InRecv
  <2> QED BY <1>2, <1>4, <1>9, <2>1, WaitsQuiet
<1> QED BY <1>13, <1>14, <1>15 DEF IInv

\* The copy of a receive, with interrupts enabled.
LEMMA RecvCopyKeeps ==
  ASSUME IInv, NEW t \in Thread, RecvCopy(t)
  PROVE  IInv'
<1>1. /\ Running(t) /\ pc[t] = "recv_copy" /\ pc' = [pc EXCEPT ![t] = "recv_free"]
      /\ msg' = [msg EXCEPT ![t] = msg[t]]
      /\ buffer' = [buffer EXCEPT ![t] = q.data[msg[t]]]
      /\ UNCHANGED <<k, irq, q, timeout, alive>>
  BY DEF RecvCopy, Goto, Holds
<1>2. pc[t] \notin Masked \cup Blocking /\ "recv_free" \in Pc \ Masked
  BY <1>1 DEF Masked, Blocking, Pc
<1>3. /\ irq = NoThread /\ IrqOK' /\ pc' \in [Thread -> Pc]
      /\ irq' \in Thread \cup {NoThread} /\ SystemOK(Blocking)'
      /\ \A u \in Thread : pc'[u] = IF u = t THEN "recv_free" ELSE pc[u]
      /\ \A u \in Thread : pc[u] # "reset_free" /\ pc'[u] # "reset_free"
  BY <1>1, <1>2, CallMoves
<1>4. PICK c, f \in Seq(Msg) : Partition(c, f) BY Types DEF Pool
<1>5. /\ Lists(q, c, f) /\ Accounted(ToSet(c) \cup ToSet(f), Len(c) + Len(f))
      /\ q.entry = Len(c)
      /\ \A u \in Thread : CallOK(u)
      /\ \A u \in Thread : msg[u] # Null => msg[u] \in Msg
  BY <1>3, <1>4, PartitionFacts
<1>6. msg[t] # Null /\ t \in Receiver BY <1>1, <1>5 DEF CallOK, Copying
<1>7. q.data[msg[t]] \in Value \cup {NoValue} BY <1>5, <1>6, Types DEF MqState
<1>8. msg' = msg BY <1>1, Types
<1>9. Partition(c, f)'
  <2>1. Accounted(ToSet(c) \cup ToSet(f), Len(c) + Len(f))' BY <1>5, <1>8, MessagesStay
  <2>2. Lists(q', c, f) /\ Counted(c)' BY <1>1, <1>5 DEF Counted
  <2> QED BY <2>1, <2>2 DEF Partition
<1>10. \A u \in Thread \ {t} : CallKept(u) BY <1>1, <1>3, <1>8, Types DEF CallKept
<1>11. CallOK(t)' BY <1>3, <1>6, <1>8 DEF CallOK, Sending, Copying
<1>12. Pool' BY <1>9, <1>10, <1>11, PoolMoves, Types
<1>13. TypeOK'
  <2>1. buffer' \in [Thread -> Value \cup {NoValue}] BY <1>1, <1>7, Types
  <2> QED BY <1>1, <1>3, <1>8, <2>1, TypesNext, Types
<1>14. Waits'
  <2>1. \A u \in Thread : Stays(u) BY <1>1, <1>3 DEF Stays, InRecv
  <2> QED BY <1>1, <1>3, <2>1, WaitsQuiet
<1> QED BY <1>12, <1>13, <1>14 DEF IInv

\* rt_mq_recv takes the first message off the queue.
LEMMA RecvUnlinkKeeps ==
  ASSUME IInv, NEW t \in Thread, NEW time, RecvUnlink(t, time)
  PROVE  IInv'
<1>1. /\ Running(t) /\ pc[t] \in {"run", "recv_return"} /\ (pc[t] = "run" => t \in Receiver)
      /\ q.entry # 0 /\ pc' = [pc EXCEPT ![t] = "recv_copy"]
      /\ q' = [Unlink(q) EXCEPT !.entry = q.entry - 1]
      /\ msg' = [msg EXCEPT ![t] = q.head] /\ buffer' = [buffer EXCEPT ![t] = NoValue]
      /\ timeout' = [timeout EXCEPT ![t] = "zero"] /\ UNCHANGED <<k, irq, alive>>
  BY DEF RecvUnlink, AtRecv, Holds
<1>2. pc[t] \notin Masked \cup Blocking /\ "recv_copy" \in Pc \ Masked
  BY <1>1 DEF Masked, Blocking, Pc
<1>3. /\ irq = NoThread /\ IrqOK' /\ pc' \in [Thread -> Pc]
      /\ irq' \in Thread \cup {NoThread} /\ SystemOK(Blocking)'
      /\ t \notin ToSet(k.wait[Mq])
      /\ \A u \in Thread : pc'[u] = IF u = t THEN "recv_copy" ELSE pc[u]
      /\ \A u \in Thread : pc[u] # "reset_free" /\ pc'[u] # "reset_free"
  BY <1>1, <1>2, CallMoves
<1>4. PICK c, f \in Seq(Msg) : Partition(c, f) BY Types DEF Pool
<1>5. /\ Lists(q, c, f) /\ Accounted(ToSet(c) \cup ToSet(f), Len(c) + Len(f))
      /\ ToSet(c) \cup ToSet(f) \in SUBSET Msg /\ ToSet(c) \cap ToSet(f) = {}
      /\ Len(c) \in Nat /\ Len(f) \in Nat /\ Len(c) + Len(f) \in Nat /\ q.entry = Len(c)
      /\ \A u \in Thread : CallOK(u)
  BY <1>3, <1>4, PartitionFacts
<1>6. q.head # Null
  <2>1. Chained(q.next, q.head, c) BY <1>5 DEF Lists
  <2> QED BY <1>1, <1>5, <2>1, ChainHead
<1>7. PICK m, g, r : m = q.head /\ g = Tail(c) /\ r = Unlink(q) OBVIOUS
<1>8. /\ r \in MqState /\ Lists(r, g, f) /\ r.data = q.data /\ r.next = q.next
      /\ m \in Msg /\ m \in ToSet(c) /\ ToSet(g) = ToSet(c) \ {m} /\ Len(g) = Len(c) - 1
  BY <1>5, <1>6, <1>7, UnlinkLists, Types
<1>9. /\ q' \in MqState /\ Lists(q', g, f) /\ q'.entry = q.entry - 1 /\ q'.data = q.data
      /\ q'.next = q.next
  <2>1. PICK e \in 0 .. MaxMsgs : e = q.entry - 1 BY <1>1, Types
  <2>2. q' = [r EXCEPT !.entry = e] BY <1>1, <1>7, <2>1
  <2>3. /\ q' \in MqState /\ q'.entry = e /\ q'.data = r.data /\ q'.next = r.next
        /\ q'.head = r.head /\ q'.tail = r.tail /\ q'.free = r.free
    BY ONLY <1>8, <2>2, e \in 0 .. MaxMsgs DEF MqState
  <2>4. Lists(q', g, f) BY <1>8, <2>3 DEF Lists
  <2> QED BY <1>8, <2>1, <2>3, <2>4
<1>10. msg[t] = Null BY <1>1, <1>5 DEF CallOK, Sending, Copying
<1>11. /\ Accounted((ToSet(c) \cup ToSet(f)) \ {m}, Len(c) + Len(f) - 1)'
       /\ msg' \in [Thread -> Msg \cup {Null}]
  <2>1. PICK U \in SUBSET Msg, n \in Nat : U = ToSet(c) \cup ToSet(f) /\ n = Len(c) + Len(f)
    BY <1>5
  <2>2. m \in U /\ Accounted(U, n) /\ msg' = [msg EXCEPT ![t] = m] BY <1>1, <1>5, <1>7, <1>8, <2>1
  <2>3. Accounted(U \ {m}, n - 1)' /\ msg' \in [Thread -> Msg \cup {Null}]
    BY <1>10, <2>2, MessageTaken, Types
  <2> QED BY <2>1, <2>3
<1>12. /\ (ToSet(c) \cup ToSet(f)) \ {m} = ToSet(g) \cup ToSet(f)
       /\ Len(c) + Len(f) - 1 = Len(g) + Len(f)
  BY <1>5, <1>8
<1>13. g \in Seq(Msg) BY <1>8 DEF Lists, Chained
<1>14. Partition(g, f)' BY <1>5, <1>8, <1>9, <1>11, <1>12 DEF Partition, Counted
<1>15. \A u \in Thread \ {t} : CallKept(u) BY <1>1, <1>3, <1>9, Types DEF CallKept
<1>16. CallOK(t)'
  <2>1. pc'[t] = "recv_copy" /\ msg'[t] = m /\ m # Null BY <1>1, <1>3, <1>6, <1>7, Types
  <2>2. t \in Receiver BY <1>1, <1>5 DEF CallOK
  <2> QED BY <2>1, <2>2 DEF CallOK, Sending, Copying
<1>17. Pool' BY <1>13, <1>14, <1>15, <1>16, PoolMoves, Types
<1>18. TypeOK'
  <2>1. /\ buffer' \in [Thread -> Value \cup {NoValue}] /\ timeout' \in [Thread -> Time]
    BY <1>1, Types DEF Time
  <2> QED BY <1>1, <1>3, <1>9, <1>11, <2>1, TypesNext, Types
<1>19. Waits'
  <2>1. \A u \in Thread \ {t} : Stays(u) BY <1>3 DEF Stays, InRecv
  <2>2. t \notin InRecv' BY <1>3 DEF InRecv
  <2>3. q'.entry \in Nat BY <1>9 DEF MqState
  <2> QED BY <1>1, <1>3, <1>9, <2>1, <2>2, <2>3, OthersKept
<1> QED BY <1>17, <1>18, <1>19 DEF IInv

\* ... and frees it when it was copied.
LEMMA RecvFreeKeeps ==
  ASSUME IInv, NEW t \in Thread, RecvFree(t)
  PROVE  IInv'
<1>1. /\ Running(t) /\ pc[t] = "recv_free" /\ pc' = [pc EXCEPT ![t] = "run"]
      /\ q' = Free(q, msg[t])
      /\ msg' = [msg EXCEPT ![t] = Null] /\ buffer' = [buffer EXCEPT ![t] = NoValue]
      /\ UNCHANGED <<k, irq, timeout, alive>>
  BY DEF RecvFree, Goto, Holds
<1>2. pc[t] \notin Masked \cup Blocking /\ "run" \in Pc \ Masked
  BY <1>1 DEF Masked, Blocking, Pc
<1>3. /\ irq = NoThread /\ IrqOK' /\ pc' \in [Thread -> Pc]
      /\ irq' \in Thread \cup {NoThread} /\ SystemOK(Blocking)'
      /\ \A u \in Thread : pc'[u] = IF u = t THEN "run" ELSE pc[u]
      /\ \A u \in Thread : pc[u] # "reset_free" /\ pc'[u] # "reset_free"
  BY <1>1, <1>2, CallMoves
<1>4. PICK c, f \in Seq(Msg) : Partition(c, f) BY Types DEF Pool
<1>5. /\ Lists(q, c, f) /\ Accounted(ToSet(c) \cup ToSet(f), Len(c) + Len(f))
      /\ ToSet(c) \cup ToSet(f) \in SUBSET Msg
      /\ Len(c) \in Nat /\ Len(f) \in Nat /\ Len(c) + Len(f) \in Nat /\ q.entry = Len(c)
      /\ \A u \in Thread : CallOK(u)
      /\ \A u \in Thread : msg[u] # Null => /\ msg[u] \in Msg
                                            /\ msg[u] \notin ToSet(c) \cup ToSet(f)
      /\ \A w, u \in Thread : w # u /\ msg[w] # Null => msg[u] # msg[w]
  BY <1>3, <1>4, PartitionFacts
<1>6. PICK m, g : m = msg[t] /\ g = <<m>> \o f OBVIOUS
<1>7. m # Null /\ m \in Msg /\ OffLists(q, c, f, m)
  BY <1>1, <1>5, <1>6, Types DEF CallOK, Copying, OffLists
<1>8. /\ q' \in MqState /\ Lists(q', c, g) /\ q'.entry = q.entry /\ q'.data = q.data
      /\ ToSet(g) = ToSet(f) \cup {m} /\ Len(g) = Len(f) + 1
      /\ \A l \in Msg \ {m} : q'.next[l] = q.next[l]
  <2>1. q' = Free(q, m) BY <1>1, <1>6
  <2>2. g = <<m>> \o f BY <1>6
  <2> QED BY ONLY <1>7, <2>1, <2>2, FreeLists
<1>9. /\ Accounted(ToSet(c) \cup ToSet(f) \cup {m}, Len(c) + Len(f) + 1)'
      /\ msg' \in [Thread -> Msg \cup {Null}]
  <2>1. PICK U \in SUBSET Msg, n \in Nat : U = ToSet(c) \cup ToSet(f) /\ n = Len(c) + Len(f)
    BY <1>5
  <2>2. Accounted(U, n) BY <1>5, <2>1
  <2>3. Accounted(U \cup {m}, n + 1)' /\ msg' \in [Thread -> Msg \cup {Null}]
    BY <1>1, <1>6, <1>7, <2>2, MessageGiven, Types
  <2> QED BY <2>1, <2>3
<1>10. /\ ToSet(c) \cup ToSet(f) \cup {m} = ToSet(c) \cup ToSet(g)
       /\ Len(c) + Len(f) + 1 = Len(c) + Len(g)
  BY <1>5, <1>8
<1>11. g \in Seq(Msg) BY <1>8 DEF Lists, Chained
<1>12. Partition(c, g)' BY <1>5, <1>8, <1>9, <1>10 DEF Partition, Counted
<1>13. ASSUME NEW u \in Thread \ {t} PROVE CallKept(u)
  <2>1. pc[u] \in Sending => msg[u] \in Msg \ {m} BY <1>5, <1>6, <1>7 DEF CallOK
  <2> QED BY <1>1, <1>3, <1>8, <2>1, Types DEF CallKept, Sending
<1>14. CallOK(t)' BY <1>1, <1>3, Types DEF CallOK, Sending, Copying
<1>15. Pool' BY <1>11, <1>12, <1>13, <1>14, PoolMoves, Types
<1>16. TypeOK'
  <2>1. buffer' \in [Thread -> Value \cup {NoValue}] BY <1>1, Types
  <2> QED BY <1>1, <1>3, <1>8, <1>9, <2>1, TypesNext, Types
<1>17. Waits'
  <2>1. \A u \in Thread : Stays(u) BY <1>1, <1>3 DEF Stays, InRecv
  <2> QED BY <1>1, <1>3, <1>8, <2>1, WaitsQuiet
<1> QED BY <1>15, <1>16, <1>17 DEF IInv

-----------------------------------------------------------------------------
(***************************************************************************)
(* The queue is emptied, when nobody waits.                                *)
(***************************************************************************)

\* A reset frees the messages one by one, with interrupts disabled.
LEMMA ResetFreeKeeps ==
  ASSUME IInv, NEW t \in Thread, ResetFree(t)
  PROVE  IInv'
<1>1. /\ Running(t) /\ pc[t] = "reset_free" /\ pc' = [pc EXCEPT ![t] = "reset_free"]
      /\ q.head # Null /\ q' = Free(Unlink(q), q.head)
      /\ UNCHANGED <<k, irq, msg, buffer, timeout, alive>>
  BY DEF ResetFree, Goto, callVars
<1>2. pc' = pc /\ irq' \in Thread \cup {NoThread} BY <1>1, Types DEF TypeOK
<1>3. IrqOK' /\ SystemOK(Blocking)' BY <1>1, <1>2, Types DEF IrqOK, SystemOK
<1>4. PICK c, f \in Seq(Msg) : Partition(c, f) BY Types DEF Pool
<1>5. /\ Lists(q, c, f) /\ Accounted(ToSet(c) \cup ToSet(f), Len(c) + Len(f))
      /\ ToSet(c) \cap ToSet(f) = {} /\ Len(c) \in Nat /\ Len(f) \in Nat
      /\ \A u \in Thread : CallOK(u)
      /\ \A u \in Thread : msg[u] # Null => /\ msg[u] \in Msg
                                            /\ msg[u] \notin ToSet(c) \cup ToSet(f)
  BY <1>4, PartitionFacts
<1>6. PICK m, d, r : m = q.head /\ d = Tail(c) /\ r = Unlink(q) OBVIOUS
<1>7. PICK g : g = <<m>> \o f OBVIOUS
<1>8. /\ r \in MqState /\ Lists(r, d, f) /\ r.data = q.data /\ r.next = q.next
      /\ r.entry = q.entry
      /\ m \in Msg /\ m \in ToSet(c) /\ ToSet(d) = ToSet(c) \ {m} /\ Len(d) = Len(c) - 1
  BY <1>1, <1>5, <1>6, UnlinkLists, Types
<1>9. OffLists(r, d, f, m) BY <1>5, <1>8 DEF OffLists
<1>10. q' = Free(r, m) BY <1>1, <1>6
<1>11. /\ q' \in MqState /\ Lists(q', d, g) /\ q'.entry = r.entry /\ q'.data = r.data
       /\ ToSet(g) = ToSet(f) \cup {m} /\ Len(g) = Len(f) + 1
       /\ \A l \in Msg \ {m} : q'.next[l] = r.next[l]
  BY <1>7, <1>9, <1>10, FreeLists
<1>12. /\ ToSet(c) \cup ToSet(f) = ToSet(d) \cup ToSet(g)
       /\ Len(c) + Len(f) = Len(d) + Len(g)
  BY <1>5, <1>8, <1>11
<1>13. Accounted(ToSet(c) \cup ToSet(f), Len(c) + Len(f))' BY <1>1, <1>5, MessagesStay
<1>14. Counted(d)' BY <1>1, <1>2 DEF Counted
<1>15. Partition(d, g)' BY <1>11, <1>12, <1>13, <1>14 DEF Partition
<1>16. d \in Seq(Msg) /\ g \in Seq(Msg) BY <1>11 DEF Lists, Chained
<1>17. ASSUME NEW u \in Thread PROVE CallOK(u)'
  <2>1. pc[u] \in Sending => msg[u] \in Msg \ {m} BY <1>5, <1>8 DEF CallOK
  <2>2. CallKept(u) BY <1>1, <1>2, <1>8, <1>11, <2>1 DEF CallKept, Sending
  <2> QED BY <1>5, <2>2, CallStays
<1>18. Pool' BY <1>15, <1>16, <1>17 DEF Pool
<1>19. TypeOK' BY <1>1, <1>2, <1>3, <1>11, TypesNext, Types
<1>20. Waits'
  <2>1. \A u \in Thread : Stays(u) BY <1>2 DEF Stays, InRecv
  <2> QED BY <1>1, <1>3, <1>8, <1>11, <2>1, WaitsQuiet
<1> QED BY <1>18, <1>19, <1>20 DEF IInv

LEMMA ResetEntryKeeps ==
  ASSUME IInv, NEW t \in Thread, ResetEntry(t)
  PROVE  IInv'
<1>1. /\ Running(t) /\ pc[t] = "reset_free" /\ pc' = [pc EXCEPT ![t] = "sched"]
      /\ q.head = Null /\ q' = [q EXCEPT !.entry = 0] /\ irq' = NoThread
      /\ UNCHANGED <<k, msg, buffer, timeout, alive>>
  BY DEF ResetEntry, Goto, callVars
<1>2. pc \in [Thread -> Pc] /\ "sched" \in Pc \ Masked BY Types DEF Pc, Masked
<1>3. pc' \in [Thread -> Pc] /\ \A u \in Thread : pc'[u] = IF u = t THEN "sched" ELSE pc[u]
  BY <1>1, <1>2
<1>4. k.wait[Mq] = <<>> /\ k.current = t /\ irq = t
  BY <1>1, Types DEF IrqOK, Running, Masked
<1>5. \A u \in Thread : pc'[u] \notin Masked
  BY <1>2, <1>3, <1>4, Types DEF IrqOK
<1>6. IrqOK' BY <1>1, <1>5, KernelAssumption DEF IrqOK, Masked
<1>7. SystemOK(Blocking)'
  <2>1. SystemOK(Blocking) /\ k \in KernelState /\ KernelOK(k) BY Types
  <2>2. pc[t] \notin Blocking BY <1>1 DEF Blocking
  <2> QED BY <1>1, <1>4, <2>1, <2>2, SystemQuiet
<1>8. PICK c, f \in Seq(Msg) : Partition(c, f) BY Types DEF Pool
<1>9. /\ Lists(q, c, f) /\ Accounted(ToSet(c) \cup ToSet(f), Len(c) + Len(f))
      /\ \A u \in Thread : CallOK(u)
  BY <1>8, PartitionFacts
<1>10. Len(c) = 0 BY <1>1, <1>9, ChainHead DEF Lists
<1>11. /\ q' \in MqState /\ q'.entry = 0 /\ q'.data = q.data /\ q'.next = q.next
       /\ q'.head = q.head /\ q'.tail = q.tail /\ q'.free = q.free
  <2>1. q \in MqState /\ 0 \in 0 .. MaxMsgs BY Types
  <2> QED BY ONLY <1>1, <2>1 DEF MqState
<1>12. Partition(c, f)'
  <2>1. Lists(q', c, f) BY <1>9, <1>11 DEF Lists
  <2>2. Accounted(ToSet(c) \cup ToSet(f), Len(c) + Len(f))' BY <1>1, <1>9, MessagesStay
  <2> QED BY <1>10, <1>11, <2>1, <2>2 DEF Partition, Counted
<1>13. \A u \in Thread \ {t} : CallKept(u) BY <1>1, <1>3, <1>11 DEF CallKept
<1>14. CallOK(t)' BY <1>1, <1>3, <1>9 DEF CallOK, Sending, Copying
<1>15. Pool' BY <1>12, <1>13, <1>14, PoolMoves, Types
<1>16. TypeOK' BY <1>1, <1>3, <1>7, <1>11, TypesNext, Types
<1>17. Waits'
  <2>1. \A u \in Thread : Stays(u) BY <1>1, <1>3 DEF Stays, InRecv
  <2> QED BY <1>1, <1>4, <1>6, <1>7, <2>1, WaitsQuiet
<1> QED BY <1>15, <1>16, <1>17 DEF IInv

\* With no call in progress every message is on a list.
LEMMA NobodyHolds ==
  ASSUME \A u \in Thread : msg'[u] = Null
  PROVE  Accounted(Msg, MaxMsgs)'
<1>1. Null \notin Msg /\ MaxMsgs \in Nat BY MessageQueueAssumption DEF Msg, Null
<1>2. Holders' = {} BY DEF Holders
<1>3. Cardinality(Holders') = 0 BY <1>2, FS_EmptySet
<1> QED BY <1>1, <1>2, <1>3 DEF Accounted

LEMMA MqInitKeeps ==
  ASSUME IInv, NEW t \in Thread, MqInit(t)
  PROVE  IInv'
<1>1. /\ Running(t) /\ pc[t] = "run" /\ pc' = [pc EXCEPT ![t] = "run"] /\ alive' = TRUE
      /\ q' = Fresh(q.data) /\ UNCHANGED <<irq, msg, buffer, timeout>>
      /\ \A s \in Thread \ {t} : pc[s] \in {"run", "sched"}
      /\ k' = [k EXCEPT !.wait[Mq] = <<>>]
  BY DEF MqInit, Goto, callVars
<1>2. pc' = pc BY <1>1, Types
<1>3. \A u \in Thread : pc[u] \in {"run", "sched"} BY <1>1
<1>4. k \in KernelState /\ Mq \in Queue BY Types
<1>5. k.wait[Mq] = <<>>
  <2>1. \A u \in Thread : u \notin InRecv BY <1>3 DEF InRecv
  <2>2. \A u \in Thread : u \notin ToSet(k.wait[Mq]) BY <2>1 DEF IInv, Waits, ThreadOK
  <2> QED BY <1>4, <2>2, ListFacts
<1>6. k' = k
  <2>1. k'.wait = [k.wait EXCEPT ![Mq] = <<>>] BY <1>1, <1>4 DEF KernelState
  <2>2. k.wait \in [Queue -> Seq(Thread)] BY <1>4 DEF KernelState
  <2>3. k'.wait = k.wait BY <1>5, <2>1, <2>2
  <2> QED BY <1>1, <1>4, <2>3 DEF KernelState
<1>7. \A u \in Thread : CallOK(u) BY Types DEF Pool
<1>8. \A u \in Thread : msg[u] = Null BY <1>3, <1>7 DEF CallOK, Sending, Copying
<1>9. q.data \in [Msg -> Value \cup {NoValue}] BY Types DEF MqState
<1>10. PICK r : r = Fresh(q.data) OBVIOUS
<1>11. /\ r \in MqState /\ r.entry = 0
       /\ \E f \in Seq(Msg) : Lists(r, <<>>, f) /\ ToSet(f) = Msg /\ Len(f) = MaxMsgs
  BY <1>9, <1>10, FreshLists
<1>12. PICK f \in Seq(Msg) : Lists(r, <<>>, f) /\ ToSet(f) = Msg /\ Len(f) = MaxMsgs
  BY <1>11
<1>13. q' = r /\ <<>> \in Seq(Msg) BY <1>1, <1>10
<1>14. Partition(<<>>, f)'
  <2>1. ToSet(<<>>) \cup ToSet(f) = Msg /\ Len(<<>>) + Len(f) = MaxMsgs
    BY <1>12, MessageQueueAssumption DEF ToSet
  <2>2. Accounted(Msg, MaxMsgs)' BY <1>1, <1>8, NobodyHolds
  <2>3. Counted(<<>>)' BY <1>11, <1>13 DEF Counted
  <2>4. Lists(q', <<>>, f) BY <1>12, <1>13
  <2> QED BY <2>1, <2>2, <2>3, <2>4 DEF Partition
<1>15. \A u \in Thread : CallOK(u)' BY <1>1, <1>2, <1>3, <1>7 DEF CallOK, Sending, Copying
<1>16. Pool' BY <1>13, <1>14, <1>15 DEF Pool
<1>17. SystemOK(Blocking)' /\ IrqOK' /\ irq' \in Thread \cup {NoThread}
  <2>1. k' = k /\ pc' = pc /\ irq' = irq BY <1>1, <1>2, <1>6
  <2>2. SystemOK(Blocking)' BY <2>1, Types DEF SystemOK
  <2>3. IrqOK' BY <2>1, Types DEF IrqOK
  <2> QED BY <2>1, <2>2, <2>3, Types DEF TypeOK
<1>18. TypeOK' BY <1>1, <1>2, <1>11, <1>13, <1>17, TypesNext, Types
<1>19. Waits'
  <2>1. \A u \in Thread : Stays(u) BY <1>2 DEF Stays, InRecv
  <2> QED BY <1>5, <1>6, <1>17, <2>1, WaitsQuiet
<1> QED BY <1>16, <1>18, <1>19 DEF IInv

-----------------------------------------------------------------------------
(***************************************************************************)
(* A message is linked to the queue, and wakes a receiver if one waits.    *)
(***************************************************************************)

\* W is the thread that is woken, or nobody.
Wakes(W) ==
    /\ W \subseteq ToSet(k.wait[Mq])
    /\ k.wait[Mq] # <<>> => \E h \in Thread : W = {h}
    /\ \A u \in Thread : k'.stat[u] = IF u \in W THEN "ready" ELSE k.stat[u]
    /\ k'.error = k.error
    /\ ToSet(k'.wait[Mq]) = ToSet(k.wait[Mq]) \ W

LEMMA WakeFacts ==
  ASSUME IInv, k.current \in Thread, pc[k.current] \notin Blocking \/ pc' = pc,
         \/ k' = WakeOne
         \/ k' = IF k.wait[Mq] = <<>> THEN k ELSE Schedule(WakeOne)
  PROVE  SystemOK(Blocking)' /\ \E W \in SUBSET Thread : Wakes(W)
<1>1. k \in KernelState /\ KernelOK(k) /\ Mq \in Queue /\ SystemOK(Blocking) BY Types
<1>2. CASE k.wait[Mq] = <<>>
  <2>1. k' = k BY <1>2 DEF WakeOne
  <2>2. SystemOK(Blocking)'
    <3>1. pc'[k.current] \notin Blocking => pc[k.current] \notin Blocking OBVIOUS
    <3> QED BY <1>1, <2>1, <3>1, SystemQuiet
  <2>3. Wakes({}) BY <1>2, <2>1 DEF Wakes
  <2> QED BY <2>2, <2>3
<1>3. CASE k.wait[Mq] # <<>>
  <2> DEFINE h == Head(k.wait[Mq])
  <2>1. k' = Schedule(IpcListResume(k, Mq)) \/ k' = IpcListResume(k, Mq)
    BY <1>3 DEF WakeOne
  <2>2. pc'[k.current] \notin Blocking => pc[k.current] \notin Blocking OBVIOUS
  <2>3. PICK s : s = IpcListResume(k, Mq) OBVIOUS
  <2>4. k' = Schedule(s) \/ k' = s BY <2>1, <2>3
  <2>5. /\ h \in Thread /\ h \in ToSet(k.wait[Mq])
        /\ SystemOK(Blocking)'
        /\ k'.stat = [k.stat EXCEPT ![h] = "ready"]
        /\ k'.error = k.error
        /\ ToSet(k'.wait[Mq]) = ToSet(k.wait[Mq]) \ {h}
    <3>1. k.current \in Thread OBVIOUS
    <3> QED BY ONLY <1>1, <1>3, <2>2, <2>3, <2>4, <3>1, WakeEffect, ZenonT(60)
  <2> HIDE DEF h
  <2>6. Wakes({h})
    <3>1. \A u \in Thread : k'.stat[u] = IF u \in {h} THEN "ready" ELSE k.stat[u]
      BY <2>5, Types
    <3> QED BY <2>5, <3>1 DEF Wakes
  <2> QED BY <2>5, <2>6
<1> QED BY <1>2, <1>3

LEMMA WakeKeeps ==
  ASSUME IInv, SystemOK(Blocking)', IrqOK', NEW W \in SUBSET Thread, Wakes(W),
         \A u \in Thread : Stays(u), q'.entry = q.entry + 1
  PROVE  Waits'
<1>1. \A u \in Thread : ThreadOK(u) BY DEF IInv, Waits
<1>2. ASSUME NEW u \in W PROVE ThreadOK(u)' /\ u \in Woken' /\ u \notin Woken
  <2>1. u \in ToSet(k.wait[Mq]) /\ u \in Thread BY DEF Wakes
  <2>2. u \in InRecv /\ k.error[u] = "RT_EOK" BY <1>1, <2>1 DEF ThreadOK
  <2>3. k'.stat[u] = "ready" /\ k'.error[u] = k.error[u] /\ u \notin ToSet(k'.wait[Mq])
    BY DEF Wakes
  <2> QED BY <2>1, <2>2, <2>3 DEF ThreadOK, Stays, Woken
<1>3. ASSUME NEW u \in Thread \ W PROVE ThreadOK(u)' /\ (u \in Woken' <=> u \in Woken)
  <2>1. Same(u) BY DEF Same, Wakes
  <2> QED BY <1>1, <2>1, SameKept
<1>4. RecvCount'
  <2>1. SUFFICES ASSUME k'.wait[Mq] # <<>> PROVE q'.entry <= Cardinality(Woken')
    BY DEF RecvCount
  <2>2. k.wait[Mq] # <<>>
    <3>1. k \in KernelState /\ k' \in KernelState BY Types DEF SystemOK
    <3>2. ToSet(k'.wait[Mq]) \subseteq ToSet(k.wait[Mq]) BY DEF Wakes
    <3> QED BY <2>1, <3>1, <3>2, ListFacts
  <2>3. PICK h \in Thread : W = {h} BY <2>2 DEF Wakes
  <2>4. Woken \in SUBSET Thread /\ Woken' \in SUBSET Thread BY DEF Woken, InRecv
  <2>5. h \in Woken' /\ h \notin Woken /\ Woken \subseteq Woken' BY <1>2, <1>3, <2>3, <2>4
  <2>6. /\ Cardinality(Woken) \in Nat /\ Cardinality(Woken') \in Nat
        /\ Cardinality(Woken) + 1 <= Cardinality(Woken')
    BY <2>4, <2>5, CountMore
  <2>7. q.entry <= Cardinality(Woken) /\ q.entry \in Nat
    BY <2>2, Types DEF Waits, RecvCount
  <2> QED BY <2>6, <2>7
<1> QED BY <1>2, <1>3, <1>4 DEF Waits

LEMMA SendLinkKeeps ==
  ASSUME IInv, NEW t \in Thread, SendLink(t)
  PROVE  IInv'
<1>1. PICK to \in {"run", "sched"} :
        /\ Running(t) /\ pc[t] \in {"send_link", "urgent_link"} /\ pc' = [pc EXCEPT ![t] = to]
        /\ \/ pc[t] = "send_link" /\ q' = Link(q, msg[t])
           \/ q' = LinkUrgent(q, msg[t])
        /\ k' = WakeOne /\ msg' = [msg EXCEPT ![t] = Null]
        /\ buffer' = [buffer EXCEPT ![t] = NoValue] /\ UNCHANGED <<irq, timeout, alive>>
  BY DEF SendLink, Goto, Holds
<1>2. to \in Pc \ Masked /\ pc[t] \notin Masked /\ pc[t] \notin Blocking
  BY <1>1 DEF Pc, Masked, Blocking
<1>3. irq = NoThread /\ k.current = t BY <1>1, <1>2, CallerFacts
<1>4. /\ IrqOK' /\ pc' \in [Thread -> Pc] /\ irq' \in Thread \cup {NoThread}
      /\ \A u \in Thread : pc'[u] = IF u = t THEN to ELSE pc[u]
      /\ \A u \in Thread : pc[u] # "reset_free" /\ pc'[u] # "reset_free"
  BY <1>1, <1>2, <1>3, IrqCalm
<1>5. SystemOK(Blocking)' /\ \E W \in SUBSET Thread : Wakes(W)
  <2>1. k.current \in Thread /\ pc[k.current] \notin Blocking BY <1>2, <1>3
  <2> QED BY <1>1, <2>1, WakeFacts
<1>6. PICK W \in SUBSET Thread : Wakes(W) BY <1>5
<1>7. PICK c, f \in Seq(Msg) : Partition(c, f) BY Types DEF Pool
<1>8. /\ Lists(q, c, f) /\ Accounted(ToSet(c) \cup ToSet(f), Len(c) + Len(f))
      /\ ToSet(c) \cup ToSet(f) \in SUBSET Msg
      /\ Len(c) \in Nat /\ Len(f) \in Nat /\ Len(c) + Len(f) \in Nat /\ q.entry = Len(c)
      /\ \A u \in Thread : CallOK(u)
      /\ \A u \in Thread : msg[u] # Null => /\ msg[u] \in Msg
                                            /\ msg[u] \notin ToSet(c) \cup ToSet(f)
      /\ \A w, u \in Thread : w # u /\ msg[w] # Null => msg[u] # msg[w]
  BY <1>4, <1>7, PartitionFacts
<1>9. PICK m : m = msg[t] OBVIOUS
<1>10. /\ m # Null /\ m \in Msg /\ OffLists(q, c, f, m)
       /\ pc[t] = "send_link" => q.next[m] = Null
  BY <1>1, <1>8, <1>9, Types DEF CallOK, Sending, OffLists
<1>11. /\ Accounted(ToSet(c) \cup ToSet(f) \cup {m}, Len(c) + Len(f) + 1)'
       /\ msg' \in [Thread -> Msg \cup {Null}] /\ Len(c) + Len(f) + 1 <= MaxMsgs
  <2>1. PICK U \in SUBSET Msg, n \in Nat : U = ToSet(c) \cup ToSet(f) /\ n = Len(c) + Len(f)
    BY <1>8
  <2>2. Accounted(U, n) BY <1>8, <2>1
  <2>3. /\ Accounted(U \cup {m}, n + 1)' /\ msg' \in [Thread -> Msg \cup {Null}]
        /\ n + 1 <= MaxMsgs
    BY <1>1, <1>9, <1>10, <2>2, MessageGiven, Types
  <2> QED BY <2>1, <2>3
<1>12. q.entry + 1 \in 0 .. MaxMsgs BY <1>8, <1>11, Types
<1>13. PICK d \in Seq(Msg) :
         /\ q' \in MqState /\ Lists(q', d, f) /\ q'.entry = q.entry + 1 /\ q'.data = q.data
         /\ ToSet(d) = ToSet(c) \cup {m} /\ Len(d) = Len(c) + 1
         /\ \A l \in Msg \ (ToSet(c) \cup {m}) : q'.next[l] = q.next[l]
  <2>1. ASSUME NEW d, Lists(q', d, f) PROVE d \in Seq(Msg) BY <2>1 DEF Lists, Chained
  <2>2. CASE pc[t] = "send_link" /\ q' = Link(q, msg[t])
    <3>1. q' = Link(q, m) BY <1>9, <2>2
    <3>2. PICK d : d = Append(c, m) OBVIOUS
    <3>3. /\ q' \in MqState /\ Lists(q', d, f) /\ q'.entry = q.entry + 1 /\ q'.data = q.data
          /\ ToSet(d) = ToSet(c) \cup {m} /\ Len(d) = Len(c) + 1
          /\ \A l \in Msg \ ToSet(c) : q'.next[l] = q.next[l]
      BY <1>10, <1>12, <2>2, <3>1, <3>2, LinkLists
    <3> QED BY <2>1, <3>3
  <2>3. CASE q' = LinkUrgent(q, msg[t])
    <3>1. q' = LinkUrgent(q, m) BY <1>9, <2>3
    <3>2. PICK d : d = <<m>> \o c OBVIOUS
    <3>3. /\ q' \in MqState /\ Lists(q', d, f) /\ q'.entry = q.entry + 1 /\ q'.data = q.data
          /\ ToSet(d) = ToSet(c) \cup {m} /\ Len(d) = Len(c) + 1
          /\ \A l \in Msg \ {m} : q'.next[l] = q.next[l]
      <4>1. q.entry + 1 \in 0 .. MaxMsgs /\ OffLists(q, c, f, m) BY <1>10, <1>12
      <4>2. LET r == LinkUrgent(q, m) IN
            /\ r \in MqState /\ Lists(r, <<m>> \o c, f)
            /\ r.entry = q.entry + 1 /\ r.data = q.data /\ r.free = q.free
            /\ ToSet(<<m>> \o c) = ToSet(c) \cup {m} /\ Len(<<m>> \o c) = Len(c) + 1
            /\ \A l \in Msg \ {m} : r.next[l] = q.next[l]
        BY ONLY <4>1, UrgentLists
      <4> QED BY <3>1, <3>2, <4>2
    <3> QED BY <2>1, <3>3
  <2> QED BY <1>1, <2>2, <2>3
<1>14. /\ ToSet(c) \cup ToSet(f) \cup {m} = ToSet(d) \cup ToSet(f)
       /\ Len(c) + Len(f) + 1 = Len(d) + Len(f)
  BY <1>8, <1>13
<1>15. Partition(d, f)' BY <1>8, <1>11, <1>13, <1>14 DEF Partition, Counted
<1>16. ASSUME NEW u \in Thread \ {t} PROVE CallKept(u)
  <2>1. pc[u] \in Sending => msg[u] \in Msg \ (ToSet(c) \cup {m})
    BY <1>8, <1>9, <1>10 DEF CallOK
  <2> QED BY <1>1, <1>4, <1>13, <2>1, Types DEF CallKept, Sending
<1>17. CallOK(t)' BY <1>1, <1>4, Types DEF CallOK, Sending, Copying
<1>18. Pool' BY <1>15, <1>16, <1>17, PoolMoves, Types
<1>19. TypeOK'
  <2>1. buffer' \in [Thread -> Value \cup {NoValue}] BY <1>1, Types
  <2> QED BY <1>1, <1>4, <1>5, <1>11, <1>13, <2>1, TypesNext, Types
<1>20. Waits'
  <2>1. \A u \in Thread : Stays(u) BY <1>1, <1>4 DEF Stays, InRecv
  <2> QED BY <1>4, <1>5, <1>6, <1>13, <2>1, WakeKeeps
<1> QED BY <1>18, <1>19, <1>20 DEF IInv

\* The three sections of a send in an interrupt handler.
LEMMA IsrLists ==
  ASSUME NEW s \in MqState, NEW c, NEW f, Lists(s, c, f), s.free # Null, NEW v \in Value,
         Len(c) + Len(f) <= MaxMsgs, s.entry = Len(c)
  PROVE  LET m == s.free
             r == Link(CopyIn(Alloc(s), m, v), m) IN
         /\ r \in MqState /\ Lists(r, Append(c, m), Tail(f)) /\ r.entry = s.entry + 1
         /\ m \in ToSet(f) /\ m \in Msg
         /\ ToSet(Append(c, m)) = ToSet(c) \cup {m} /\ Len(Append(c, m)) = Len(c) + 1
         /\ ToSet(Tail(f)) = ToSet(f) \ {m} /\ Len(Tail(f)) = Len(f) - 1
         /\ r.data[m] = v
         /\ \A l \in Msg \ {m} : r.data[l] = s.data[l]
         /\ \A l \in Msg \ (ToSet(c) \cup {m}) : r.next[l] = s.next[l]
<1>1. PICK m, a : m = s.free /\ a = Alloc(s) OBVIOUS
<1>2. PICK b, g : b = CopyIn(a, m, v) /\ g = Tail(f) OBVIOUS
<1>3. PICK r, d : r = Link(b, m) /\ d = Append(c, m) OBVIOUS
<1>4. /\ a \in MqState /\ Lists(a, c, g) /\ a.entry = s.entry /\ a.data = s.data
      /\ a.next = s.next /\ m \in Msg /\ m \in ToSet(f)
      /\ ToSet(g) = ToSet(f) \ {m} /\ Len(g) = Len(f) - 1
  BY <1>1, <1>2, AllocLists
<1>5. m \notin ToSet(c) BY <1>4 DEF Lists
<1>6. OffLists(a, c, g, m) BY <1>4, <1>5 DEF OffLists
<1>7. Copied(a, b, c, g, m, v) /\ b.next[m] = Null BY <1>2, <1>6, CopyLists
<1>8. /\ b \in MqState /\ Lists(b, c, g) /\ b.entry = s.entry /\ b.data[m] = v
      /\ \A l \in Msg \ {m} : b.data[l] = s.data[l] /\ b.next[l] = s.next[l]
  BY <1>4, <1>7 DEF Copied
<1>9. OffLists(b, c, g, m) BY <1>4, <1>5, <1>8 DEF OffLists
<1>10. b.entry + 1 \in 0 .. MaxMsgs
  <2>1. c \in Seq(Msg) /\ f \in Seq(Msg) BY DEF Lists, Chained
  <2>2. Chained(s.next, s.free, f) BY DEF Lists
  <2>3. Len(f) > 0 BY <2>2, ChainHead
  <2>4. Len(c) \in Nat /\ Len(f) \in Nat /\ MaxMsgs \in Nat BY <2>1, MessageQueueAssumption
  <2> QED BY <1>8, <2>3, <2>4
<1>11. /\ r \in MqState /\ Lists(r, d, g) /\ r.entry = b.entry + 1 /\ r.data = b.data
       /\ ToSet(d) = ToSet(c) \cup {m} /\ Len(d) = Len(c) + 1
       /\ \A l \in Msg \ ToSet(c) : r.next[l] = b.next[l]
  BY <1>3, <1>7, <1>9, <1>10, LinkLists
<1> QED BY <1>1, <1>2, <1>3, <1>4, <1>8, <1>11

LEMMA IsrSendKeeps ==
  ASSUME IInv, NEW v \in Value, IsrSend(v)
  PROVE  IInv'
<1>1. /\ k.current \in Thread /\ irq = NoThread /\ q.free # Null
      /\ q' = Link(CopyIn(Alloc(q), q.free, v), q.free)
      /\ k' = IF k.wait[Mq] = <<>> THEN k ELSE Schedule(WakeOne)
      /\ UNCHANGED <<irq, pc, msg, buffer, timeout, alive>>
  BY DEF IsrSend, Interrupt, callVars
<1>2. IrqOK' BY <1>1, KernelAssumption, Types DEF IrqOK, Masked
<1>3. SystemOK(Blocking)' /\ \E W \in SUBSET Thread : Wakes(W) BY <1>1, WakeFacts
<1>4. PICK W \in SUBSET Thread : Wakes(W) BY <1>3
<1>5. \A u \in Thread : pc[u] # "reset_free" BY <1>1, KernelAssumption, Types DEF IrqOK, Masked
<1>6. PICK c, f \in Seq(Msg) : Partition(c, f) BY Types DEF Pool
<1>7. /\ Lists(q, c, f) /\ Accounted(ToSet(c) \cup ToSet(f), Len(c) + Len(f))
      /\ ToSet(c) \cap ToSet(f) = {} /\ Len(c) + Len(f) <= MaxMsgs
      /\ Len(c) \in Nat /\ Len(f) \in Nat /\ q.entry = Len(c)
      /\ \A u \in Thread : CallOK(u)
      /\ \A u \in Thread : msg[u] # Null => /\ msg[u] \in Msg
                                            /\ msg[u] \notin ToSet(c) \cup ToSet(f)
  BY <1>5, <1>6, PartitionFacts
<1>8. PICK m : m = q.free OBVIOUS
<1>9. PICK d, g : d = Append(c, m) /\ g = Tail(f) OBVIOUS
<1>10. /\ q' \in MqState /\ Lists(q', d, g) /\ q'.entry = q.entry + 1
       /\ m \in ToSet(f) /\ m \in Msg
       /\ ToSet(d) = ToSet(c) \cup {m} /\ Len(d) = Len(c) + 1
       /\ ToSet(g) = ToSet(f) \ {m} /\ Len(g) = Len(f) - 1
       /\ \A l \in Msg \ {m} : q'.data[l] = q.data[l]
       /\ \A l \in Msg \ (ToSet(c) \cup {m}) : q'.next[l] = q.next[l]
  <2>1. q' = Link(CopyIn(Alloc(q), m, v), m) /\ q.free # Null BY <1>1, <1>8
  <2>2. q \in MqState /\ v \in Value BY Types
  <2> QED BY ONLY <1>7, <1>8, <1>9, <2>1, <2>2, IsrLists
<1>11. /\ ToSet(c) \cup ToSet(f) = ToSet(d) \cup ToSet(g)
       /\ Len(c) + Len(f) = Len(d) + Len(g)
  BY <1>7, <1>10
<1>12. Partition(d, g)'
  <2>1. Accounted(ToSet(c) \cup ToSet(f), Len(c) + Len(f))' BY <1>1, <1>7, MessagesStay
  <2> QED BY <1>7, <1>10, <1>11, <2>1 DEF Partition, Counted
<1>13. d \in Seq(Msg) /\ g \in Seq(Msg) BY <1>10 DEF Lists, Chained
<1>14. ASSUME NEW u \in Thread PROVE CallOK(u)'
  <2>1. pc[u] \in Sending => msg[u] \in Msg \ (ToSet(c) \cup {m}) BY <1>7, <1>10 DEF CallOK
  <2>2. CallKept(u) BY <1>1, <1>10, <2>1 DEF CallKept, Sending
  <2> QED BY <1>7, <2>2, CallStays
<1>15. Pool' BY <1>12, <1>13, <1>14 DEF Pool
<1>16. TypeOK' BY <1>1, <1>3, <1>10, TypesNext, Types
<1>17. Waits'
  <2>1. \A u \in Thread : Stays(u) BY <1>1 DEF Stays, InRecv
  <2> QED BY <1>2, <1>3, <1>4, <1>10, <2>1, WakeKeeps
<1> QED BY <1>15, <1>16, <1>17 DEF IInv

-----------------------------------------------------------------------------
(***************************************************************************)
(* The invariant.                                                          *)
(***************************************************************************)
LEMMA InitEstablishes ==
  ASSUME Init
  PROVE  IInv
<1>1. /\ SystemOK(Blocking) /\ pc = [t \in Thread |-> "run"] /\ irq = NoThread
      /\ \A x \in Queue : k.wait[x] = <<>> /\ ToSet(k.wait[x]) = {}
  BY SystemInitOK DEF Init
<1>2. k.wait[Mq] = <<>> /\ ToSet(k.wait[Mq]) = {} BY <1>1, MessageQueueAssumption
<1>3. /\ msg = [t \in Thread |-> Null] /\ buffer = [t \in Thread |-> NoValue]
      /\ timeout = [t \in Thread |-> "zero"] /\ alive = TRUE
      /\ q = Fresh([m \in Msg |-> NoValue])
  BY DEF Init
<1>4. /\ q \in MqState /\ q.entry = 0
      /\ \E f \in Seq(Msg) : Lists(q, <<>>, f) /\ ToSet(f) = Msg /\ Len(f) = MaxMsgs
  <2>1. [m \in Msg |-> NoValue] \in [Msg -> Value \cup {NoValue}] OBVIOUS
  <2> QED BY <1>3, <2>1, FreshLists
<1>5. TypeOK BY <1>1, <1>3, <1>4 DEF TypeOK, SystemOK, Pc, Time, MqState
<1>6. IrqOK BY <1>1, KernelAssumption DEF IrqOK, Masked
<1>7. \A t \in Thread : ThreadOK(t) BY <1>1, <1>2 DEF ThreadOK, InRecv
<1>8. PICK f \in Seq(Msg) : Lists(q, <<>>, f) /\ ToSet(f) = Msg /\ Len(f) = MaxMsgs BY <1>4
<1>9. Accounted(Msg, MaxMsgs)
  <2>1. Holders = {} BY <1>3 DEF Holders
  <2>2. Null \notin Msg BY MessageQueueAssumption DEF Msg, Null
  <2>3. MaxMsgs + Cardinality(Holders) = MaxMsgs
    BY <2>1, MessageQueueAssumption, FS_EmptySet
  <2> QED BY <1>3, <2>1, <2>2, <2>3 DEF Accounted
<1>10. Partition(<<>>, f)
  <2>1. ToSet(<<>>) \cup ToSet(f) = Msg BY <1>8 DEF ToSet
  <2>2. Len(<<>>) = 0 OBVIOUS
  <2>3. Len(<<>>) + Len(f) = MaxMsgs BY <1>8, <2>2, MessageQueueAssumption
  <2>4. Counted(<<>>) BY <1>4, <2>2 DEF Counted
  <2> QED BY <1>8, <1>9, <2>1, <2>3, <2>4 DEF Partition
<1>11. \A t \in Thread : CallOK(t) BY <1>1, <1>3 DEF CallOK, Sending, Copying
<1>12. <<>> \in Seq(Msg) OBVIOUS
<1>13. Pool BY <1>8, <1>10, <1>11, <1>12 DEF Pool
<1> QED BY <1>1, <1>2, <1>5, <1>6, <1>7, <1>13 DEF IInv, Waits, RecvCount

LEMMA ResetWakeKeeps ==
  ASSUME IInv, NEW t \in Thread, ResetWake(t)
  PROVE  IInv'
<1>1. UNCHANGED mqVars BY DEF ResetWake
<1>2. CASE ResumeAllWake(t, Mq, "reset_wake", "reset_wake") BY <1>1, <1>2, ResumeAllKeeps
<1>3. CASE /\ ResumeAllTest(t, Mq, "reset_wake", "reset_wake", "reset_free")
           /\ k.wait[Mq] = <<>>
  BY <1>1, <1>3, MaskKeeps
<1> QED BY <1>2, <1>3 DEF ResetWake

LEMMA DetachLoopKeeps ==
  ASSUME IInv, NEW t \in Thread, DetachLoop(t)
  PROVE  IInv'
<1>1. UNCHANGED mqVars BY DEF DetachLoop
<1>2. CASE ResumeAllWake(t, Mq, "detach_body", "detach_test") BY <1>1, <1>2, ResumeAllKeeps
<1>3. CASE ResumeAllTest(t, Mq, "detach_test", "detach_body", "run")
  BY <1>1, <1>3, DetachKeeps
<1> QED BY <1>2, <1>3 DEF DetachLoop

LEMMA DetachLostKeeps ==
  ASSUME IInv, NEW t \in Thread, DetachLost(t)
  PROVE  IInv'
<1>1. UNCHANGED mqVars BY DEF DetachLost
<1>2. CASE LostStep(t)
  <2>1. UNCHANGED vars BY <1>1, <1>2 DEF LostStep, vars, mqVars
  <2> QED BY <2>1, StutterKeeps
<1>3. CASE ResumeAllLost(t, Mq, "detach_body") BY <1>1, <1>3, MaskKeeps
<1> QED BY <1>2, <1>3 DEF DetachLost

LEMMA SendFullKeeps ==
  ASSUME IInv, NEW t \in Thread, SendFull(t)
  PROVE  UNCHANGED vars
<1>1. pc[t] = "run" /\ pc' = [pc EXCEPT ![t] = "run"] BY DEF SendFull, Goto
<1>2. pc' = pc BY <1>1, Types
<1> QED BY <1>2 DEF SendFull, vars, mqVars

LEMMA NextKeeps ==
  ASSUME IInv, [Next]_vars
  PROVE  IInv'
<1>1. CASE UNCHANGED vars BY <1>1, StutterKeeps
<1>2. CASE Boot BY <1>2, BootKeeps
<1>3. CASE Tick BY <1>3, YieldKeeps, TimeoutKeeps DEF Tick
<1>4. ASSUME NEW t \in Thread, ThreadStep(t) PROVE IInv'
  <2>1. CASE Compute(t)
    <3>1. UNCHANGED vars BY <2>1 DEF Compute, OwnCode, vars, mqVars
    <3> QED BY <3>1, StutterKeeps
  <2>2. CASE RecvSchedule(t) \/ CallSchedule(t) BY <2>2, ScheduleKeeps
  <2>3. CASE \E v \in Value, copy \in {"send_copy", "urgent_copy"} : SendAlloc(t, v, copy)
    BY <2>3, SendAllocKeeps
  <2>4. CASE SendFull(t) BY <2>4, SendFullKeeps, StutterKeeps
  <2>5. CASE SendCopy(t) BY <2>5, SendCopyKeeps
  <2>6. CASE SendLink(t) BY <2>6, SendLinkKeeps
  <2>7. CASE RecvEmpty(t) BY <2>7, RecvEmptyKeeps
  <2>8. CASE \E time \in Time : RecvSuspend(t, time) BY <2>8, RecvSuspendKeeps
  <2>9. CASE \E time \in Time : RecvUnlink(t, time) BY <2>9, RecvUnlinkKeeps
  <2>10. CASE RecvError(t) BY <2>10, RecvErrorKeeps
  <2>11. CASE RecvCopy(t) BY <2>11, RecvCopyKeeps
  <2>12. CASE RecvFree(t) BY <2>12, RecvFreeKeeps
  <2>13. CASE Reset(t) BY <2>13, MaskKeeps
  <2>14. CASE ResetWake(t) BY <2>14, ResetWakeKeeps
  <2>15. CASE ResetFree(t) BY <2>15, ResetFreeKeeps
  <2>16. CASE ResetEntry(t) BY <2>16, ResetEntryKeeps
  <2>17. CASE Detach(t) BY <2>17, DetachKeeps
  <2>18. CASE DetachLoop(t) BY <2>18, DetachLoopKeeps
  <2>19. CASE DetachLost(t) BY <2>19, DetachLostKeeps
  <2>20. CASE MqInit(t) BY <2>20, MqInitKeeps
  <2> QED
    BY <1>4, <2>1, <2>2, <2>3, <2>4, <2>5, <2>6, <2>7, <2>8, <2>9, <2>10, <2>11, <2>12,
       <2>13, <2>14, <2>15, <2>16, <2>17, <2>18, <2>19, <2>20
    DEF ThreadStep
<1>5. CASE \E v \in Value : IsrSend(v) BY <1>5, IsrSendKeeps
<1> QED BY <1>1, <1>2, <1>3, <1>4, <1>5 DEF Next

LEMMA Invariance == Spec => []IInv
<1>1. Init => IInv BY InitEstablishes
<1>2. IInv /\ [Next]_vars => IInv' BY NextKeeps
<1> QED BY <1>1, <1>2, PTL DEF Spec

\* No wake-up is lost on a message queue: while receivers wait, every message
\* on it is matched by a receiver that was woken for a message and has yet to
\* run, whatever time-outs, resets and sends from interrupt handlers come
\* between the wake-up and the receive.
THEOREM MessageQueueLosesNoWakeup == Spec => []NoLostWakeup
<1>1. ASSUME IInv PROVE NoLostWakeup
  <2>1. Woken = {t \in Thread : /\ pc[t] \in {"recv_sched", "recv_return"}
                                /\ t \notin ToSet(k.wait[Mq])
                                /\ k.error[t] = "RT_EOK"}
    BY DEF Woken, InRecv
  <2> QED BY <1>1, <2>1 DEF IInv, Waits, NoLostWakeup, RecvCount
<1> QED BY <1>1, Invariance, PTL

-----------------------------------------------------------------------------
(***************************************************************************)
(* The messages on the lists, as the properties of module MessageQueue     *)
(* find them.                                                              *)
(***************************************************************************)
Steps == 1 .. MaxMsgs + 1

\* f follows the links from start on.
Follows(f, start) ==
    f = [i \in Steps |-> IF i = 1 THEN start
                         ELSE IF f[i - 1] = Null THEN Null ELSE q.next[f[i - 1]]]

Walk(start) == CHOOSE f : Follows(f, start)

LEMMA ChainByWalk ==
  ASSUME NEW start
  PROVE  Chain(start) =
           LET w == Walk(start)
           IN  [i \in 1 .. Cardinality({i \in Steps : w[i] # Null}) |-> w[i]]
BY DEF Chain, Walk, Follows, Steps

\* The list c, and then nothing.
Padded(c) == [i \in Steps |-> IF i <= Len(c) THEN c[i] ELSE Null]

LEMMA PaddedFollows ==
  ASSUME NEW start, NEW c, Chained(q.next, start, c)
  PROVE  Follows(Padded(c), start)
<1>1. /\ c \in Seq(Msg) /\ Null \notin Msg /\ MaxMsgs \in Nat
      /\ Len(c) \in Nat
  BY MessageQueueAssumption DEF Chained, Msg, Null
<1>2. PICK w : w = Padded(c) OBVIOUS
<1>3. \A i \in Steps : w[i] = IF i <= Len(c) THEN c[i] ELSE Null BY <1>2 DEF Padded
<1>4. ASSUME NEW i \in Steps
      PROVE  w[i] = IF i = 1 THEN start ELSE IF w[i - 1] = Null THEN Null ELSE q.next[w[i - 1]]
  <2>1. i \in Nat /\ i >= 1 /\ w[i] = IF i <= Len(c) THEN c[i] ELSE Null BY <1>1, <1>3 DEF Steps
  <2>2. CASE i = 1
    <3>1. start = IF Len(c) = 0 THEN Null ELSE c[1] BY <1>1 DEF Chained
    <3> QED BY <1>1, <2>1, <2>2, <3>1
  <2>3. CASE i # 1
    <3>1. PICK j \in Steps : j = i - 1 BY <1>1, <2>1, <2>3 DEF Steps
    <3>2. j \in Nat /\ j >= 1 /\ i = j + 1 BY <1>1, <2>1, <2>3, <3>1 DEF Steps
    <3>3. w[j] = IF j <= Len(c) THEN c[j] ELSE Null BY <1>3
    <3>4. CASE j <= Len(c)
      <4>1. j \in 1 .. Len(c) BY <1>1, <3>2, <3>4
      <4>2. c[j] \in Msg /\ w[j] # Null BY <1>1, <3>3, <3>4, <4>1
      <4>3. q.next[c[j]] = IF j = Len(c) THEN Null ELSE c[j + 1] BY <4>1 DEF Chained
      <4>4. w[i] = IF j = Len(c) THEN Null ELSE c[j + 1] BY <1>1, <2>1, <3>2, <3>4
      <4> QED BY <2>3, <3>1, <3>3, <3>4, <4>2, <4>3, <4>4
    <3>5. CASE ~(j <= Len(c))
      <4>1. w[j] = Null /\ w[i] = Null BY <1>1, <2>1, <3>2, <3>3, <3>5
      <4> QED BY <2>3, <3>1, <4>1
    <3> QED BY <3>4, <3>5
  <2> QED BY <2>2, <2>3
<1>5. w = [i \in Steps |-> w[i]] BY <1>2 DEF Padded
<1> QED BY <1>2, <1>4, <1>5 DEF Follows

\* There is one way to follow the links.
LEMMA FollowsOnce ==
  ASSUME NEW start, NEW f, NEW g, Follows(f, start), Follows(g, start)
  PROVE  f = g
<1>1. MaxMsgs \in Nat BY MessageQueueAssumption
<1> DEFINE bad == {i \in Steps : f[i] # g[i]}
<1>2. CASE bad = {}
  <2>1. \A i \in Steps : f[i] = g[i] BY <1>2
  <2>2. f = [i \in Steps |-> f[i]] /\ g = [i \in Steps |-> g[i]] BY DEF Follows
  <2> QED BY <2>1, <2>2
<1>3. CASE bad # {}
  <2>1. bad \subseteq Nat BY <1>1 DEF Steps
  <2>2. PICK n \in bad : \A m \in bad : n <= m BY <1>3, <2>1, SmallestNat
  <2>3. n \in Steps /\ f[n] # g[n] BY <2>2
  <2>4. f[n] = IF n = 1 THEN start ELSE IF f[n - 1] = Null THEN Null ELSE q.next[f[n - 1]]
    BY <2>3 DEF Follows
  <2>5. g[n] = IF n = 1 THEN start ELSE IF g[n - 1] = Null THEN Null ELSE q.next[g[n - 1]]
    BY <2>3 DEF Follows
  <2>6. n # 1 BY <2>3, <2>4, <2>5
  <2>7. n - 1 \in Steps /\ ~(n <= n - 1) BY <1>1, <2>3, <2>6 DEF Steps
  <2>8. f[n - 1] = g[n - 1] BY <2>2, <2>7
  <2> QED BY <2>3, <2>4, <2>5, <2>8
<1> QED BY <1>2, <1>3

\* Chain finds the list.
LEMMA ChainIs ==
  ASSUME NEW start, NEW c, Chained(q.next, start, c), Len(c) <= MaxMsgs
  PROVE  Chain(start) = c
<1>1. /\ c \in Seq(Msg) /\ Null \notin Msg /\ MaxMsgs \in Nat /\ Len(c) \in Nat
  BY MessageQueueAssumption DEF Chained, Msg, Null
<1>2. PICK w : w = Walk(start) OBVIOUS
<1>3. Follows(w, start) BY <1>2, PaddedFollows DEF Walk
<1>4. w = Padded(c) BY <1>3, PaddedFollows, FollowsOnce
<1>5. \A i \in Steps : w[i] = IF i <= Len(c) THEN c[i] ELSE Null BY <1>4 DEF Padded
<1>6. \A i \in 1 .. Len(c) : i \in Steps /\ w[i] = c[i] /\ w[i] # Null
  BY <1>1, <1>5 DEF Steps
<1>7. {i \in Steps : w[i] # Null} = 1 .. Len(c) BY <1>1, <1>5, <1>6 DEF Steps
<1>8. Cardinality(1 .. Len(c)) = Len(c)
  <2>1. PICK n \in Int : n = Len(c) BY <1>1
  <2>2. 1 \in Int OBVIOUS
  <2>3. Cardinality(1 .. n) = IF 1 > n THEN 0 ELSE n - 1 + 1 BY ONLY <2>1, <2>2, FS_Interval
  <2> QED BY <1>1, <2>1, <2>3
<1>9. Chain(start) = [i \in 1 .. Len(c) |-> w[i]] BY <1>2, <1>7, <1>8, ChainByWalk
<1>10. c = [i \in 1 .. Len(c) |-> c[i]] BY <1>1
<1> QED BY <1>6, <1>9, <1>10

\* The queue and the free list of a state.
LEMMA ListsFound ==
  ASSUME NEW c \in Seq(Msg), NEW f \in Seq(Msg), Partition(c, f)
  PROVE  /\ Chain(q.head) = c /\ Chain(q.free) = f
         /\ Len(c) \in Nat /\ Len(f) \in Nat /\ Len(c) + Len(f) <= MaxMsgs
<1>1. Len(c) \in Nat /\ Len(f) \in Nat /\ MaxMsgs \in Nat BY MessageQueueAssumption
<1>2. PICK n \in Nat, U \in {ToSet(c) \cup ToSet(f)} : n = Len(c) + Len(f) BY <1>1
<1>3. Accounted(U, n) BY <1>2 DEF Partition
<1>4. n <= MaxMsgs BY <1>3, RoomLeft
<1>5. Len(c) <= MaxMsgs /\ Len(f) <= MaxMsgs BY <1>1, <1>2, <1>4
<1>6. Chained(q.next, q.head, c) /\ Chained(q.next, q.free, f) BY DEF Partition, Lists
<1>7. Chain(q.head) = c BY <1>5, <1>6, ChainIs
<1>8. Chain(q.free) = f BY <1>5, <1>6, ChainIs
<1> QED BY <1>1, <1>2, <1>4, <1>7, <1>8

\* No message of the pool is lost or used twice, although rt_mq_send,
\* rt_mq_urgent and rt_mq_recv keep a message off both lists while they copy it
\* with interrupts enabled; and entry and the tail are those of the queue.
THEOREM MessageQueueLosesNoMessage == Spec => []MessagesAccounted
<1>1. ASSUME IInv PROVE MessagesAccounted
  <2>1. TypeOK BY <1>1, Types
  <2>2. ASSUME irq = NoThread
        PROVE  LET held == {t \in Thread : msg[t] # Null}
                   queued == Chain(q.head)
                   free == Chain(q.free)
               IN  /\ Len(queued) = q.entry
                   /\ q.tail = IF queued = <<>> THEN Null ELSE Last(queued)
                   /\ Len(queued) + Len(free) + Cardinality(held) = MaxMsgs
                   /\ ToSet(queued) \cup ToSet(free) \cup {msg[t] : t \in held} = Msg
    <3>1. PICK c, f \in Seq(Msg) : Partition(c, f) BY <1>1, Types DEF Pool
    <3>2. Chain(q.head) = c /\ Chain(q.free) = f BY <3>1, ListsFound
    <3>3. Holders = {t \in Thread : msg[t] # Null} BY DEF Holders
    <3>4. Len(c) = q.entry
      <4>1. \A t \in Thread : pc[t] # "reset_free"
        BY <1>1, <2>2, Types, KernelAssumption DEF IrqOK, Masked
      <4> QED BY <3>1, <4>1 DEF Partition, Counted
    <3>5. q.tail = IF c = <<>> THEN Null ELSE Last(c) BY <3>1 DEF Partition, Lists, Last
    <3>6. Len(c) + Len(f) + Cardinality(Holders) = MaxMsgs BY <3>1 DEF Partition, Accounted
    <3>7. ToSet(c) \cup ToSet(f) \cup {msg[t] : t \in Holders} = Msg
      <4>1. ToSet(c) \subseteq Msg /\ ToSet(f) \subseteq Msg BY <3>1, ToSetFacts
      <4>2. \A t \in Holders : msg[t] \in Msg BY <1>1, Types DEF Holders
      <4>3. ASSUME NEW m \in Msg
            PROVE  m \in ToSet(c) \/ m \in ToSet(f) \/ \E t \in Holders : msg[t] = m
        <5>1. m # Null BY MessageQueueAssumption DEF Msg, Null
        <5> QED BY <3>1, <5>1 DEF Partition, Accounted, Holders
      <4> QED BY <4>1, <4>2, <4>3
    <3> QED BY <3>2, <3>3, <3>4, <3>5, <3>6, <3>7
  <2> QED BY <2>1, <2>2 DEF MessagesAccounted
<1> QED BY <1>1, Invariance, PTL

-----------------------------------------------------------------------------
(***************************************************************************)
(* The message queue implements the bounded queue of module BoundedQueue.  *)
(***************************************************************************)
Items == IF irq = NoThread THEN Contents ELSE <<>>

\* The places of rt_mq_urgent.
UrgentPc == {"urgent_copy", "urgent_link"}

LEMMA UrgingKept ==
  ASSUME IInv, NEW t \in Thread, NEW to, pc' = [pc EXCEPT ![t] = to],
         pc[t] \in UrgentPc <=> to \in UrgentPc
  PROVE  Urging' = Urging
<1>1. \A u \in Thread : pc'[u] \in UrgentPc <=> pc[u] \in UrgentPc BY Types
<1> QED BY <1>1 DEF Urging, UrgentPc

\* The contents of the messages of c.
Shown(data, c) == [i \in 1 .. Len(c) |-> data[c[i]]]

ContentsAgree ==
    \A c : Chained(q.next, q.head, c) /\ Len(c) <= MaxMsgs => Contents = Shown(q.data, c)

LEMMA ContentsShown == ContentsAgree
<1>1. SUFFICES ASSUME NEW c, Chained(q.next, q.head, c), Len(c) <= MaxMsgs
               PROVE  Contents = Shown(q.data, c)
  BY DEF ContentsAgree
<1>2. Chain(q.head) = c BY <1>1, ChainIs
<1> QED BY <1>2 DEF Contents, Shown

LEMMA ContentsShownNext ==
  ASSUME NEW c, Chained(q'.next, q'.head, c), Len(c) <= MaxMsgs
  PROVE  Contents' = Shown(q'.data, c)
<1>1. ContentsAgree' BY ContentsShown, PTL
<1> QED BY <1>1 DEF ContentsAgree

\* What the queue holds, in terms of the messages on it.
LEMMA ItemsShown ==
  ASSUME IInv, NEW c \in Seq(Msg), NEW f \in Seq(Msg), Partition(c, f)
  PROVE  /\ Chained(q.next, q.head, c) /\ Len(c) <= MaxMsgs
         /\ Contents = Shown(q.data, c)
<1>1. Chained(q.next, q.head, c) BY DEF Partition, Lists
<1>2. Len(c) <= MaxMsgs BY ListsFound, MessageQueueAssumption
<1> QED BY <1>1, <1>2, ContentsShown DEF ContentsAgree

\* A step that leaves the messages on the queue alone.
LEMMA ContentsStay ==
  ASSUME IInv, NEW c \in Seq(Msg), NEW f \in Seq(Msg), Partition(c, f), q'.head = q.head,
         \A m \in ToSet(c) : q'.next[m] = q.next[m] /\ q'.data[m] = q.data[m]
  PROVE  Contents' = Contents
<1>1. /\ Chained(q.next, q.head, c) /\ Len(c) <= MaxMsgs /\ Contents = Shown(q.data, c)
  BY ItemsShown
<1>2. Chained(q'.next, q'.head, c) BY <1>1, ChainFrame
<1>3. Contents' = Shown(q'.data, c) BY <1>1, <1>2, ContentsShownNext
<1>4. \A i \in 1 .. Len(c) : q'.data[c[i]] = q.data[c[i]] BY ToSetFacts
<1>5. Shown(q'.data, c) = Shown(q.data, c) BY <1>4 DEF Shown
<1> QED BY <1>1, <1>3, <1>5

\* A receiver that has taken a message has the same one after the step.
ReadKept(u) ==
    \/ {pc[u], pc'[u]} \cap Copying = {}
    \/ /\ pc'[u] = pc[u] /\ msg'[u] = msg[u] /\ buffer'[u] = buffer[u]
       /\ q'.data[msg[u]] = q.data[msg[u]]

LEMMA ReceivedKept ==
  ASSUME \A u \in Receiver : ReadKept(u)
  PROVE  Received' = Received
<1>1. ASSUME NEW u \in Receiver
      PROVE  (CASE pc'[u] = "recv_copy" -> q'.data[msg'[u]]
                [] pc'[u] = "recv_free" -> buffer'[u]
                [] OTHER -> NoValue) =
             (CASE pc[u] = "recv_copy" -> q.data[msg[u]]
                [] pc[u] = "recv_free" -> buffer[u]
                [] OTHER -> NoValue)
  <2>1. CASE {pc[u], pc'[u]} \cap Copying = {} BY <2>1 DEF Copying
  <2>2. CASE /\ pc'[u] = pc[u] /\ msg'[u] = msg[u] /\ buffer'[u] = buffer[u]
             /\ q'.data[msg[u]] = q.data[msg[u]]
    BY <2>2
  <2> QED BY <2>1, <2>2 DEF ReadKept
<1> QED BY <1>1 DEF Received

\* A step of t that is not about a message t has taken.
LEMMA OthersRead ==
  ASSUME IInv, NEW t \in Thread, NEW to, pc' = [pc EXCEPT ![t] = to],
         pc[t] \notin Copying, to \notin Copying,
         \A u \in Thread \ {t} : msg'[u] = msg[u] /\ buffer'[u] = buffer[u],
         \A u \in Thread \ {t} : msg[u] # Null => q'.data[msg[u]] = q.data[msg[u]]
  PROVE  Received' = Received
<1>1. pc \in [Thread -> Pc] /\ Receiver \subseteq Thread BY Types, MessageQueueAssumption
<1>2. \A u \in Thread : pc'[u] = IF u = t THEN to ELSE pc[u] BY <1>1
<1>3. ASSUME NEW u \in Thread PROVE ReadKept(u)
  <2>1. CASE u = t BY <1>2, <2>1 DEF ReadKept
  <2>2. CASE u # t
    <3>1. CallOK(u) BY Types DEF Pool
    <3> QED BY <1>2, <2>2, <3>1 DEF ReadKept, CallOK
  <2> QED BY <2>1, <2>2
<1> QED BY <1>1, <1>3, ReceivedKept

\* The queue after a message with content v was linked to it.
LEMMA PutItems ==
  ASSUME IInv, NEW c \in Seq(Msg), NEW f \in Seq(Msg), Partition(c, f), Len(c) + 1 <= MaxMsgs,
         NEW m \in Msg, NEW v, q'.data[m] = v,
         \A l \in ToSet(c) : q'.data[l] = q.data[l]
  PROVE  /\ Chained(q'.next, q'.head, Append(c, m)) => Contents' = Append(Contents, v)
         /\ Chained(q'.next, q'.head, <<m>> \o c) => Contents' = <<v>> \o Contents
         /\ Len(Contents) < MaxMsgs
<1>1. Contents = Shown(q.data, c) BY ItemsShown
<1>2. Len(c) \in Nat /\ MaxMsgs \in Nat BY MessageQueueAssumption
<1>3. \A i \in 1 .. Len(c) : q'.data[c[i]] = q.data[c[i]] BY ToSetFacts
<1>4. PICK s : s = Shown(q.data, c) OBVIOUS
<1>5. PICK T : s \in Seq(T) /\ v \in T /\ Len(s) = Len(c)
              /\ \A i \in 1 .. Len(c) : s[i] = q.data[c[i]]
  <2>1. PICK T : T = {q.data[c[i]] : i \in 1 .. Len(c)} \cup {v} OBVIOUS
  <2>2. \A i \in 1 .. Len(c) : q.data[c[i]] \in T BY <2>1
  <2>3. s = [i \in 1 .. Len(c) |-> q.data[c[i]]] BY <1>4 DEF Shown
  <2>4. s \in Seq(T) /\ Len(s) = Len(c) BY <1>2, <2>2, <2>3
  <2> QED BY <2>1, <2>3, <2>4
<1>6. ASSUME Chained(q'.next, q'.head, Append(c, m)) PROVE Contents' = Append(Contents, v)
  <2>1. PICK d : d = Append(c, m) OBVIOUS
  <2>2. Len(d) = Len(c) + 1 /\ d[Len(c) + 1] = m /\ \A i \in 1 .. Len(c) : d[i] = c[i]
    BY <1>2, <2>1
  <2>3. Contents' = Shown(q'.data, d) BY <1>2, <1>6, <2>1, <2>2, ContentsShownNext
  <2>4. \A i \in 1 .. Len(c) + 1 : q'.data[d[i]] = IF i <= Len(c) THEN s[i] ELSE v
    BY <1>2, <1>3, <1>5, <2>2
  <2>5. Append(s, v) = [i \in 1 .. Len(c) + 1 |-> IF i <= Len(c) THEN s[i] ELSE v]
    <3>1. PICK a : a = Append(s, v) OBVIOUS
    <3>2. /\ a \in Seq(T) /\ Len(a) = Len(c) + 1 /\ a[Len(c) + 1] = v
          /\ \A i \in 1 .. Len(c) : a[i] = s[i]
      BY <1>5, <3>1, AppendProperties
    <3>3. \A i \in 1 .. Len(c) + 1 : a[i] = IF i <= Len(c) THEN s[i] ELSE v BY <1>2, <3>2
    <3>4. a = [i \in 1 .. Len(c) + 1 |-> a[i]] BY <3>2
    <3> QED BY <3>1, <3>3, <3>4
  <2>6. Shown(q'.data, d) = [i \in 1 .. Len(c) + 1 |-> IF i <= Len(c) THEN s[i] ELSE v]
    BY <2>2, <2>4 DEF Shown
  <2> QED BY <1>1, <1>4, <2>3, <2>5, <2>6
<1>7. ASSUME Chained(q'.next, q'.head, <<m>> \o c) PROVE Contents' = <<v>> \o Contents
  <2>1. PICK d : d = <<m>> \o c OBVIOUS
  <2>2. /\ Len(d) = Len(c) + 1 /\ d[1] = m
        /\ \A i \in 1 .. Len(c) + 1 : i # 1 => d[i] = c[i - 1]
    BY <1>2, <2>1
  <2>3. Contents' = Shown(q'.data, d) BY <1>2, <1>7, <2>1, <2>2, ContentsShownNext
  <2>4. ASSUME NEW i \in 1 .. Len(c) + 1
        PROVE  q'.data[d[i]] = IF i = 1 THEN v ELSE s[i - 1]
    <3>1. CASE i = 1 BY <2>2, <3>1
    <3>2. CASE i # 1
      <4>1. i - 1 \in 1 .. Len(c) BY <1>2, <3>2
      <4> QED BY <1>3, <1>5, <2>2, <3>2, <4>1
    <3> QED BY <3>1, <3>2
  <2>5. <<v>> \o s = [i \in 1 .. Len(c) + 1 |-> IF i = 1 THEN v ELSE s[i - 1]]
    BY <1>2, <1>5
  <2>6. Shown(q'.data, d) = [i \in 1 .. Len(c) + 1 |-> IF i = 1 THEN v ELSE s[i - 1]]
    BY <2>2, <2>4 DEF Shown
  <2> QED BY <1>1, <1>4, <2>3, <2>5, <2>6
<1>8. Len(Contents) < MaxMsgs BY <1>1, <1>2, <1>4, <1>5
<1> QED BY <1>6, <1>7, <1>8

\* The queue of this state after rt_mq_urgent has linked m.
LEMMA UrgentNow ==
  ASSUME NEW c, NEW f, NEW m, OffLists(q, c, f, m), q.entry + 1 \in 0 .. MaxMsgs
  PROVE  Lists(LinkUrgent(q, m), <<m>> \o c, f) /\ LinkUrgent(q, m).data = q.data
<1>1. OffLists(q, c, f, m) /\ q.entry + 1 \in 0 .. MaxMsgs OBVIOUS
<1>2. LET r == LinkUrgent(q, m) IN
         /\ r \in MqState /\ Lists(r, <<m>> \o c, f)
         /\ r.entry = q.entry + 1 /\ r.data = q.data /\ r.free = q.free
         /\ ToSet(<<m>> \o c) = ToSet(c) \cup {m} /\ Len(<<m>> \o c) = Len(c) + 1
         /\ \A l \in Msg \ {m} : r.next[l] = q.next[l]
  BY ONLY <1>1, UrgentLists, SMT
<1> QED BY <1>2

LEMMA LinkStep ==
  ASSUME IInv, NEW t \in Thread, SendLink(t)
  PROVE  Queued!Next
<1>1. PICK to \in {"run", "sched"} :
        /\ Running(t) /\ pc[t] \in {"send_link", "urgent_link"} /\ pc' = [pc EXCEPT ![t] = to]
        /\ \/ pc[t] = "send_link" /\ q' = Link(q, msg[t])
           \/ pc[t] = "urgent_link" /\ q' = LinkUrgent(q, msg[t])
        /\ msg' = [msg EXCEPT ![t] = Null]
        /\ buffer' = [buffer EXCEPT ![t] = NoValue] /\ irq' = irq /\ alive' = alive
  BY DEF SendLink, Goto, Holds
<1>2. to \in Pc \ Masked /\ pc[t] \notin Masked /\ pc[t] \notin Blocking
  BY <1>1 DEF Pc, Masked, Blocking
<1>3. irq = NoThread /\ irq' = NoThread BY <1>1, <1>2, CallerFacts
<1>4. \A u \in Thread : pc[u] # "reset_free" BY <1>1, <1>2, <1>3, IrqCalm
<1>5. PICK c, f \in Seq(Msg) : Partition(c, f) BY Types DEF Pool
<1>6. /\ Lists(q, c, f) /\ Accounted(ToSet(c) \cup ToSet(f), Len(c) + Len(f))
      /\ ToSet(c) \cup ToSet(f) \in SUBSET Msg
      /\ Len(c) \in Nat /\ Len(f) \in Nat /\ Len(c) + Len(f) \in Nat /\ q.entry = Len(c)
      /\ \A u \in Thread : CallOK(u)
      /\ \A u \in Thread : msg[u] # Null => /\ msg[u] \in Msg
                                            /\ msg[u] \notin ToSet(c) \cup ToSet(f)
  BY <1>4, <1>5, PartitionFacts
<1>7. PICK m, v : m = msg[t] /\ v = buffer[t] OBVIOUS
<1>8. /\ m # Null /\ m \in Msg /\ OffLists(q, c, f, m) /\ v \in Value /\ q.data[m] = v
      /\ pc[t] = "send_link" => q.next[m] = Null
  BY <1>1, <1>6, <1>7, Types DEF CallOK, Sending, OffLists
<1>9. Len(c) + Len(f) + 1 <= MaxMsgs
  <2>1. PICK U \in SUBSET Msg, n \in Nat : U = ToSet(c) \cup ToSet(f) /\ n = Len(c) + Len(f)
    BY <1>6
  <2>2. Accounted(U, n) BY <1>6, <2>1
  <2>3. n + 1 <= MaxMsgs BY <1>1, <1>7, <1>8, <2>2, MessageGiven, Types
  <2> QED BY <2>1, <2>3
<1>10. q.entry + 1 \in 0 .. MaxMsgs /\ Len(c) + 1 <= MaxMsgs BY <1>6, <1>9, Types
<1>11. Received' = Received
  <2>1. q'.data = q.data
    <3>1. CASE pc[t] = "send_link" /\ q' = Link(q, msg[t])
      BY <1>7, <1>8, <1>10, <3>1, LinkLists
    <3>2. CASE q' = LinkUrgent(q, msg[t]) BY <3>2, Types DEF LinkUrgent, MqState
    <3> QED BY <1>1, <3>1, <3>2
  <2>2. pc[t] \notin Copying /\ to \notin Copying BY <1>1 DEF Copying
  <2>3. \A u \in Thread \ {t} : msg'[u] = msg[u] /\ buffer'[u] = buffer[u] BY <1>1, Types
  <2> QED BY <1>1, <2>1, <2>2, <2>3, OthersRead
<1>12. CASE pc[t] = "send_link" /\ q' = Link(q, msg[t])
  <2>1. Lists(q', Append(c, m), f) /\ q'.data = q.data
    BY <1>7, <1>8, <1>10, <1>12, LinkLists
  <2>2. Chained(q'.next, q'.head, Append(c, m)) BY <2>1 DEF Lists
  <2>3. Contents' = Append(Contents, v) /\ Len(Contents) < MaxMsgs
    BY <1>5, <1>8, <1>10, <2>1, <2>2, PutItems
  <2>4. Urging' = Urging BY <1>1, <1>12, UrgingKept DEF UrgentPc
  <2>5. Open' = Open BY <1>1 DEF Open
  <2>6. Queued!Put(v) BY <1>3, <1>11, <2>3, <2>4, <2>5 DEF Queued!Put
  <2> QED BY <1>8, <2>6 DEF Queued!Next
<1>13. CASE pc[t] = "urgent_link" /\ q' = LinkUrgent(q, msg[t])
  <2>1. q' = LinkUrgent(q, m) BY <1>7, <1>13
  <2>2. q.entry + 1 \in 0 .. MaxMsgs BY <1>10
  <2>3. Lists(q', <<m>> \o c, f) /\ q'.data = q.data BY <1>8, <2>1, <2>2, UrgentNow
  <2>4. Chained(q'.next, q'.head, <<m>> \o c) BY <2>3 DEF Lists
  <2>5. Contents' = <<v>> \o Contents /\ Len(Contents) < MaxMsgs
    BY <1>5, <1>8, <1>10, <2>3, <2>4, PutItems
  <2>6. t \in Urging /\ Urging' = Urging \ {t}
    <3>1. \A u \in Thread : pc'[u] = IF u = t THEN to ELSE pc[u] BY <1>1, Types
    <3> QED BY <1>1, <1>13, <3>1 DEF Urging
  <2>7. Open' = Open BY <1>1 DEF Open
  <2>8. Queued!PutUrgent(t, v) BY <1>3, <1>11, <2>5, <2>6, <2>7 DEF Queued!PutUrgent
  <2> QED BY <1>8, <2>8 DEF Queued!Next
<1> QED BY <1>1, <1>12, <1>13

LEMMA IsrStep ==
  ASSUME IInv, NEW v \in Value, IsrSend(v)
  PROVE  Queued!Next
<1>1. /\ irq = NoThread /\ q.free # Null /\ q' = Link(CopyIn(Alloc(q), q.free, v), q.free)
      /\ UNCHANGED <<irq, pc, msg, buffer, alive>>
  BY DEF IsrSend, Interrupt, callVars
<1>2. \A u \in Thread : pc[u] # "reset_free" BY <1>1, KernelAssumption, Types DEF IrqOK, Masked
<1>3. PICK c, f \in Seq(Msg) : Partition(c, f) BY Types DEF Pool
<1>4. /\ Lists(q, c, f) /\ ToSet(c) \cap ToSet(f) = {} /\ Len(c) + Len(f) <= MaxMsgs
      /\ Len(c) \in Nat /\ Len(f) \in Nat /\ q.entry = Len(c)
      /\ \A u \in Thread : CallOK(u)
      /\ ToSet(c) \cup ToSet(f) \in SUBSET Msg
      /\ \A u \in Thread : msg[u] # Null => /\ msg[u] \in Msg
                                            /\ msg[u] \notin ToSet(c) \cup ToSet(f)
  BY <1>2, <1>3, PartitionFacts
<1>5. PICK m : m = q.free OBVIOUS
<1>6. PICK d, g : d = Append(c, m) /\ g = Tail(f) OBVIOUS
<1>7. /\ Lists(q', d, g) /\ m \in ToSet(f) /\ m \in Msg /\ q'.data[m] = v
      /\ Len(g) = Len(f) - 1
      /\ \A l \in Msg \ {m} : q'.data[l] = q.data[l]
  <2>1. q' = Link(CopyIn(Alloc(q), m, v), m) /\ q.free # Null BY <1>1, <1>5
  <2>2. q \in MqState /\ v \in Value BY Types
  <2> QED BY ONLY <1>4, <1>5, <1>6, <2>1, <2>2, IsrLists
<1>8. Len(c) + 1 <= MaxMsgs
  <2>1. g \in Seq(Msg) /\ Len(g) \in Nat BY <1>7 DEF Lists, Chained
  <2> QED BY <1>4, <1>7, <2>1, MessageQueueAssumption
<1>9. \A l \in ToSet(c) : q'.data[l] = q.data[l] BY <1>4, <1>7
<1>10. Chained(q'.next, q'.head, Append(c, m)) BY <1>6, <1>7 DEF Lists
<1>11. Contents' = Append(Contents, v) /\ Len(Contents) < MaxMsgs
  BY <1>3, <1>7, <1>8, <1>9, <1>10, PutItems
<1>12. Received' = Received
  <2>1. Receiver \subseteq Thread BY MessageQueueAssumption
  <2>2. ASSUME NEW u \in Receiver PROVE ReadKept(u)
    <3>1. CASE pc[u] \notin Copying BY <1>1, <3>1 DEF ReadKept
    <3>2. CASE pc[u] \in Copying
      <4>1. msg[u] \in Msg \ {m} BY <1>4, <1>7, <2>1, <3>2 DEF CallOK
      <4> QED BY <1>1, <1>7, <4>1 DEF ReadKept
    <3> QED BY <3>1, <3>2
  <2> QED BY <2>2, ReceivedKept
<1>13. Urging' = Urging /\ Open' = Open BY <1>1 DEF Urging, Open
<1>14. Queued!Put(v) BY <1>1, <1>11, <1>12, <1>13 DEF Queued!Put
<1> QED BY <1>14 DEF Queued!Next

\* The head of the queue is the message that rt_mq_recv takes.
LEMMA TakeStep ==
  ASSUME IInv, NEW t \in Thread, NEW time, RecvUnlink(t, time)
  PROVE  Queued!Next
<1>1. /\ Running(t) /\ pc[t] \in {"run", "recv_return"} /\ (pc[t] = "run" => t \in Receiver)
      /\ q.entry # 0 /\ pc' = [pc EXCEPT ![t] = "recv_copy"]
      /\ q' = [Unlink(q) EXCEPT !.entry = q.entry - 1]
      /\ msg' = [msg EXCEPT ![t] = q.head] /\ buffer' = [buffer EXCEPT ![t] = NoValue]
      /\ irq' = irq /\ alive' = alive
  BY DEF RecvUnlink, AtRecv, Holds
<1>2. pc[t] \notin Masked \cup Blocking /\ "recv_copy" \in Pc \ Masked
  BY <1>1 DEF Masked, Blocking, Pc
<1>3. irq = NoThread /\ irq' = NoThread BY <1>1, <1>2, CallerFacts
<1>4. /\ \A u \in Thread : pc'[u] = IF u = t THEN "recv_copy" ELSE pc[u]
      /\ \A u \in Thread : pc[u] # "reset_free"
  BY <1>1, <1>2, <1>3, IrqCalm
<1>5. PICK c, f \in Seq(Msg) : Partition(c, f) BY Types DEF Pool
<1>6. /\ Lists(q, c, f) /\ Len(c) \in Nat /\ Len(c) + Len(f) <= MaxMsgs /\ q.entry = Len(c)
      /\ Len(f) \in Nat /\ \A u \in Thread : CallOK(u)
  BY <1>4, <1>5, PartitionFacts
<1>7. q.head # Null
  <2>1. Chained(q.next, q.head, c) BY <1>6 DEF Lists
  <2> QED BY <1>1, <1>6, <2>1, ChainHead
<1>8. PICK m, g, r : m = q.head /\ g = Tail(c) /\ r = Unlink(q) OBVIOUS
<1>9. /\ r \in MqState /\ Lists(r, g, f) /\ r.data = q.data /\ m = c[1] /\ m \in Msg
      /\ Len(g) = Len(c) - 1 /\ c # <<>>
  BY <1>6, <1>7, <1>8, UnlinkLists, Types
<1>10. q'.data = q.data /\ Chained(q'.next, q'.head, g)
  <2>1. PICK e : e = q.entry - 1 OBVIOUS
  <2>2. q' = [r EXCEPT !.entry = e] BY <1>1, <1>8, <2>1
  <2>3. q'.data = r.data /\ q'.next = r.next /\ q'.head = r.head
    BY ONLY <1>9, <2>2 DEF MqState
  <2> QED BY <1>9, <2>3 DEF Lists
<1>11. Contents = Shown(q.data, c) /\ Contents' = Shown(q.data, g)
  <2>1. Len(g) <= MaxMsgs BY <1>6, <1>9, MessageQueueAssumption
  <2>2. Contents' = Shown(q'.data, g) BY <1>10, <2>1, ContentsShownNext
  <2> QED BY <1>5, <1>10, <2>2, ItemsShown
<1>12. Contents # <<>> /\ Head(Contents) = q.data[m] /\ Contents' = Tail(Contents)
  <2>1. PICK s : s = Shown(q.data, c) OBVIOUS
  <2>2. PICK T : s \in Seq(T) /\ Len(s) = Len(c) /\ \A i \in 1 .. Len(c) : s[i] = q.data[c[i]]
    <3>1. PICK T : T = {q.data[c[i]] : i \in 1 .. Len(c)} OBVIOUS
    <3>2. \A i \in 1 .. Len(c) : q.data[c[i]] \in T BY <3>1
    <3>3. s = [i \in 1 .. Len(c) |-> q.data[c[i]]] BY <2>1 DEF Shown
    <3>4. s \in Seq(T) /\ Len(s) = Len(c) BY <1>6, <3>2, <3>3
    <3> QED BY <3>3, <3>4
  <2>3. Len(c) > 0 /\ 1 \in 1 .. Len(c) BY <1>1, <1>6
  <2>4. s # <<>> /\ Head(s) = q.data[m] BY <1>9, <2>2, <2>3
  <2>5. PICK w : w = Tail(s) OBVIOUS
  <2>6. w \in Seq(T) /\ Len(w) = Len(c) - 1 /\ \A i \in 1 .. Len(c) - 1 : w[i] = s[i + 1]
    BY <2>2, <2>4, <2>5, HeadTailProperties
  <2>7. \A i \in 1 .. Len(c) - 1 : g[i] = c[i + 1]
    BY <1>8, <1>9, HeadTailProperties
  <2>8. ASSUME NEW i \in 1 .. Len(c) - 1 PROVE w[i] = q.data[g[i]]
    <3>1. i + 1 \in 1 .. Len(c) BY <1>6
    <3>2. s[i + 1] = q.data[c[i + 1]] BY <2>2, <3>1
    <3> QED BY <2>6, <2>7, <3>2
  <2>9. w = [i \in 1 .. Len(c) - 1 |-> w[i]] BY <2>6
  <2>10. w = Shown(q.data, g) BY <1>9, <2>8, <2>9 DEF Shown
  <2> QED BY <1>11, <2>1, <2>4, <2>5, <2>10
<1>13. t \in Receiver BY <1>1, <1>6 DEF CallOK
<1>14. Received[t] = NoValue BY <1>1, <1>13 DEF Received
<1>15. \A u \in Receiver : Received'[u] = IF u = t THEN q.data[m] ELSE Received[u]
  <2>1. Receiver \subseteq Thread BY MessageQueueAssumption
  <2>2. \A u \in Thread : /\ msg'[u] = IF u = t THEN m ELSE msg[u]
                          /\ u # t => buffer'[u] = buffer[u]
    BY <1>1, <1>8, Types
  <2> QED BY <1>4, <1>10, <2>1, <2>2 DEF Received
<1>16. Received' = [Received EXCEPT ![t] = Head(Contents)] BY <1>12, <1>15 DEF Received
<1>17. Urging' = Urging BY <1>1, UrgingKept DEF UrgentPc
<1>18. Open' = Open BY <1>1 DEF Open
<1>19. Queued!Take(t) BY <1>3, <1>12, <1>14, <1>16, <1>17, <1>18 DEF Queued!Take
<1> QED BY <1>13, <1>19 DEF Queued!Next

\* rt_mq_recv returns with the content it has copied.
LEMMA ReturnStep ==
  ASSUME IInv, NEW t \in Thread, RecvFree(t)
  PROVE  Queued!Next
<1>1. /\ Running(t) /\ pc[t] = "recv_free" /\ pc' = [pc EXCEPT ![t] = "run"]
      /\ q' = Free(q, msg[t]) /\ msg' = [msg EXCEPT ![t] = Null]
      /\ buffer' = [buffer EXCEPT ![t] = NoValue] /\ irq' = irq /\ alive' = alive
  BY DEF RecvFree, Goto, Holds
<1>2. PICK c, f \in Seq(Msg) : Partition(c, f) BY Types DEF Pool
<1>3. /\ \A u \in Thread : CallOK(u)
      /\ msg[t] # Null => msg[t] \in Msg /\ msg[t] \notin ToSet(c)
      /\ ToSet(c) \subseteq Msg
  BY <1>2, PartitionFacts
<1>4. t \in Receiver /\ msg[t] \in Msg /\ msg[t] \notin ToSet(c)
  BY <1>1, <1>3 DEF CallOK, Copying
<1>5. /\ q'.head = q.head /\ q'.data = q.data
      /\ \A l \in Msg \ {msg[t]} : q'.next[l] = q.next[l]
  BY <1>1, <1>4, Types DEF Free, MqState
<1>6. Contents' = Contents BY <1>2, <1>3, <1>4, <1>5, ContentsStay
<1>7. \A u \in Receiver : Received'[u] = IF u = t THEN NoValue ELSE Received[u]
  <2>1. Receiver \subseteq Thread BY MessageQueueAssumption
  <2>2. \A u \in Thread : /\ pc'[u] = IF u = t THEN "run" ELSE pc[u]
                          /\ u # t => msg'[u] = msg[u] /\ buffer'[u] = buffer[u]
    BY <1>1, Types
  <2> QED BY <1>5, <2>1, <2>2 DEF Received
<1>8. Received' = [Received EXCEPT ![t] = NoValue] BY <1>7 DEF Received
<1>9. Urging' = Urging BY <1>1, UrgingKept DEF UrgentPc
<1>10. Open' = Open BY <1>1 DEF Open
<1>11. Queued!Return(t) BY <1>1, <1>6, <1>8, <1>9, <1>10 DEF Queued!Return
<1> QED BY <1>4, <1>11 DEF Queued!Next

\* The copies are no step of the queue.
LEMMA CopyStutters ==
  ASSUME IInv, NEW t \in Thread, SendCopy(t) \/ RecvCopy(t)
  PROVE  UNCHANGED <<Items, Received, Urging, Open>>
<1>1. PICK c, f \in Seq(Msg) : Partition(c, f) BY Types DEF Pool
<1>2. /\ \A u \in Thread : CallOK(u)
      /\ Lists(q, c, f) /\ ToSet(c) \subseteq Msg
      /\ msg[t] # Null => msg[t] \in Msg /\ msg[t] \notin ToSet(c) \cup ToSet(f)
      /\ \A w, u \in Thread : w # u /\ msg[w] # Null => msg[u] # msg[w]
      /\ \A u \in Thread : msg[u] # Null => msg[u] \in Msg
  BY <1>1, PartitionFacts
<1>3. CASE SendCopy(t)
  <2>1. PICK to \in {"send_link", "urgent_link"} :
          /\ pc[t] \in {"send_copy", "urgent_copy"} /\ pc' = [pc EXCEPT ![t] = to]
          /\ \/ q' = CopyIn(q, msg[t], buffer[t])
             \/ q' = CopyUrgent(q, msg[t], buffer[t])
          /\ UNCHANGED <<irq, msg, buffer, alive>>
          /\ pc[t] = "urgent_copy" <=> to = "urgent_link"
    BY <1>3 DEF SendCopy, Goto, callVars
  <2>2. PICK m, v : m = msg[t] /\ v = buffer[t] OBVIOUS
  <2>3. OffLists(q, c, f, m) /\ v \in Value /\ m # Null
    BY <1>2, <2>1, <2>2, Types DEF CallOK, Sending, OffLists
  <2>4. Copied(q, q', c, f, m, v) BY <2>1, <2>2, <2>3, CopyLists
  <2>5. /\ q'.head = q.head
        /\ \A l \in Msg \ {m} : q'.data[l] = q.data[l] /\ q'.next[l] = q.next[l]
    BY <2>4 DEF Copied
  <2>6. Contents' = Contents
    <3>1. \A l \in ToSet(c) : q'.next[l] = q.next[l] /\ q'.data[l] = q.data[l]
      BY <1>2, <2>3, <2>5 DEF OffLists
    <3> QED BY <1>1, <2>5, <3>1, ContentsStay
  <2>7. Received' = Received
    <3>1. \A u \in Thread \ {t} : msg[u] # Null => q'.data[msg[u]] = q.data[msg[u]]
      BY <1>2, <2>2, <2>3, <2>5
    <3>2. pc[t] \notin Copying /\ to \notin Copying BY <2>1 DEF Copying
    <3> QED BY <2>1, <3>1, <3>2, OthersRead
  <2>8. Urging' = Urging BY <2>1, UrgingKept DEF UrgentPc
  <2> QED BY <2>1, <2>6, <2>7, <2>8 DEF Items, Open
<1>4. CASE RecvCopy(t)
  <2>1. /\ pc[t] = "recv_copy" /\ pc' = [pc EXCEPT ![t] = "recv_free"] /\ q' = q /\ irq' = irq
        /\ msg' = [msg EXCEPT ![t] = msg[t]] /\ buffer' = [buffer EXCEPT ![t] = q.data[msg[t]]]
        /\ alive' = alive
    BY <1>4 DEF RecvCopy, Goto, Holds
  <2>2. Contents' = Contents BY <1>1, <2>1, ContentsStay
  <2>3. \A u \in Receiver : Received'[u] = Received[u]
    <3>1. Receiver \subseteq Thread BY MessageQueueAssumption
    <3>2. \A u \in Thread : /\ pc'[u] = IF u = t THEN "recv_free" ELSE pc[u]
                            /\ msg'[u] = msg[u]
                            /\ buffer'[u] = IF u = t THEN q.data[msg[t]] ELSE buffer[u]
      BY <2>1, Types
    <3> QED BY <2>1, <3>1, <3>2 DEF Received
  <2>4. Received' = Received BY <2>3 DEF Received
  <2>5. Urging' = Urging BY <2>1, UrgingKept DEF UrgentPc
  <2> QED BY <2>1, <2>2, <2>4, <2>5 DEF Items, Open
<1> QED BY <1>3, <1>4

\* A queue with no head holds nothing.
LEMMA NothingShown ==
  ASSUME q'.head = Null
  PROVE  Contents' = <<>>
<1>1. <<>> \in Seq(Msg) /\ Len(<<>>) = 0 OBVIOUS
<1>2. Chained(q'.next, q'.head, <<>>) BY <1>1 DEF Chained
<1>3. Len(<<>>) <= MaxMsgs BY <1>1, MessageQueueAssumption
<1>4. Contents' = Shown(q'.data, <<>>) BY <1>2, <1>3, ContentsShownNext
<1>5. Shown(q'.data, <<>>) = <<>> BY <1>1 DEF Shown
<1> QED BY <1>4, <1>5

\* A step of t that leaves the messages alone: none of the queue, or one that
\* closes it, for a detach or for a thread that disables interrupts.
LEMMA QuietStep ==
  ASSUME IInv, NEW t \in Thread, NEW to, pc' = [pc EXCEPT ![t] = to],
         pc[t] \notin Copying \cup UrgentPc, to \notin Copying \cup UrgentPc,
         UNCHANGED <<q, msg, buffer>>,
         UNCHANGED <<irq, alive>> \/ (irq' = irq /\ ~alive') \/ irq' # NoThread
  PROVE  Queued!Next \/ UNCHANGED <<Items, Received, Urging, Open>>
<1>1. Received' = Received BY OthersRead
<1>2. Urging' = Urging BY UrgingKept
<1>3. ASSUME irq' = irq PROVE Items' = Items
  <2>1. PICK c, f \in Seq(Msg) : Partition(c, f) BY Types DEF Pool
  <2>2. Contents' = Contents BY <2>1, ContentsStay
  <2> QED BY <1>3, <2>2 DEF Items
<1>4. CASE UNCHANGED <<irq, alive>> BY <1>1, <1>2, <1>3, <1>4 DEF Open
<1>5. CASE (irq' = irq /\ ~alive') \/ irq' # NoThread
  <2>1. Open' = FALSE BY <1>5 DEF Open
  <2>2. Items' = Items \/ Items' = <<>> BY <1>3, <1>5 DEF Items
  <2>3. Queued!Reset BY <1>1, <1>2, <2>1, <2>2 DEF Queued!Reset, Items
  <2> QED BY <2>3 DEF Queued!Next
<1> QED BY <1>4, <1>5

\* The steps of a reset on the messages, and rt_mq_init.
LEMMA EmptyStep ==
  ASSUME IInv, NEW t \in Thread, ResetFree(t) \/ ResetEntry(t) \/ MqInit(t)
  PROVE  Queued!Next \/ UNCHANGED <<Items, Received, Urging, Open>>
<1>1. PICK to \in {"reset_free", "sched", "run"} :
        /\ pc[t] \in {"reset_free", "run"} /\ pc' = [pc EXCEPT ![t] = to]
        /\ UNCHANGED <<msg, buffer>>
  BY DEF ResetFree, ResetEntry, MqInit, Goto, callVars
<1>2. q'.data = q.data
  <2>1. CASE ResetFree(t) BY <2>1, Types DEF ResetFree, Free, Unlink, MqState
  <2>2. CASE ResetEntry(t) BY <2>2, Types DEF ResetEntry, MqState
  <2>3. CASE MqInit(t) BY <2>3 DEF MqInit, Fresh
  <2> QED BY <2>1, <2>2, <2>3
<1>3. /\ Received' = Received /\ Urging' = Urging
  <2>1. Received' = Received BY <1>1, <1>2, OthersRead DEF Copying
  <2>2. Urging' = Urging BY <1>1, UrgingKept DEF UrgentPc
  <2> QED BY <2>1, <2>2
<1>4. CASE ResetFree(t)
  <2>1. pc[t] = "reset_free" /\ irq' = irq BY <1>4 DEF ResetFree, Goto
  <2>2. irq # NoThread BY <2>1, Types DEF IrqOK, Masked
  <2> QED BY <1>3, <2>1, <2>2 DEF Items, Open
<1>5. CASE ResetEntry(t)
  <2>1. pc[t] = "reset_free" /\ irq' = NoThread /\ q'.head = Null
    BY <1>5, Types DEF ResetEntry, Goto, MqState
  <2>2. irq # NoThread BY <2>1, Types DEF IrqOK, Masked
  <2>3. Contents' = <<>> BY <2>1, NothingShown
  <2>4. ~Open /\ Open' \in BOOLEAN /\ Items' = <<>>
    <3>1. alive' \in BOOLEAN BY <1>5 DEF ResetEntry, IInv, TypeOK
    <3> QED BY <2>1, <2>2, <2>3, <3>1 DEF Items, Open
  <2>5. Queued!Reset BY <1>3, <2>4 DEF Queued!Reset, Items
  <2> QED BY <2>5 DEF Queued!Next
<1>6. CASE MqInit(t)
  <2>1. q'.head = Null BY <1>6 DEF MqInit, Fresh
  <2>2. Contents' = <<>> BY <2>1, NothingShown
  <2>3. ~Open /\ Open' \in BOOLEAN /\ Items' = <<>>
    <3>1. ~alive /\ alive' = TRUE BY <1>6 DEF MqInit
    <3> QED BY <2>2, <3>1 DEF Items, Open
  <2>4. Queued!Reset BY <1>3, <2>3 DEF Queued!Reset, Items
  <2> QED BY <2>4 DEF Queued!Next
<1> QED BY <1>4, <1>5, <1>6

\* Taking a free message announces it when it is for rt_mq_urgent.
LEMMA AllocStep ==
  ASSUME IInv, NEW t \in Thread, NEW v, NEW copy \in {"send_copy", "urgent_copy"},
         SendAlloc(t, v, copy)
  PROVE  Queued!Next \/ UNCHANGED <<Items, Received, Urging, Open>>
<1>1. /\ pc[t] = "run" /\ pc' = [pc EXCEPT ![t] = copy] /\ q' = Alloc(q) /\ irq' = irq
      /\ alive' = alive
      /\ msg' = [msg EXCEPT ![t] = q.free] /\ buffer' = [buffer EXCEPT ![t] = v]
  BY DEF SendAlloc, Goto, Holds
<1>2. q'.head = q.head /\ q'.next = q.next /\ q'.data = q.data
  BY <1>1, Types DEF Alloc, MqState
<1>3. PICK c, f \in Seq(Msg) : Partition(c, f) BY Types DEF Pool
<1>4. Contents' = Contents BY <1>2, <1>3, ContentsStay
<1>5. \A u \in Thread \ {t} : msg'[u] = msg[u] /\ buffer'[u] = buffer[u] BY <1>1, Types
<1>6. Received' = Received BY <1>1, <1>2, <1>5, OthersRead DEF Copying
<1>7. Items' = Items /\ Open' = Open BY <1>1, <1>4 DEF Items, Open
<1>8. CASE copy = "send_copy"
  <2>1. Urging' = Urging BY <1>1, <1>8, UrgingKept DEF UrgentPc
  <2> QED BY <1>6, <1>7, <2>1
<1>9. CASE copy = "urgent_copy"
  <2>1. \A u \in Thread : pc'[u] = IF u = t THEN copy ELSE pc[u] BY <1>1, Types
  <2>2. t \notin Urging /\ Urging' = Urging \cup {t} BY <1>1, <1>9, <2>1 DEF Urging
  <2>3. Queued!Announce(t) BY <1>6, <1>7, <2>2 DEF Queued!Announce, Items
  <2> QED BY <2>3 DEF Queued!Next
<1> QED BY <1>8, <1>9

\* Every step implements a step of the queue, or none.
LEMMA QueueStep ==
  ASSUME IInv, [Next]_vars
  PROVE  Queued!Next \/ UNCHANGED <<Items, Received, Urging, Open>>
<1>1. ASSUME irq' = irq, pc' = pc, UNCHANGED mqVars
      PROVE  UNCHANGED <<Items, Received, Urging, Open>>
  <2>1. q' = q /\ msg' = msg /\ buffer' = buffer /\ alive' = alive BY <1>1 DEF mqVars
  <2>2. PICK c, f \in Seq(Msg) : Partition(c, f) BY Types DEF Pool
  <2>3. Contents' = Contents BY <2>1, <2>2, ContentsStay
  <2>4. Received' = Received BY <1>1, <2>1 DEF Received
  <2> QED BY <1>1, <2>1, <2>3, <2>4 DEF Items, Urging, Open
<1>2. CASE UNCHANGED vars BY <1>1, <1>2 DEF vars, mqVars
<1>3. CASE Boot BY <1>1, <1>3 DEF Boot, StartStep, BootStep
<1>4. CASE Tick BY <1>1, <1>4 DEF Tick, YieldStep, TimeoutStep
<1>5. ASSUME NEW t \in Thread, ThreadStep(t)
      PROVE  Queued!Next \/ UNCHANGED <<Items, Received, Urging, Open>>
  <2>1. CASE Compute(t) \/ (DetachLost(t) /\ LostStep(t))
    BY <1>1, <2>1 DEF Compute, OwnCode, DetachLost, LostStep
  <2>2. ASSUME NEW to \in Pc \ (Copying \cup UrgentPc), pc' = [pc EXCEPT ![t] = to],
               pc[t] \notin Copying \cup UrgentPc, UNCHANGED <<q, msg, buffer>>,
               UNCHANGED <<irq, alive>> \/ (irq' = irq /\ ~alive') \/ irq' # NoThread
        PROVE  Queued!Next \/ UNCHANGED <<Items, Received, Urging, Open>>
    BY <2>2, QuietStep
  <2>3. CASE RecvSchedule(t) \/ CallSchedule(t)
    <3>1. PICK from \in {"recv_sched", "sched"}, to \in {"recv_return", "run"} :
            ScheduleStep(t, from, to) /\ UNCHANGED mqVars
      BY <2>3 DEF RecvSchedule, CallSchedule
    <3>2. /\ to \in Pc \ (Copying \cup UrgentPc) /\ pc' = [pc EXCEPT ![t] = to]
          /\ pc[t] \notin Copying \cup UrgentPc
          /\ UNCHANGED <<q, msg, buffer>> /\ UNCHANGED <<irq, alive>>
      BY <3>1 DEF ScheduleStep, Goto, mqVars, Pc, Copying, UrgentPc
    <3> QED BY <2>2, <3>2
  <2>4. CASE SendFull(t) BY <1>1, <2>4, SendFullKeeps DEF vars, mqVars
  <2>5. CASE RecvError(t) \/ RecvEmpty(t) \/ \E time \in Time : RecvSuspend(t, time)
    <3>1. PICK to \in {"run", "recv_sched"} :
            /\ pc' = [pc EXCEPT ![t] = to] /\ pc[t] \in {"run", "recv_return"}
            /\ UNCHANGED <<q, msg, buffer>> /\ UNCHANGED <<irq, alive>>
      BY <2>5 DEF RecvError, RecvEmpty, RecvSuspend, AtRecv, Goto
    <3>2. to \in Pc \ (Copying \cup UrgentPc) /\ pc[t] \notin Copying \cup UrgentPc
      BY <3>1 DEF Pc, Copying, UrgentPc
    <3> QED BY <2>2, <3>1, <3>2
  <2>6. CASE Reset(t) \/ Detach(t) \/ ResetWake(t) \/ DetachLoop(t)
             \/ (DetachLost(t) /\ ~LostStep(t))
    <3>1. PICK to \in {"reset_wake", "reset_free", "detach_test", "detach_body", "run", "lost"} :
            /\ pc' = [pc EXCEPT ![t] = to]
            /\ pc[t] \in {"run", "reset_wake", "detach_test", "detach_body"}
            /\ UNCHANGED <<irq, alive>> \/ (irq' = irq /\ ~alive') \/ irq' = t
      <4>1. CASE Reset(t) \/ Detach(t) BY <4>1 DEF Reset, Detach, Goto
      <4>2. CASE ResetWake(t) BY <4>2 DEF ResetWake, ResumeAllWake, ResumeAllTest, Goto, mqVars
      <4>3. CASE DetachLoop(t) BY <4>3 DEF DetachLoop, ResumeAllWake, ResumeAllTest, Goto, mqVars
      <4>4. CASE DetachLost(t) /\ ~LostStep(t) BY <4>4 DEF DetachLost, ResumeAllLost, Goto
      <4> QED BY <2>6, <4>1, <4>2, <4>3, <4>4
    <3>2. UNCHANGED <<q, msg, buffer>>
      BY <2>6 DEF Reset, Detach, ResetWake, DetachLoop, DetachLost, mqVars, callVars
    <3>3. to \in Pc \ (Copying \cup UrgentPc) /\ pc[t] \notin Copying \cup UrgentPc
      BY <3>1 DEF Pc, Copying, UrgentPc
    <3>4. t # NoThread BY KernelAssumption
    <3> QED BY <2>2, <3>1, <3>2, <3>3, <3>4
  <2>7. CASE \E v \in Value, copy \in {"send_copy", "urgent_copy"} : SendAlloc(t, v, copy)
    BY <2>7, AllocStep
  <2>8. CASE SendCopy(t) \/ RecvCopy(t) BY <2>8, CopyStutters
  <2>9. CASE SendLink(t) BY <2>9, LinkStep
  <2>10. CASE \E time \in Time : RecvUnlink(t, time) BY <2>10, TakeStep
  <2>11. CASE RecvFree(t) BY <2>11, ReturnStep
  <2>12. CASE ResetFree(t) \/ ResetEntry(t) \/ MqInit(t) BY <2>12, EmptyStep
  <2> QED
    BY <1>5, <2>1, <2>3, <2>4, <2>5, <2>6, <2>7, <2>8, <2>9, <2>10, <2>11, <2>12
    DEF ThreadStep
<1>6. CASE \E v \in Value : IsrSend(v) BY <1>6, IsrStep
<1> QED BY <1>2, <1>3, <1>4, <1>5, <1>6 DEF Next

\* A message queue is a bounded queue with urgent messages: each content that
\* rt_mq_send or rt_mq_urgent has linked is received once, in order and
\* unaltered, although it is copied in and out with interrupts enabled; only
\* what rt_mq_urgent sends goes before others, and none is lost except in a
\* reset or an initialisation.
THEOREM MessageQueueRefinesQueue == Spec => RefinesQueue
<1>1. Init => Queued!Init
  <2>1. SUFFICES ASSUME Init PROVE Queued!Init OBVIOUS
  <2>2. IInv /\ pc = [t \in Thread |-> "run"] /\ q.head = Null
    BY <2>1, InitEstablishes DEF Init, SystemInit, Fresh
  <2>3. Contents = <<>>
    <3>1. <<>> \in Seq(Msg) /\ Len(<<>>) = 0 OBVIOUS
    <3>2. Chained(q.next, q.head, <<>>) BY <2>2, <3>1 DEF Chained
    <3>3. Len(<<>>) <= MaxMsgs BY <3>1, MessageQueueAssumption
    <3>4. Contents = Shown(q.data, <<>>) BY <3>2, <3>3, ContentsShown DEF ContentsAgree
    <3>5. Shown(q.data, <<>>) = <<>> BY <3>1 DEF Shown
    <3> QED BY <3>4, <3>5
  <2>4. Received = [t \in Receiver |-> NoValue] BY <2>2, MessageQueueAssumption DEF Received
  <2>5. Urging = {} /\ Open = TRUE
    BY <2>1, <2>2 DEF Init, SystemInit, Urging, Open
  <2>6. irq = NoThread BY <2>1 DEF Init, SystemInit
  <2> QED BY <2>3, <2>4, <2>5, <2>6 DEF Queued!Init
<1>2. IInv /\ [Next]_vars => [Queued!Next]_(Queued!vars)
  BY QueueStep DEF Queued!vars, Items
<1> QED BY <1>1, <1>2, Invariance, PTL DEF Spec, RefinesQueue, Queued!Spec
=============================================================================
