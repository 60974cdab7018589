----------------------- MODULE SubscriberWriterProofs -----------------------
(***************************************************************************)
(* Proofs about the subscriber writer, for all limits, windows and sizes   *)
(* of outputs: its counters are exact, its two bounds hold, and no byte is *)
(* lost or reordered in silence.                                           *)
(***************************************************************************)
EXTENDS SubscriberWriter, FoldLemmas

\* What the queue holds: statuses, and outputs that are not empty.
Outputs == [kind : {"output"}, bytes : Seq(Nat) \ {<<>>}]
Message == {Status} \union Outputs

\* A message is a status or an output, and only an output has bytes.
LEMMA MessageShape ==
  /\ \A m \in Message : /\ m.bytes \in Seq(Nat)
                        /\ IsOutput(m) => m.bytes # <<>> /\ m = Output(m.bytes)
                        /\ ~IsOutput(m) => m = Status /\ m.bytes = <<>>
                        /\ Size(m) \in Nat \ {0}
  /\ Status \in Message /\ ~IsOutput(Status)
  /\ \A bytes \in Seq(Nat) \ {<<>>} :
       Output(bytes) \in Message /\ IsOutput(Output(bytes)) /\ Output(bytes).bytes = bytes
<1>1. ASSUME NEW bytes \in Seq(Nat) \ {<<>>}
      PROVE  /\ Output(bytes) \in Message /\ IsOutput(Output(bytes))
             /\ Output(bytes).bytes = bytes /\ Size(Output(bytes)) \in Nat \ {0}
  <2>1. Len(bytes) \in Nat \ {0}
    OBVIOUS
  <2> QED BY <2>1 DEF Message, Outputs, Output, IsOutput, Size
<1>2. Status \in Message /\ ~IsOutput(Status) /\ Status.bytes = <<>> /\ Size(Status) = 1
  BY DEF Message, Status, IsOutput, Size
<1>3. \A m \in Message : m = Status \/ \E bytes \in Seq(Nat) \ {<<>>} : m = Output(bytes)
  <2>1. ASSUME NEW m \in Outputs PROVE m = Output(m.bytes) /\ m.bytes \in Seq(Nat) \ {<<>>}
    BY DEF Outputs, Output
  <2> QED BY <2>1 DEF Message
<1>4. <<>> \in Seq(Nat)
  OBVIOUS
<1>5. ASSUME NEW m \in Message
      PROVE  /\ m.bytes \in Seq(Nat) /\ Size(m) \in Nat \ {0}
             /\ IsOutput(m) => m.bytes # <<>> /\ m = Output(m.bytes)
             /\ ~IsOutput(m) => m = Status /\ m.bytes = <<>>
  <2>1. CASE m = Status
    BY <2>1, <1>2, <1>4
  <2>2. ASSUME NEW bytes \in Seq(Nat) \ {<<>>}, m = Output(bytes)
        PROVE  /\ m.bytes \in Seq(Nat) /\ m.bytes # <<>> /\ Size(m) \in Nat \ {0}
               /\ IsOutput(m) /\ m = Output(m.bytes)
    BY <2>2, <1>1
  <2> QED BY <2>1, <2>2, <1>3
<1> QED BY <1>1, <1>2, <1>5

-----------------------------------------------------------------------------
(* Total *)

\* The table behind Total.
LEMMA TotalTable ==
  ASSUME NEW s \in Seq(Nat)
  PROVE  \E g : /\ Total(s) = g[1..Len(s)]
                /\ g[1..0] = 0
                /\ \A k \in 1..Len(s) : g[1..k] = g[1..(k - 1)] + s[k]
<1> DEFINE IsSum(f) == f = [T \in SUBSET DOMAIN s |->
                              IF T = {} THEN 0 ELSE f[T \ {Max(T)}] + s[Max(T)]]
           plus == [p \in Nat \X Nat |-> p[1] + p[2]]
           sum == CHOOSE f : IsSum(f)
<1>1. Total(s) = sum[DOMAIN s]
  BY DEF Total, FoldLeft, MapThenFoldSet
<1>2. plus \in [Nat \X Nat -> Nat] /\ DOMAIN s = 1..Len(s) /\ Len(s) \in Nat
  OBVIOUS
<1>3. PICK g \in [SUBSET (1..Len(s)) -> Nat] : IsTable(g, 0, plus, s, Len(s))
  <2> HIDE DEF plus
  <2> QED BY <1>2, TableExists
<1>4. ASSUME NEW T \in SUBSET (1..Len(s)), T # {}
      PROVE  g[T] = g[T \ {Max(T)}] + s[Max(T)]
  <2>1. <<g[T \ {Max(T)}], s[Max(T)]>> \in Nat \X Nat
    BY <1>2, <1>3, <1>4, MaxPosition, ElementOfSeq
  <2>2. g[T] = plus[<<g[T \ {Max(T)}], s[Max(T)]>>]
    BY <1>3, <1>4 DEF IsTable
  <2> QED BY <2>1, <2>2
<1>5. IsSum(g)
  BY <1>2, <1>3, <1>4 DEF IsTable
<1>6. IsSum(sum)
  <2> HIDE DEF IsSum
  <2> QED BY <1>5
<1>7. ASSUME NEW k \in 1..Len(s) PROVE sum[1..k] = sum[1..(k - 1)] + s[k]
  <2> HIDE DEF sum
  <2>1. sum[1..k] = sum[(1..k) \ {Max(1..k)}] + s[Max(1..k)]
    BY <1>2, <1>6, PrefixStep
  <2> QED BY <1>2, <2>1, PrefixStep
<1>8. sum[1..0] = 0
  <2> HIDE DEF sum
  <2>1. 1..0 = {} /\ 1..0 \in SUBSET DOMAIN s
    OBVIOUS
  <2> QED BY <1>6, <2>1
<1> HIDE DEF sum
<1> QED BY <1>1, <1>2, <1>7, <1>8

\* The empty sequence has the sum 0, and a number appended is added.
LEMMA TotalAppend ==
  /\ Total(<<>>) = 0
  /\ \A s \in Seq(Nat), x \in Nat : Total(Append(s, x)) = Total(s) + x
<1>1. Total(<<>>) = 0
  BY TotalTable, <<>> \in Seq(Nat), Len(<<>>) = 0
<1>2. ASSUME NEW s \in Seq(Nat), NEW x \in Nat PROVE Total(Append(s, x)) = Total(s) + x
  <2> DEFINE t == Append(s, x)
  <2>1. t \in Seq(Nat) /\ Len(t) = Len(s) + 1 /\ Len(s) \in Nat /\ t[Len(s) + 1] = x
        /\ \A k \in 1..Len(s) : t[k] = s[k]
    OBVIOUS
  <2> HIDE DEF t
  <2>2. PICK g : /\ Total(s) = g[1..Len(s)] /\ g[1..0] = 0
                 /\ \A k \in 1..Len(s) : g[1..k] = g[1..(k - 1)] + s[k]
    BY TotalTable
  <2>3. PICK h : /\ Total(t) = h[1..Len(t)] /\ h[1..0] = 0
                 /\ \A k \in 1..Len(t) : h[1..k] = h[1..(k - 1)] + t[k]
    <3>1. t \in Seq(Nat)
      BY <2>1
    <3> QED BY <3>1, TotalTable
  <2>4. ASSUME NEW k \in 1..Len(s), g[1..(k - 1)] = h[1..(k - 1)] PROVE g[1..k] = h[1..k]
    <3>1. g[1..k] = g[1..(k - 1)] + s[k]
      BY <2>2
    <3>2. h[1..k] = h[1..(k - 1)] + t[k]
      BY <2>1, <2>3
    <3> QED BY <2>1, <2>4, <3>1, <3>2
  <2>5. g[1..Len(s)] = h[1..Len(s)]
    <3>1. g[1..0] = h[1..0]
      BY <2>2, <2>3
    <3>2. Len(s) \in Nat
      BY <2>1
    <3> QED BY <2>4, <3>1, <3>2, PrefixesAgree, ZenonT(60)
  <2>6. h[1..Len(t)] = h[1..Len(s)] + x
    BY <2>1, <2>3, Len(t) \in 1..Len(t), Len(t) - 1 = Len(s)
  <2> QED BY <2>2, <2>3, <2>5, <2>6 DEF t
<1> QED BY <1>1, <1>2

-----------------------------------------------------------------------------
(* Bytes *)

\* The table behind Bytes.
LEMMA BytesTable ==
  ASSUME NEW s \in Seq(Message)
  PROVE  \E g : /\ Bytes(s) = g[1..Len(s)]
                /\ g[1..0] = <<>>
                /\ \A k \in 1..Len(s) : g[1..k] = g[1..(k - 1)] \o s[k].bytes
<1> DEFINE IsJoin(f) == f = [T \in SUBSET DOMAIN s |->
                              IF T = {} THEN <<>> ELSE f[T \ {Max(T)}] \o s[Max(T)].bytes]
           cat == [p \in Seq(Nat) \X Message |-> p[1] \o p[2].bytes]
           join == CHOOSE f : IsJoin(f)
<1>1. Bytes(s) = join[DOMAIN s]
  BY DEF Bytes, FoldLeft, MapThenFoldSet
<1>2. cat \in [Seq(Nat) \X Message -> Seq(Nat)] /\ DOMAIN s = 1..Len(s) /\ Len(s) \in Nat
  <2>1. ASSUME NEW a \in Seq(Nat), NEW m \in Message PROVE a \o m.bytes \in Seq(Nat)
    BY MessageShape
  <2> QED BY <2>1
<1>3. PICK g \in [SUBSET (1..Len(s)) -> Seq(Nat)] : IsTable(g, <<>>, cat, s, Len(s))
  <2> HIDE DEF cat
  <2> QED BY <1>2, TableExists, <<>> \in Seq(Nat)
<1>4. ASSUME NEW T \in SUBSET (1..Len(s)), T # {}
      PROVE  g[T] = g[T \ {Max(T)}] \o s[Max(T)].bytes
  <2>1. g[T] = cat[<<g[T \ {Max(T)}], s[Max(T)]>>]
    <3> HIDE DEF cat
    <3> QED BY <1>3, <1>4 DEF IsTable
  <2>2. ASSUME NEW a \in Seq(Nat), NEW m \in Message PROVE cat[<<a, m>>] = a \o m.bytes
    OBVIOUS
  <2> HIDE DEF cat
  <2>3. g[T \ {Max(T)}] \in Seq(Nat) /\ s[Max(T)] \in Message
    BY <1>2, <1>3, <1>4, MaxPosition, ElementOfSeq
  <2> QED BY <2>1, <2>2, <2>3
<1>5. IsJoin(g)
  BY <1>2, <1>3, <1>4 DEF IsTable
<1>6. IsJoin(join)
  <2> HIDE DEF IsJoin
  <2> QED BY <1>5
<1>7. ASSUME NEW k \in 1..Len(s) PROVE join[1..k] = join[1..(k - 1)] \o s[k].bytes
  <2> HIDE DEF join
  <2>1. join[1..k] = join[(1..k) \ {Max(1..k)}] \o s[Max(1..k)].bytes
    BY <1>2, <1>6, PrefixStep
  <2> QED BY <1>2, <2>1, PrefixStep
<1>8. join[1..0] = <<>>
  <2> HIDE DEF join
  <2>1. 1..0 = {} /\ 1..0 \in SUBSET DOMAIN s
    OBVIOUS
  <2> QED BY <1>6, <2>1
<1> HIDE DEF join
<1> QED BY <1>1, <1>2, <1>7, <1>8

\* The empty sequence joins to no bytes, and a message appended adds its own.
LEMMA BytesAppend ==
  /\ Bytes(<<>>) = <<>>
  /\ \A s \in Seq(Message), x \in Message : Bytes(Append(s, x)) = Bytes(s) \o x.bytes
<1>1. Bytes(<<>>) = <<>>
  BY BytesTable, <<>> \in Seq(Message), Len(<<>>) = 0
<1>2. ASSUME NEW s \in Seq(Message), NEW x \in Message
      PROVE  Bytes(Append(s, x)) = Bytes(s) \o x.bytes
  <2> DEFINE t == Append(s, x)
  <2>1. t \in Seq(Message) /\ Len(t) = Len(s) + 1 /\ Len(s) \in Nat /\ t[Len(s) + 1] = x
        /\ \A k \in 1..Len(s) : t[k] = s[k]
    OBVIOUS
  <2> HIDE DEF t
  <2>2. PICK g : /\ Bytes(s) = g[1..Len(s)] /\ g[1..0] = <<>>
                 /\ \A k \in 1..Len(s) : g[1..k] = g[1..(k - 1)] \o s[k].bytes
    BY BytesTable
  <2>3. PICK h : /\ Bytes(t) = h[1..Len(t)] /\ h[1..0] = <<>>
                 /\ \A k \in 1..Len(t) : h[1..k] = h[1..(k - 1)] \o t[k].bytes
    BY <2>1, BytesTable
  <2>4. ASSUME NEW k \in 1..Len(s), g[1..(k - 1)] = h[1..(k - 1)] PROVE g[1..k] = h[1..k]
    <3>1. g[1..k] = g[1..(k - 1)] \o s[k].bytes
      BY <2>2
    <3>2. k \in 1..Len(t) /\ t[k] = s[k]
      BY <2>1
    <3>3. h[1..k] = h[1..(k - 1)] \o t[k].bytes
      BY <2>3, <3>2
    <3> QED BY <2>4, <3>1, <3>2, <3>3
  <2>5. g[1..Len(s)] = h[1..Len(s)]
    <3>1. g[1..0] = h[1..0]
      BY <2>2, <2>3
    <3>2. Len(s) \in Nat
      BY <2>1
    <3> QED BY <2>4, <3>1, <3>2, PrefixesAgree
  <2>6. h[1..Len(t)] = h[1..Len(s)] \o x.bytes
    BY <2>1, <2>3, Len(t) \in 1..Len(t), Len(t) - 1 = Len(s)
  <2> QED BY <2>2, <2>3, <2>5, <2>6 DEF t
<1> QED BY <1>1, <1>2

-----------------------------------------------------------------------------
(* Kept *)

\* One step of a shed.
Keep(kept, m) == IF IsOutput(m) THEN kept ELSE Append(kept, m)

\* The table behind Kept.
LEMMA KeptTable ==
  ASSUME NEW s \in Seq(Message)
  PROVE  \E g : /\ Kept(s) = g[1..Len(s)]
                /\ g[1..0] = <<>>
                /\ \A k \in 1..Len(s) : g[1..k] = Keep(g[1..(k - 1)], s[k])
<1> DEFINE IsShed(f) == f = [T \in SUBSET DOMAIN s |->
                              IF T = {} THEN <<>> ELSE Keep(f[T \ {Max(T)}], s[Max(T)])]
           step == [p \in Seq(Message) \X Message |-> Keep(p[1], p[2])]
           shed == CHOOSE f : IsShed(f)
<1>1. Kept(s) = shed[DOMAIN s]
  BY DEF Kept, Keep, FoldLeft, MapThenFoldSet
<1>2. /\ step \in [Seq(Message) \X Message -> Seq(Message)]
      /\ DOMAIN s = 1..Len(s) /\ Len(s) \in Nat
  <2>1. ASSUME NEW a \in Seq(Message), NEW m \in Message PROVE Keep(a, m) \in Seq(Message)
    BY DEF Keep
  <2> QED BY <2>1
<1>3. PICK g \in [SUBSET (1..Len(s)) -> Seq(Message)] : IsTable(g, <<>>, step, s, Len(s))
  <2> HIDE DEF step
  <2> QED BY <1>2, TableExists, <<>> \in Seq(Message)
<1>4. ASSUME NEW T \in SUBSET (1..Len(s)), T # {}
      PROVE  g[T] = Keep(g[T \ {Max(T)}], s[Max(T)])
  <2>1. g[T] = step[<<g[T \ {Max(T)}], s[Max(T)]>>]
    <3> HIDE DEF step
    <3> QED BY <1>3, <1>4 DEF IsTable
  <2>2. ASSUME NEW a \in Seq(Message), NEW m \in Message PROVE step[<<a, m>>] = Keep(a, m)
    OBVIOUS
  <2> HIDE DEF step
  <2>3. g[T \ {Max(T)}] \in Seq(Message) /\ s[Max(T)] \in Message
    BY <1>2, <1>3, <1>4, MaxPosition, ElementOfSeq
  <2> QED BY <2>1, <2>2, <2>3
<1>5. IsShed(g)
  BY <1>2, <1>3, <1>4 DEF IsTable
<1>6. IsShed(shed)
  <2> HIDE DEF IsShed
  <2> QED BY <1>5
<1>7. ASSUME NEW k \in 1..Len(s) PROVE shed[1..k] = Keep(shed[1..(k - 1)], s[k])
  <2> HIDE DEF shed
  <2>1. shed[1..k] = Keep(shed[(1..k) \ {Max(1..k)}], s[Max(1..k)])
    BY <1>2, <1>6, PrefixStep
  <2> QED BY <1>2, <2>1, PrefixStep
<1>8. shed[1..0] = <<>>
  <2> HIDE DEF shed
  <2>1. 1..0 = {} /\ 1..0 \in SUBSET DOMAIN s
    OBVIOUS
  <2> QED BY <1>6, <2>1
<1> HIDE DEF shed
<1> QED BY <1>1, <1>2, <1>7, <1>8

\* The empty sequence keeps nothing, and a message appended is kept unless it is an output.
LEMMA KeptAppend ==
  /\ Kept(<<>>) = <<>>
  /\ \A s \in Seq(Message), x \in Message : Kept(Append(s, x)) = Keep(Kept(s), x)
<1>1. Kept(<<>>) = <<>>
  BY KeptTable, <<>> \in Seq(Message), Len(<<>>) = 0
<1>2. ASSUME NEW s \in Seq(Message), NEW x \in Message
      PROVE  Kept(Append(s, x)) = Keep(Kept(s), x)
  <2> DEFINE t == Append(s, x)
  <2>1. t \in Seq(Message) /\ Len(t) = Len(s) + 1 /\ Len(s) \in Nat /\ t[Len(s) + 1] = x
        /\ \A k \in 1..Len(s) : t[k] = s[k]
    OBVIOUS
  <2> HIDE DEF t
  <2>2. PICK g : /\ Kept(s) = g[1..Len(s)] /\ g[1..0] = <<>>
                 /\ \A k \in 1..Len(s) : g[1..k] = Keep(g[1..(k - 1)], s[k])
    BY KeptTable
  <2>3. PICK h : /\ Kept(t) = h[1..Len(t)] /\ h[1..0] = <<>>
                 /\ \A k \in 1..Len(t) : h[1..k] = Keep(h[1..(k - 1)], t[k])
    BY <2>1, KeptTable
  <2>4. ASSUME NEW k \in 1..Len(s), g[1..(k - 1)] = h[1..(k - 1)] PROVE g[1..k] = h[1..k]
    <3>1. g[1..k] = Keep(g[1..(k - 1)], s[k])
      BY <2>2
    <3>2. k \in 1..Len(t) /\ t[k] = s[k]
      BY <2>1
    <3>3. h[1..k] = Keep(h[1..(k - 1)], t[k])
      BY <2>3, <3>2
    <3> QED BY <2>4, <3>1, <3>2, <3>3
  <2>5. g[1..Len(s)] = h[1..Len(s)]
    <3>1. g[1..0] = h[1..0]
      BY <2>2, <2>3
    <3>2. Len(s) \in Nat
      BY <2>1
    <3> QED BY <2>4, <3>1, <3>2, PrefixesAgree
  <2>6. h[1..Len(t)] = Keep(h[1..Len(s)], x)
    BY <2>1, <2>3, Len(t) \in 1..Len(t), Len(t) - 1 = Len(s)
  <2> QED BY <2>2, <2>3, <2>5, <2>6 DEF t
<1> QED BY <1>1, <1>2

-----------------------------------------------------------------------------
(* Sums, bytes and sizes of concatenations *)

\* The sum of a concatenation is the sum of the sums.
LEMMA TotalConcat ==
  /\ \A s \in Seq(Nat) : Total(s) \in Nat
  /\ \A s, t \in Seq(Nat) : Total(s \o t) = Total(s) + Total(t)
  /\ \A x \in Nat : Total(<<x>>) = x
<1>1. \A s \in Seq(Nat) : Total(s) \in Nat
  <2> DEFINE X == {s \in Seq(Nat) : Total(s) \in Nat}
  <2>1. <<>> \in X
    BY TotalAppend
  <2>2. ASSUME NEW s \in X, NEW x \in Nat PROVE Append(s, x) \in X
    BY TotalAppend
  <2>3. X = Seq(Nat)
    BY <2>1, <2>2, SeqInduction
  <2> QED BY <2>3
<1>2. ASSUME NEW s \in Seq(Nat)
      PROVE  \A t \in Seq(Nat) : Total(s \o t) = Total(s) + Total(t)
  <2> DEFINE X == {t \in Seq(Nat) : Total(s \o t) = Total(s) + Total(t)}
  <2>1. <<>> \in X
    BY <1>1, TotalAppend, s \o <<>> = s
  <2>2. ASSUME NEW t \in X, NEW x \in Nat PROVE Append(t, x) \in X
    <3>1. s \o Append(t, x) = Append(s \o t, x) /\ s \o t \in Seq(Nat)
      OBVIOUS
    <3>2. Total(Append(s \o t, x)) = Total(s \o t) + x /\ Total(Append(t, x)) = Total(t) + x
      BY <3>1, TotalAppend
    <3>3. Total(s \o t) = Total(s) + Total(t) /\ t \in Seq(Nat) /\ Append(t, x) \in Seq(Nat)
      OBVIOUS
    <3>4. Total(s) \in Nat /\ Total(t) \in Nat
      BY <1>1
    <3>5. Total(s \o Append(t, x)) = Total(s) + Total(Append(t, x))
      BY <3>1, <3>2, <3>3, <3>4
    <3> QED BY <3>3, <3>5
  <2>3. X = Seq(Nat)
    BY <2>1, <2>2, SeqInduction
  <2> QED BY <2>3
<1>3. ASSUME NEW x \in Nat PROVE Total(<<x>>) = x
  <2>1. <<x>> = Append(<<>>, x) /\ <<>> \in Seq(Nat)
    OBVIOUS
  <2>2. Total(Append(<<>>, x)) = Total(<<>>) + x
    BY <2>1, TotalAppend
  <2> QED BY <2>1, <2>2, TotalAppend
<1> QED BY <1>1, <1>2, <1>3

\* Cut, for the bytes of a payload.
LEMMA CutBytes ==
  \A s \in Seq(Nat) : \A k \in 0..Len(s) :
    /\ s = SubSeq(s, 1, k) \o SubSeq(s, k + 1, Len(s))
    /\ SubSeq(s, 1, k) \in Seq(Nat) /\ Len(SubSeq(s, 1, k)) = k
    /\ SubSeq(s, k + 1, Len(s)) \in Seq(Nat)
    /\ Len(SubSeq(s, k + 1, Len(s))) = Len(s) - k
BY Cut

\* Cut, for the sizes of frames.
LEMMA CutFrames ==
  \A s \in Seq(Nat \ {0}) : \A k \in 0..Len(s) :
    /\ s = SubSeq(s, 1, k) \o SubSeq(s, k + 1, Len(s))
    /\ SubSeq(s, 1, k) \in Seq(Nat \ {0}) /\ Len(SubSeq(s, 1, k)) = k
    /\ SubSeq(s, k + 1, Len(s)) \in Seq(Nat \ {0})
    /\ Len(SubSeq(s, k + 1, Len(s))) = Len(s) - k
BY Cut

\* Cut, for the messages of a queue.
LEMMA CutMessages ==
  \A s \in Seq(Message) : \A k \in 0..Len(s) :
    /\ s = SubSeq(s, 1, k) \o SubSeq(s, k + 1, Len(s))
    /\ SubSeq(s, 1, k) \in Seq(Message) /\ Len(SubSeq(s, 1, k)) = k
    /\ SubSeq(s, k + 1, Len(s)) \in Seq(Message)
    /\ Len(SubSeq(s, k + 1, Len(s))) = Len(s) - k
BY Cut

\* Concatenation is associative.
LEMMA Associative == \A a, b, c \in Seq(Nat) : (a \o b) \o c = a \o (b \o c)
OBVIOUS

\* The bytes of a concatenation are the bytes of its parts, in order.
LEMMA BytesConcat ==
  /\ \A q \in Seq(Message) : Bytes(q) \in Seq(Nat)
  /\ \A q, r \in Seq(Message) : Bytes(q \o r) = Bytes(q) \o Bytes(r)
  /\ \A m \in Message : Bytes(<<m>>) = m.bytes
<1>1. \A q \in Seq(Message) : Bytes(q) \in Seq(Nat)
  <2> DEFINE X == {q \in Seq(Message) : Bytes(q) \in Seq(Nat)}
  <2>1. <<>> \in X
    <3>1. <<>> \in Seq(Message) /\ <<>> \in Seq(Nat)
      OBVIOUS
    <3> QED BY <3>1, BytesAppend
  <2>2. ASSUME NEW q \in X, NEW m \in Message PROVE Append(q, m) \in X
    <3>1. q \in Seq(Message) /\ Append(q, m) \in Seq(Message) /\ Bytes(q) \in Seq(Nat)
      OBVIOUS
    <3>2. m.bytes \in Seq(Nat)
      BY MessageShape
    <3>3. Bytes(Append(q, m)) = Bytes(q) \o m.bytes
      BY <3>1, BytesAppend
    <3>4. Bytes(Append(q, m)) \in Seq(Nat)
      BY <3>1, <3>2, <3>3
    <3> QED BY <3>1, <3>4
  <2>3. X = Seq(Message)
    BY <2>1, <2>2, SeqInduction
  <2> QED BY <2>3
<1>2. ASSUME NEW q \in Seq(Message)
      PROVE  \A r \in Seq(Message) : Bytes(q \o r) = Bytes(q) \o Bytes(r)
  <2> DEFINE X == {r \in Seq(Message) : Bytes(q \o r) = Bytes(q) \o Bytes(r)}
  <2>1. <<>> \in X
    <3>1. q \o <<>> = q /\ Bytes(q) \o <<>> = Bytes(q) /\ <<>> \in Seq(Message)
      BY <1>1
    <3>2. Bytes(q \o <<>>) = Bytes(q) \o Bytes(<<>>)
      BY <3>1, BytesAppend
    <3> QED BY <3>1, <3>2
  <2>2. ASSUME NEW r \in X, NEW m \in Message PROVE Append(r, m) \in X
    <3>1. q \o Append(r, m) = Append(q \o r, m) /\ q \o r \in Seq(Message)
      OBVIOUS
    <3>2. Bytes(Append(q \o r, m)) = Bytes(q \o r) \o m.bytes
      BY <3>1, BytesAppend
    <3>3. Bytes(Append(r, m)) = Bytes(r) \o m.bytes
      BY BytesAppend
    <3>4. r \in Seq(Message) /\ Append(r, m) \in Seq(Message)
          /\ Bytes(q \o r) = Bytes(q) \o Bytes(r)
      OBVIOUS
    <3>5. Bytes(q) \in Seq(Nat) /\ Bytes(r) \in Seq(Nat) /\ m.bytes \in Seq(Nat)
      BY <1>1, <3>4, MessageShape
    <3>6. (Bytes(q) \o Bytes(r)) \o m.bytes = Bytes(q) \o (Bytes(r) \o m.bytes)
      BY <3>5, Associative
    <3>7. Bytes(q \o Append(r, m)) = Bytes(q) \o Bytes(Append(r, m))
      BY <3>1, <3>2, <3>3, <3>4, <3>6
    <3> QED BY <3>4, <3>7
  <2>3. X = Seq(Message)
    BY <2>1, <2>2, SeqInduction
  <2> QED BY <2>3
<1>3. ASSUME NEW m \in Message PROVE Bytes(<<m>>) = m.bytes
  <2>1. <<m>> = Append(<<>>, m) /\ <<>> \in Seq(Message)
    OBVIOUS
  <2>2. <<>> \o m.bytes = m.bytes
    BY MessageShape
  <2> QED BY <2>1, <2>2, BytesAppend
<1> QED BY <1>1, <1>2, <1>3

\* The bytes that a queue is charged with.
Held(q) == Total(Sizes(q))

\* What a concatenation is charged with is what its parts are charged with.
LEMMA HeldConcat ==
  /\ \A q \in Seq(Message) : Held(q) \in Nat
  /\ \A q, r \in Seq(Message) : Held(q \o r) = Held(q) + Held(r)
  /\ \A m \in Message : Held(<<m>>) = Size(m)
  /\ Held(<<>>) = 0
<1>1. ASSUME NEW q \in Seq(Message) PROVE Sizes(q) \in Seq(Nat) /\ Len(Sizes(q)) = Len(q)
  <2>1. DOMAIN q = 1..Len(q) /\ \A i \in 1..Len(q) : Size(q[i]) \in Nat
    BY MessageShape
  <2> QED BY <2>1 DEF Sizes
<1>2. ASSUME NEW q \in Seq(Message), NEW r \in Seq(Message)
      PROVE  Sizes(q \o r) = Sizes(q) \o Sizes(r)
  <2>1. \A i \in 1..Len(q \o r) : Sizes(q \o r)[i] = (Sizes(q) \o Sizes(r))[i]
    BY DEF Sizes
  <2>2. /\ Sizes(q \o r) \in Seq(Nat) /\ Sizes(q) \o Sizes(r) \in Seq(Nat)
        /\ Len(Sizes(q \o r)) = Len(Sizes(q) \o Sizes(r))
        /\ Len(Sizes(q \o r)) = Len(q \o r)
    <3>1. q \o r \in Seq(Message) /\ Len(q \o r) = Len(q) + Len(r)
      OBVIOUS
    <3>2. Sizes(q) \in Seq(Nat) /\ Sizes(r) \in Seq(Nat) /\ Sizes(q \o r) \in Seq(Nat)
          /\ Len(Sizes(q)) = Len(q) /\ Len(Sizes(r)) = Len(r)
          /\ Len(Sizes(q \o r)) = Len(q \o r)
      BY <1>1, <3>1
    <3>3. /\ Sizes(q) \o Sizes(r) \in Seq(Nat)
          /\ Len(Sizes(q) \o Sizes(r)) = Len(Sizes(q)) + Len(Sizes(r))
      BY <3>2, ConcatProperties
    <3> QED BY <3>1, <3>2, <3>3
  <2> QED BY <2>1, <2>2, SeqEqual
<1>3. ASSUME NEW m \in Message PROVE Sizes(<<m>>) = <<Size(m)>>
  BY DEF Sizes
<1>4. Sizes(<<>>) = <<>>
  BY DEF Sizes
<1>5. ASSUME NEW q \in Seq(Message) PROVE Held(q) \in Nat
  BY <1>1, TotalConcat DEF Held
<1>6. ASSUME NEW q \in Seq(Message), NEW r \in Seq(Message)
      PROVE  Held(q \o r) = Held(q) + Held(r)
  BY <1>1, <1>2, TotalConcat DEF Held
<1>7. ASSUME NEW m \in Message PROVE Held(<<m>>) = Size(m)
  BY <1>3, TotalConcat, MessageShape DEF Held
<1>8. Held(<<>>) = 0
  BY <1>4, TotalAppend DEF Held
<1> QED BY <1>5, <1>6, <1>7, <1>8

\* A queue of outputs is charged with its bytes.
LEMMA HeldOutputs ==
  ASSUME NEW q \in Seq(Message), \A i \in 1..Len(q) : IsOutput(q[i])
  PROVE  Held(q) = Len(Bytes(q))
<1> DEFINE Uniform(r) == \A i \in 1..Len(r) : IsOutput(r[i])
           X == {r \in Seq(Message) : Uniform(r) => Held(r) = Len(Bytes(r))}
<1>1. <<>> \in X
  BY HeldConcat, BytesAppend
<1>2. ASSUME NEW r \in X, NEW m \in Message PROVE Append(r, m) \in X
  <2> SUFFICES ASSUME Uniform(Append(r, m))
               PROVE  Held(Append(r, m)) = Len(Bytes(Append(r, m)))
    <3>1. Append(r, m) \in Seq(Message)
      OBVIOUS
    <3> HIDE DEF Uniform
    <3> QED BY <3>1
  <2>0. r \in Seq(Message) /\ (Uniform(r) => Held(r) = Len(Bytes(r)))
    <3> HIDE DEF Uniform
    <3> QED OBVIOUS
  <2>1. IsOutput(m) /\ \A i \in 1..Len(r) : IsOutput(r[i])
    <3>1. Append(r, m)[Len(r) + 1] = m /\ Len(r) + 1 \in 1..Len(Append(r, m))
      OBVIOUS
    <3>2. \A i \in 1..Len(r) : Append(r, m)[i] = r[i] /\ i \in 1..Len(Append(r, m))
      OBVIOUS
    <3> QED BY <3>1, <3>2
  <2>2. Append(r, m) = r \o <<m>> /\ <<m>> \in Seq(Message)
    OBVIOUS
  <2>3. Held(Append(r, m)) = Len(Bytes(r)) + Len(m.bytes)
    <3>1. Held(Append(r, m)) = Held(r) + Size(m)
      BY <2>0, <2>2, HeldConcat
    <3>2. Size(m) = Len(m.bytes)
      BY <2>1 DEF Size
    <3> QED BY <2>0, <2>1, <3>1, <3>2
  <2>4. Len(Bytes(Append(r, m))) = Len(Bytes(r)) + Len(m.bytes)
    <3>1. Bytes(r) \in Seq(Nat) /\ m.bytes \in Seq(Nat)
      BY <2>0, BytesConcat, MessageShape
    <3>2. Bytes(Append(r, m)) = Bytes(r) \o m.bytes
      BY <2>0, BytesAppend
    <3> QED BY <3>1, <3>2
  <2> QED BY <2>3, <2>4
<1>3. X = Seq(Message)
  BY <1>1, <1>2, SeqInduction
<1> QED BY <1>3

\* What is kept by a shed has no bytes, is no longer, and is charged with what the bytes
\* shed leave of the charge.
LEMMA KeptShape ==
  ASSUME NEW q \in Seq(Message)
  PROVE  /\ Kept(q) \in Seq(Message) /\ Bytes(Kept(q)) = <<>>
         /\ Len(Kept(q)) <= Len(q)
         /\ Held(Kept(q)) = Held(q) - Len(Bytes(q))
<1> DEFINE Good(r) == /\ Kept(r) \in Seq(Message) /\ Bytes(Kept(r)) = <<>>
                      /\ Len(Kept(r)) <= Len(r)
                      /\ Held(Kept(r)) + Len(Bytes(r)) = Held(r)
           X == {r \in Seq(Message) : Good(r)}
<1>1. Good(<<>>)
  <2>1. <<>> \in Seq(Message) /\ Len(<<>>) = 0
    OBVIOUS
  <2>2. Kept(<<>>) = <<>> /\ Bytes(<<>>) = <<>> /\ Held(<<>>) = 0
    BY KeptAppend, BytesAppend, HeldConcat
  <2>3. Kept(<<>>) \in Seq(Message) /\ Bytes(Kept(<<>>)) = <<>>
    BY <2>1, <2>2
  <2>4. Len(Kept(<<>>)) <= Len(<<>>)
    BY <2>1, <2>2
  <2>5. Held(Kept(<<>>)) + Len(Bytes(<<>>)) = Held(<<>>)
    BY <2>1, <2>2
  <2> QED BY <2>3, <2>4, <2>5
<1>2. ASSUME NEW r \in Seq(Message), Good(r), NEW m \in Message PROVE Good(Append(r, m))
  <2>1. /\ Append(r, m) = r \o <<m>> /\ <<m>> \in Seq(Message)
        /\ Len(Append(r, m)) = Len(r) + 1
    OBVIOUS
  <2>2. Held(Append(r, m)) = Held(r) + Size(m)
    BY <2>1, HeldConcat
  <2>3. Bytes(Append(r, m)) = Bytes(r) \o m.bytes /\ Bytes(r) \in Seq(Nat)
    BY BytesAppend, BytesConcat
  <2>4. m.bytes \in Seq(Nat) /\ Size(m) \in Nat
    BY MessageShape
  <2>5. Len(Bytes(Append(r, m))) = Len(Bytes(r)) + Len(m.bytes) /\ Len(m.bytes) \in Nat
    BY <2>3, <2>4
  <2>6. Kept(Append(r, m)) = Keep(Kept(r), m)
    BY KeptAppend
  <2>7. /\ Held(Kept(r)) \in Nat /\ Held(r) \in Nat
        /\ Len(Bytes(r)) \in Nat /\ Len(r) \in Nat /\ Len(Kept(r)) \in Nat
    <3>1. Kept(r) \in Seq(Message)
      BY <1>2
    <3>2. Held(Kept(r)) \in Nat /\ Held(r) \in Nat
      BY <3>1, HeldConcat
    <3>3. Len(Bytes(r)) \in Nat
      BY <2>3
    <3> QED BY <3>1, <3>2, <3>3
  <2>0. /\ Kept(r) \in Seq(Message) /\ Bytes(Kept(r)) = <<>>
        /\ Len(Kept(r)) <= Len(r)
        /\ Held(Kept(r)) + Len(Bytes(r)) = Held(r)
    BY <1>2
  <2> HIDE DEF Good
  <2>8. CASE IsOutput(m)
    <3>1. Kept(Append(r, m)) = Kept(r) /\ Size(m) = Len(m.bytes)
      BY <2>6, <2>8 DEF Keep, Size
    <3>2. Len(Kept(Append(r, m))) <= Len(Append(r, m))
      BY <2>0, <2>1, <2>7, <3>1
    <3>3. Held(Kept(Append(r, m))) + Len(Bytes(Append(r, m))) = Held(Append(r, m))
      BY <2>0, <2>2, <2>5, <2>7, <3>1
    <3>4. Kept(Append(r, m)) \in Seq(Message) /\ Bytes(Kept(Append(r, m))) = <<>>
      BY <2>0, <3>1
    <3> QED BY <3>2, <3>3, <3>4 DEF Good
  <2>9. CASE ~IsOutput(m)
    <3>1. Kept(Append(r, m)) = Append(Kept(r), m)
      BY <2>6, <2>9 DEF Keep
    <3>2. /\ Append(Kept(r), m) = Kept(r) \o <<m>> /\ Append(Kept(r), m) \in Seq(Message)
          /\ Len(Append(Kept(r), m)) = Len(Kept(r)) + 1
      BY <2>0, AppendOne, SMTT(30)
    <3>3. Held(Kept(Append(r, m))) = Held(Kept(r)) + Size(m)
      <4>1. Held(Kept(r) \o <<m>>) = Held(Kept(r)) + Held(<<m>>)
        BY <2>0, <2>1, HeldConcat
      <4>2. Held(<<m>>) = Size(m)
        BY HeldConcat
      <4> QED BY <3>1, <3>2, <4>1, <4>2
    <3>4. m.bytes = <<>> /\ Len(m.bytes) = 0
      BY <2>9, MessageShape
    <3>5. Bytes(Kept(Append(r, m))) = <<>> \o <<>>
      BY <2>0, <3>1, <3>4, BytesAppend
    <3>6. Len(Kept(Append(r, m))) <= Len(Append(r, m))
      BY <2>0, <2>1, <2>7, <3>1, <3>2
    <3>7. Held(Kept(Append(r, m))) + Len(Bytes(Append(r, m))) = Held(Append(r, m))
      BY <2>0, <2>2, <2>4, <2>5, <2>7, <3>3, <3>4
    <3>8. Kept(Append(r, m)) \in Seq(Message)
      BY <3>1, <3>2
    <3>9. Bytes(Kept(Append(r, m))) = <<>>
      BY <3>5
    <3> QED BY <3>6, <3>7, <3>8, <3>9 DEF Good
  <2> QED BY <2>8, <2>9
<1>3. Good(q)
  <2> HIDE DEF Good
  <2>1. <<>> \in X /\ X \in SUBSET Seq(Message)
    BY <1>1
  <2>2. ASSUME NEW r \in X, NEW m \in Message PROVE Append(r, m) \in X
    BY <1>2
  <2>3. X = Seq(Message)
    BY <2>1, <2>2, SeqInduction
  <2> QED BY <2>3
<1>4. Held(Kept(q)) \in Nat /\ Bytes(q) \in Seq(Nat) /\ Held(q) \in Nat
  BY <1>3, HeldConcat, BytesConcat
<1> QED BY <1>3, <1>4

-----------------------------------------------------------------------------
(* The inductive invariant *)

Typed ==
  /\ queue \in Seq(Message) /\ Len(queue) <= MaxMessages
  /\ wire \in Seq(Nat) /\ {browser, frames} \subseteq Seq(Nat \ {0})
  /\ {ack, closed, sending, failed} \subseteq BOOLEAN /\ client \in {"bytes", "frames"}
  /\ queued \in 0..MaxBytes /\ inFlight \in Nat
  /\ offered \in 0..MaxOffered /\ statuses \in 0..MaxStatuses /\ early \in 0..MaxOffered

Exact == queued = Held(queue) /\ inFlight = Total(frames)

\* s ends t.
Ends(s, t) ==
  /\ Len(s) <= Len(t)
  /\ \A i \in 1..Len(s) : s[i] = t[Len(t) - Len(s) + i]

\* What is in flight for the writer is what the tab still has to acknowledge, less what
\* it was sent early.
Windowed ==
  /\ inFlight <= Window /\ inFlight <= Total(browser)
  /\ ~ack => frames = <<>>
  /\ closed => frames = <<>> /\ queue = <<>>
  /\ client = "frames" => Ends(frames, browser)
  /\ ack /\ client = "bytes" => /\ Total(browser) <= Window + early
                                /\ ~closed => Total(browser) <= inFlight + early

Sorted(s) == \A i, j \in DOMAIN s : i < j => s[i] < s[j]

\* Every byte is where it belongs, and none is counted twice.
Ordered ==
  /\ ~closed => /\ Sorted(wire \o Bytes(queue))
                /\ ToSet(wire \o Bytes(queue)) = (1..offered) \ lost
  /\ ToSet(wire) \subseteq 1..offered /\ lost \subseteq 1..offered
  /\ Len(wire) + Len(Bytes(queue)) <= offered
  /\ Total(browser) <= Len(wire)
  /\ lost # {} => ack \/ failed

IInv == Typed /\ Exact /\ Windowed /\ Ordered

-----------------------------------------------------------------------------
(* The operations on the queue *)

\* The constants.
LEMMA Limits ==
  /\ {MaxBytes, MaxMessages, Coalesce, Window} \subseteq Nat \ {0}
  /\ Chunks \subseteq Nat \ {0} /\ {MaxOffered, MaxStatuses} \subseteq Nat
BY WriterAssumption

\* What is offered is a message whose bytes are the next ones of the terminal.
LEMMA OffersShape ==
  ASSUME offered \in Nat, statuses \in Nat, NEW m \in Offers
  PROVE  /\ m \in Message /\ Sorted(m.bytes)
         /\ ToSet(m.bytes) = (offered + 1)..(offered + Len(m.bytes))
         /\ offered + Len(m.bytes) \in Nat
         /\ offered <= MaxOffered => offered + Len(m.bytes) <= MaxOffered
         /\ ~IsOutput(m) => statuses < MaxStatuses
<1>1. CASE m = Status /\ statuses < MaxStatuses
  <2>1. m.bytes = <<>> /\ m \in Message
    BY <1>1, MessageShape
  <2>2. Sorted(<<>>) /\ ToSet(<<>>) = {} /\ Len(<<>>) = 0
    BY DEF Sorted, ToSet
  <2>3. {} = (offered + 1)..(offered + 0) /\ offered + 0 = offered
    OBVIOUS
  <2> QED BY <1>1, <2>1, <2>2, <2>3
<1>2. ASSUME NEW n \in Chunks, offered + n <= MaxOffered,
             m = Output([i \in 1..n |-> offered + i])
      PROVE  /\ m \in Message /\ Sorted(m.bytes)
             /\ ToSet(m.bytes) = (offered + 1)..(offered + Len(m.bytes))
             /\ offered + Len(m.bytes) \in Nat /\ offered + Len(m.bytes) <= MaxOffered
             /\ IsOutput(m)
  <2> DEFINE b == [i \in 1..n |-> offered + i]
  <2>1. n \in Nat \ {0}
    BY Limits
  <2>2. b \in Seq(Nat) /\ Len(b) = n /\ b # <<>>
    BY <2>1
  <2>3. ToSet(b) = (offered + 1)..(offered + n)
    <3>1. ASSUME NEW x \in (offered + 1)..(offered + n) PROVE x \in ToSet(b)
      <4>1. x - offered \in 1..n /\ b[x - offered] = x /\ DOMAIN b = 1..n
        BY <2>1
      <4> QED BY <4>1 DEF ToSet
    <3>2. ASSUME NEW x \in ToSet(b) PROVE x \in (offered + 1)..(offered + n)
      BY <2>1 DEF ToSet
    <3> QED BY <3>1, <3>2
  <2>4. Sorted(b)
    BY <2>1 DEF Sorted
  <2>5. m \in Message /\ IsOutput(m) /\ m.bytes = b
    BY <1>2, <2>2, MessageShape
  <2> HIDE DEF b
  <2> QED BY <1>2, <2>1, <2>2, <2>3, <2>4, <2>5
<1>3. \/ m = Status /\ statuses < MaxStatuses
      \/ \E n \in Chunks : /\ offered + n <= MaxOffered
                           /\ m = Output([i \in 1..n |-> offered + i])
  BY DEF Offers
<1> QED BY <1>1, <1>2, <1>3

\* A message that joins the queue adds its bytes at the end and its size to the charge.
LEMMA JoinedShape ==
  ASSUME NEW q \in Seq(Message), NEW m \in Message
  PROVE  /\ Joined(q, m) \in Seq(Message) /\ Len(Joined(q, m)) <= Len(q) + 1
         /\ Held(Joined(q, m)) = Held(q) + Size(m)
         /\ Bytes(Joined(q, m)) = Bytes(q) \o m.bytes
<1>1. CASE ~Coalesces(q, m)
  <2>1. Joined(q, m) = Append(q, m)
    BY <1>1 DEF Joined
  <2>2. Append(q, m) = q \o <<m>> /\ <<m>> \in Seq(Message) /\ Append(q, m) \in Seq(Message)
        /\ Len(Append(q, m)) = Len(q) + 1
    BY AppendOne, Zenon
  <2>3. Held(Append(q, m)) = Held(q) + Size(m)
    BY <2>2, HeldConcat
  <2>4. Bytes(Append(q, m)) = Bytes(q) \o m.bytes
    BY BytesAppend
  <2>5. Len(q) \in Nat
    OBVIOUS
  <2> DEFINE j == Append(q, m)
  <2>6. /\ j = Joined(q, m) /\ j \in Seq(Message) /\ Len(j) = Len(q) + 1
        /\ Held(j) = Held(q) + Size(m) /\ Bytes(j) = Bytes(q) \o m.bytes
    BY <2>1, <2>2, <2>3, <2>4
  <2> HIDE DEF j
  <2> QED BY <2>5, <2>6
<1>2. CASE Coalesces(q, m)
  <2> DEFINE f == SubSeq(q, 1, Len(q) - 1)
             l == q[Len(q)]
             e == Output(l.bytes \o m.bytes)
  <2>1. q # <<>> /\ IsOutput(l) /\ IsOutput(m)
    BY <1>2 DEF Coalesces, Last
  <2>2. f \in Seq(Message) /\ l \in Message /\ Len(f) = Len(q) - 1 /\ Len(q) \in Nat \ {0}
    <3>1. Len(q) \in Nat \ {0} /\ Len(q) \in 1..Len(q)
      BY <2>1
    <3>2. l \in Message
      BY <3>1, ElementOfSeq
    <3>3. f \in Seq(Message) /\ Len(f) = Len(q) - 1
      BY <3>1, Slice, 1 \in 1..(Len(q) + 1), Len(q) - 1 \in (1 - 1)..Len(q),
         (Len(q) - 1) - 1 + 1 = Len(q) - 1
    <3> QED BY <3>1, <3>2, <3>3
  <2>3. q = f \o <<l>>
    <3>1. \A i \in 1..Len(q) : q[i] = (f \o <<l>>)[i]
      BY <2>2
    <3>2. f \o <<l>> \in Seq(Message) /\ Len(f \o <<l>>) = Len(q)
      BY <2>2
    <3> QED BY <3>1, <3>2, SeqEqual
  <2>4. Joined(q, m) = Append(f, e)
    BY <1>2 DEF Joined, Front, Last
  <2>5. l.bytes \in Seq(Nat) /\ l.bytes # <<>> /\ m.bytes \in Seq(Nat)
    BY <2>1, <2>2, MessageShape
  <2> DEFINE b == l.bytes
             c == m.bytes
  <2>6. b \o c \in Seq(Nat) \ {<<>>} /\ Len(b \o c) = Len(b) + Len(c)
    <3> HIDE DEF b, c
    <3>1. b \in Seq(Nat) /\ b # <<>> /\ c \in Seq(Nat)
      BY <2>5 DEF b, c
    <3> QED BY <3>1
  <2>7. e \in Message /\ IsOutput(e) /\ e.bytes = b \o c
    BY <2>6, MessageShape
  <2>8. Size(e) = Size(l) + Size(m)
    BY <2>1, <2>6, <2>7 DEF Size
  <2> HIDE DEF f, l, e, b, c
  <2>9. <<e>> \in Seq(Message) /\ <<l>> \in Seq(Message) /\ Append(f, e) = f \o <<e>>
        /\ Append(f, e) \in Seq(Message) /\ Len(Append(f, e)) = Len(f) + 1
    BY <2>2, <2>7
  <2>10. Held(Append(f, e)) = Held(f) + Size(e) /\ Held(q) = Held(f) + Size(l)
         /\ Held(f) \in Nat /\ Size(l) \in Nat /\ Size(m) \in Nat
    <3>1. Held(f) \in Nat /\ Size(l) \in Nat /\ Size(m) \in Nat
      BY <2>2, HeldConcat, MessageShape
    <3>2. Held(f \o <<e>>) = Held(f) + Held(<<e>>) /\ Held(<<e>>) = Size(e)
      BY <2>2, <2>7, <2>9, HeldConcat
    <3>3. Held(f \o <<l>>) = Held(f) + Held(<<l>>) /\ Held(<<l>>) = Size(l)
      BY <2>2, <2>9, HeldConcat
    <3> QED BY <2>3, <2>9, <3>1, <3>2, <3>3
  <2>11. Bytes(Append(f, e)) = Bytes(f) \o (b \o c) /\ Bytes(q) = Bytes(f) \o b
    <3>1. Bytes(f \o <<e>>) = Bytes(f) \o Bytes(<<e>>)
      BY <2>2, <2>9, BytesConcat
    <3>2. Bytes(<<e>>) = b \o c
      BY <2>7, BytesConcat
    <3>3. Bytes(f \o <<l>>) = Bytes(f) \o Bytes(<<l>>)
      BY <2>2, <2>9, BytesConcat
    <3>4. Bytes(<<l>>) = b
      BY <2>2, BytesConcat DEF b
    <3> QED BY <2>3, <2>9, <3>1, <3>2, <3>3, <3>4
  <2>12. (Bytes(f) \o b) \o c = Bytes(f) \o (b \o c)
    <3>1. Bytes(f) \in Seq(Nat) /\ b \in Seq(Nat) /\ c \in Seq(Nat)
      BY <2>2, <2>5, BytesConcat DEF b, c
    <3> QED BY <3>1, Associative
  <2>13. Bytes(Append(f, e)) = Bytes(q) \o c
    BY <2>11, <2>12
  <2>14. Held(Append(f, e)) = Held(q) + Size(m)
    BY <2>8, <2>10
  <2>15. Len(Append(f, e)) <= Len(q) + 1
    BY <2>2, <2>9
  <2> QED BY <2>4, <2>9, <2>13, <2>14, <2>15 DEF c
<1> QED BY <1>1, <1>2

\* The queue in which room is sought is the queue, or its statuses alone.
LEMMA RoomShape ==
  ASSUME Typed, Exact, NEW m \in Message
  PROVE  LET room == Room(m)
         IN  /\ room.queue \in Seq(Message) /\ Len(room.queue) <= Len(queue)
             /\ room.queued = Held(room.queue) /\ room.queued <= queued
             /\ room.queue = queue \/ (ack /\ Bytes(room.queue) = <<>>)
             /\ room.queue = queue => room.queued = queued
<1>0. queue \in Seq(Message) /\ queued = Held(queue)
  BY DEF Typed, Exact
<1>1. CASE ack /\ IsOutput(m) /\ Full(queue, queued, m)
  <2>1. Room(m) = [queue |-> Kept(queue), queued |-> queued - Len(Bytes(queue))]
    BY <1>1 DEF Room, _shed_queued_byte_output_locked
  <2>2. /\ Kept(queue) \in Seq(Message) /\ Bytes(Kept(queue)) = <<>>
        /\ Len(Kept(queue)) <= Len(queue)
        /\ Held(Kept(queue)) = Held(queue) - Len(Bytes(queue))
    BY <1>0, KeptShape
  <2>3. Len(Bytes(queue)) \in Nat /\ Held(queue) \in Nat
    BY <1>0, BytesConcat, HeldConcat
  <2>4. queued - Len(Bytes(queue)) <= queued
    BY <1>0, <2>3
  <2>5. Kept(queue) = queue => queued - Len(Bytes(queue)) = queued
    BY <1>0, <2>2
  <2> QED BY <1>0, <1>1, <2>1, <2>2, <2>4, <2>5
<1>2. CASE ~(ack /\ IsOutput(m) /\ Full(queue, queued, m))
  <2>1. Room(m) = [queue |-> queue, queued |-> queued]
    BY <1>2 DEF Room
  <2>2. Len(queue) \in Nat /\ queued \in Nat
    BY <1>0, HeldConcat
  <2> QED BY <1>0, <2>1, <2>2
<1> QED BY <1>1, <1>2

\* A budget is at least one byte and, below a full window, no more than the window leaves.
LEMMA BudgetShape ==
  ASSUME Typed
  PROVE  /\ Budget \in Nat \ {0}
         /\ ack /\ inFlight < Window => Budget <= Window - inFlight
<1>1. Coalesce \in Nat \ {0} /\ Window \in Nat \ {0} /\ inFlight \in Nat
  BY Limits DEF Typed
<1> DEFINE room == Max({1, Window - inFlight})
<1>2. room \in Nat \ {0} /\ (inFlight < Window => room = Window - inFlight)
  <2>1. room = IF 1 >= Window - inFlight THEN 1 ELSE Window - inFlight
    BY <1>1, MaxOfTwo, 1 \in Int, Window - inFlight \in Int
  <2> HIDE DEF room
  <2> QED BY <1>1, <2>1
<1>3. Min({Coalesce, room}) = IF Coalesce <= room THEN Coalesce ELSE room
  <2> HIDE DEF room
  <2> QED BY <1>1, <1>2, MinOfTwo, Coalesce \in Int, room \in Int
<1>4. Budget = IF ack THEN Min({Coalesce, room}) ELSE Coalesce
  BY DEF Budget
<1> HIDE DEF room
<1> QED BY <1>1, <1>2, <1>3, <1>4

\* A frame is made up of the first message, or of outputs that fit the budget.
LEMMA JoinCountShape ==
  ASSUME Typed, queue # <<>>
  PROVE  /\ JoinCount \in 1..Len(queue)
         /\ JoinCount = 1 \/ /\ \A i \in 1..JoinCount : IsOutput(queue[i])
                             /\ Held(SubSeq(queue, 1, JoinCount)) <= Budget
<1> DEFINE Fits(k) == /\ \A i \in 1..k : IsOutput(queue[i])
                      /\ Total(Sizes(SubSeq(queue, 1, k))) <= Budget
           Counts == {1} \union {k \in 1..Len(queue) : Fits(k)}
<1>1. Len(queue) \in Nat \ {0}
  BY DEF Typed
<1>2. Counts \in SUBSET (1..Len(queue)) /\ Counts # {}
  <2> HIDE DEF Fits
  <2> QED BY <1>1
<1>3. Max(Counts) \in Counts
  <2> HIDE DEF Counts
  <2>1. Counts \in SUBSET Nat /\ \A k \in Counts : k <= Len(queue)
    BY <1>2
  <2> QED BY <1>1, <1>2, <2>1, MaxMember
<1>4. JoinCount = Max(Counts)
  BY DEF JoinCount
<1>5. JoinCount \in 1..Len(queue) /\ (JoinCount = 1 \/ Fits(JoinCount))
  <2> HIDE DEF Fits
  <2> QED BY <1>2, <1>3, <1>4
<1> QED BY <1>5 DEF Held

\* The next frame and the rest are the bytes queued, in order; the rest is charged with
\* what the frame leaves of the charge; and a frame for a tab that acknowledges fits the
\* budget.
LEMMA FrameShape ==
  ASSUME Typed, queue # <<>>
  PROVE  /\ Frame \in Seq(Nat) /\ Rest \in Seq(Message) /\ Len(Rest) <= Len(queue)
         /\ Bytes(queue) = Frame \o Bytes(Rest)
         /\ IsOutput(Head(queue)) => /\ Len(Frame) > 0
                                     /\ Held(Rest) = Held(queue) - Len(Frame)
                                     /\ ack => Len(Frame) <= Budget
         /\ ~IsOutput(Head(queue)) => Frame = <<>> /\ Held(Rest) = Held(queue) - 1
<1>1. /\ queue \in Seq(Message) /\ Head(queue) \in Message /\ Tail(queue) \in Seq(Message)
      /\ Len(Tail(queue)) = Len(queue) - 1 /\ Len(queue) \in Nat \ {0}
      /\ Head(queue) = queue[1]
  BY DEF Typed
<1>2. Budget \in Nat \ {0}
  BY BudgetShape
<1>3. CASE Splits
  <2> DEFINE b == Head(queue).bytes
             front == SubSeq(b, 1, Budget)
             back == SubSeq(b, Budget + 1, Len(b))
             rest == <<Output(back)>> \o Tail(queue)
  <2>1. ack /\ IsOutput(Head(queue)) /\ Size(Head(queue)) > Budget
    BY <1>3 DEF Splits
  <2>2. Size(Head(queue)) = Len(b) /\ b \in Seq(Nat)
    BY <1>1, <2>1, MessageShape DEF Size
  <2>3. Frame = front /\ Rest = rest
    BY <1>3 DEF Frame, Rest
  <2>4. /\ b = front \o back /\ front \in Seq(Nat) /\ back \in Seq(Nat)
        /\ Len(front) = Budget /\ Len(back) = Len(b) - Budget /\ Len(b) > Budget
        /\ Len(b) \in Nat
    <3> HIDE DEF b
    <3>1. Budget \in 0..Len(b) /\ Len(b) \in Nat
      BY <1>2, <2>1, <2>2
    <3> QED BY <2>1, <2>2, <3>1, CutBytes
  <2>5. back # <<>> /\ back \in Seq(Nat) \ {<<>>}
    <3> HIDE DEF b, back, front
    <3> QED BY <1>2, <2>4
  <2>6. Output(back) \in Message /\ Output(back).bytes = back
        /\ Size(Output(back)) = Len(b) - Budget
    <3> HIDE DEF b, back, front
    <3>1. Output(back) \in Message /\ Output(back).bytes = back /\ IsOutput(Output(back))
      BY <2>5, MessageShape
    <3> QED BY <2>4, <3>1 DEF Size
  <2> HIDE DEF front, back, b, rest
  <2>7. <<Output(back)>> \in Seq(Message) /\ <<Head(queue)>> \in Seq(Message)
        /\ queue = <<Head(queue)>> \o Tail(queue)
    BY <1>1, <2>6
  <2>8. rest \in Seq(Message) /\ Len(rest) = Len(queue)
    <3>1. Len(<<Output(back)>>) = 1
      OBVIOUS
    <3> QED BY <1>1, <2>7, <3>1, ConcatProperties DEF rest
  <2>9. Bytes(rest) = back \o Bytes(Tail(queue)) /\ Bytes(queue) = b \o Bytes(Tail(queue))
    <3>1. Bytes(rest) = Bytes(<<Output(back)>>) \o Bytes(Tail(queue))
      BY <1>1, <2>7, BytesConcat DEF rest
    <3>2. Bytes(queue) = Bytes(<<Head(queue)>>) \o Bytes(Tail(queue))
      BY <1>1, <2>7, BytesConcat
    <3>3. Bytes(<<Output(back)>>) = back /\ Bytes(<<Head(queue)>>) = b
      BY <1>1, <2>6, BytesConcat DEF b
    <3> QED BY <3>1, <3>2, <3>3
  <2>10. (front \o back) \o Bytes(Tail(queue)) = front \o (back \o Bytes(Tail(queue)))
    BY <1>1, <2>4, Associative, BytesConcat
  <2>11. Held(rest) = (Len(b) - Budget) + Held(Tail(queue))
    <3>1. Held(rest) = Held(<<Output(back)>>) + Held(Tail(queue))
      BY <1>1, <2>7, HeldConcat DEF rest
    <3>2. Held(<<Output(back)>>) = Len(b) - Budget
      BY <2>6, HeldConcat
    <3> QED BY <3>1, <3>2
  <2>12. Held(queue) = Len(b) + Held(Tail(queue)) /\ Held(Tail(queue)) \in Nat
    <3>1. Held(queue) = Held(<<Head(queue)>>) + Held(Tail(queue))
      BY <1>1, <2>7, HeldConcat
    <3>2. Held(<<Head(queue)>>) = Len(b) /\ Held(Tail(queue)) \in Nat
      BY <1>1, <2>2, HeldConcat
    <3> QED BY <3>1, <3>2
  <2>13. Held(rest) = Held(queue) - Len(front)
    BY <1>2, <2>4, <2>11, <2>12
  <2>14. Bytes(queue) = front \o Bytes(rest)
    BY <2>4, <2>9, <2>10
  <2>15. Len(front) > 0 /\ Len(front) <= Budget /\ Len(rest) <= Len(queue)
    BY <1>1, <1>2, <2>4, <2>8
  <2> QED BY <2>1, <2>3, <2>4, <2>8, <2>13, <2>14, <2>15
<1>4. CASE ~Splits
  <2> DEFINE k == JoinCount
             front == SubSeq(queue, 1, k)
             rest == SubSeq(queue, k + 1, Len(queue))
  <2>1. Frame = Bytes(front) /\ Rest = rest
    BY <1>4 DEF Frame, Rest
  <2>2. k \in 1..Len(queue)
        /\ (k = 1 \/ ((\A i \in 1..k : IsOutput(queue[i])) /\ Held(front) <= Budget))
    BY JoinCountShape
  <2> HIDE DEF k
  <2>3. /\ queue = front \o rest /\ front \in Seq(Message) /\ rest \in Seq(Message)
        /\ Len(front) = k /\ Len(rest) = Len(queue) - k
    <3>1. k \in 0..Len(queue)
      BY <2>2
    <3> QED BY <1>1, <3>1, CutMessages
  <2>4. \A i \in 1..k : front[i] = queue[i]
    BY <1>1, <2>2, Slice, 1 \in 1..(Len(queue) + 1), k \in (1 - 1)..Len(queue)
  <2> HIDE DEF front, rest
  <2>5. Bytes(queue) = Bytes(front) \o Bytes(rest) /\ Bytes(front) \in Seq(Nat)
    BY <2>3, BytesConcat
  <2>6. Held(queue) = Held(front) + Held(rest) /\ Held(front) \in Nat /\ Held(rest) \in Nat
    BY <2>3, HeldConcat
  <2>7. ASSUME IsOutput(Head(queue))
        PROVE  /\ Len(Bytes(front)) > 0 /\ Held(rest) = Held(queue) - Len(Bytes(front))
               /\ ack => Len(Bytes(front)) <= Budget
    <3>1. \A i \in 1..Len(front) : IsOutput(front[i])
      BY <1>1, <2>2, <2>3, <2>4, <2>7
    <3>2. Held(front) = Len(Bytes(front))
      BY <2>3, <3>1, HeldOutputs
    <3>3. front # <<>> /\ Head(front) = Head(queue)
      BY <1>1, <2>2, <2>3, <2>4
    <3>4. Held(front) = Size(Head(queue)) + Held(Tail(front)) /\ Held(Tail(front)) \in Nat
          /\ Size(Head(queue)) \in Nat \ {0}
      <4>1. front = <<Head(front)>> \o Tail(front) /\ <<Head(front)>> \in Seq(Message)
            /\ Tail(front) \in Seq(Message) /\ Head(front) \in Message
        BY <2>3, <3>3
      <4> QED BY <3>3, <4>1, HeldConcat, MessageShape
    <3>5. k = 1 => Held(front) = Size(Head(queue))
      <4> SUFFICES ASSUME k = 1 PROVE Held(front) = Size(Head(queue))
        OBVIOUS
      <4>1. Tail(front) = <<>>
        BY <2>3, <3>3
      <4>2. Held(Tail(front)) = 0
        BY <4>1, HeldConcat
      <4> QED BY <3>4, <4>2
    <3>6. ack => Held(front) <= Budget
      <4>1. ack => Size(Head(queue)) <= Budget
        BY <1>1, <1>2, <1>4, <2>7, MessageShape DEF Splits
      <4> QED BY <2>2, <3>5, <4>1
    <3> QED BY <2>6, <3>2, <3>4, <3>6
  <2>8. ASSUME ~IsOutput(Head(queue))
        PROVE  Bytes(front) = <<>> /\ Held(rest) = Held(queue) - 1
    <3>1. k = 1
      BY <1>1, <2>2, <2>8
    <3>2. front = <<Head(queue)>>
      <4>1. Len(front) = 1 /\ front[1] = Head(queue)
        BY <1>1, <2>3, <2>4, <3>1
      <4> QED BY <2>3, <4>1
    <3>3. Head(queue) = Status /\ Head(queue).bytes = <<>>
      BY <1>1, <2>8, MessageShape
    <3>4. Size(Status) = 1
      BY DEF Size, IsOutput, Status
    <3>5. Bytes(front) = <<>> /\ Held(front) = 1
      BY <1>1, <3>2, <3>3, <3>4, BytesConcat, HeldConcat
    <3> QED BY <2>6, <3>5
  <2>9. Len(rest) <= Len(queue)
    BY <1>1, <2>2, <2>3
  <2> QED BY <2>1, <2>3, <2>5, <2>7, <2>8, <2>9
<1> QED BY <1>3, <1>4

-----------------------------------------------------------------------------
(* The order of the bytes *)

\* The members of a concatenation, and of its parts.
LEMMA ToSetConcat ==
  ASSUME NEW a \in Seq(Nat), NEW b \in Seq(Nat)
  PROVE  /\ a \o b \in Seq(Nat) /\ Len(a \o b) = Len(a) + Len(b)
         /\ ToSet(a \o b) = ToSet(a) \union ToSet(b)
<1> DEFINE c == a \o b
<1>1. /\ c \in Seq(Nat) /\ Len(c) = Len(a) + Len(b) /\ Len(a) \in Nat /\ Len(b) \in Nat
      /\ \A i \in 1..Len(a) : c[i] = a[i]
      /\ \A i \in 1..Len(b) : c[Len(a) + i] = b[i]
      /\ DOMAIN a = 1..Len(a) /\ DOMAIN b = 1..Len(b) /\ DOMAIN c = 1..Len(c)
  OBVIOUS
<1> HIDE DEF c
<1>2. ASSUME NEW x \in ToSet(c) PROVE x \in ToSet(a) \union ToSet(b)
  <2>1. PICK i \in 1..Len(c) : x = c[i]
    BY <1>1 DEF ToSet
  <2>2. CASE i <= Len(a)
    <3>1. i \in 1..Len(a) /\ x = a[i]
      BY <1>1, <2>1, <2>2
    <3> QED BY <1>1, <3>1 DEF ToSet
  <2>3. CASE i > Len(a)
    <3>1. i - Len(a) \in 1..Len(b) /\ Len(a) + (i - Len(a)) = i
      BY <1>1, <2>3
    <3>2. x = b[i - Len(a)]
      BY <1>1, <2>1, <3>1
    <3> QED BY <1>1, <3>1, <3>2 DEF ToSet
  <2> QED BY <1>1, <2>2, <2>3
<1>3. ASSUME NEW x \in ToSet(a) PROVE x \in ToSet(c)
  <2>1. PICK i \in 1..Len(a) : x = a[i]
    BY <1>1 DEF ToSet
  <2>2. i \in 1..Len(c) /\ x = c[i]
    BY <1>1, <2>1
  <2> QED BY <1>1, <2>2 DEF ToSet
<1>4. ASSUME NEW x \in ToSet(b) PROVE x \in ToSet(c)
  <2>1. PICK i \in 1..Len(b) : x = b[i]
    BY <1>1 DEF ToSet
  <2>2. Len(a) + i \in 1..Len(c) /\ x = c[Len(a) + i]
    BY <1>1, <2>1
  <2> QED BY <1>1, <2>2 DEF ToSet
<1> QED BY <1>1, <1>2, <1>3, <1>4 DEF c

\* A concatenation is sorted if and only if its parts are, the first before the second.
LEMMA SortedConcat ==
  ASSUME NEW a \in Seq(Nat), NEW b \in Seq(Nat)
  PROVE  Sorted(a \o b) <=> /\ Sorted(a) /\ Sorted(b)
                            /\ \A x \in ToSet(a), y \in ToSet(b) : x < y
<1> DEFINE c == a \o b
<1>1. /\ c \in Seq(Nat) /\ Len(c) = Len(a) + Len(b) /\ Len(a) \in Nat /\ Len(b) \in Nat
      /\ \A i \in 1..Len(a) : c[i] = a[i]
      /\ \A i \in 1..Len(b) : c[Len(a) + i] = b[i]
      /\ DOMAIN a = 1..Len(a) /\ DOMAIN b = 1..Len(b) /\ DOMAIN c = 1..Len(c)
  OBVIOUS
<1> HIDE DEF c
<1>2. ASSUME Sorted(c)
      PROVE  Sorted(a) /\ Sorted(b) /\ \A x \in ToSet(a), y \in ToSet(b) : x < y
  <2>1. ASSUME NEW i \in 1..Len(a), NEW j \in 1..Len(a), i < j PROVE a[i] < a[j]
    <3>1. i \in 1..Len(c) /\ j \in 1..Len(c)
      BY <1>1
    <3>2. c[i] < c[j]
      BY <1>1, <1>2, <2>1, <3>1 DEF Sorted
    <3> QED BY <1>1, <3>2
  <2>2. ASSUME NEW i \in 1..Len(b), NEW j \in 1..Len(b), i < j PROVE b[i] < b[j]
    <3>1. Len(a) + i \in 1..Len(c) /\ Len(a) + j \in 1..Len(c) /\ Len(a) + i < Len(a) + j
      <4>1. Len(a) \in Nat /\ Len(b) \in Nat /\ Len(c) = Len(a) + Len(b)
        BY <1>1
      <4> QED BY <2>2, <4>1
    <3>2. c[Len(a) + i] < c[Len(a) + j]
      BY <1>1, <1>2, <3>1 DEF Sorted
    <3> QED BY <1>1, <3>2
  <2>3. ASSUME NEW x \in ToSet(a), NEW y \in ToSet(b) PROVE x < y
    <3>1. PICK i \in 1..Len(a) : x = a[i]
      BY <1>1 DEF ToSet
    <3>2. PICK j \in 1..Len(b) : y = b[j]
      <4>1. DOMAIN b = 1..Len(b)
        BY <1>1
      <4> QED BY <4>1 DEF ToSet
    <3>3. i \in 1..Len(c) /\ Len(a) + j \in 1..Len(c) /\ i < Len(a) + j
      <4>1. Len(a) \in Nat /\ Len(b) \in Nat /\ Len(c) = Len(a) + Len(b)
        BY <1>1
      <4> QED BY <4>1
    <3>4. c[i] < c[Len(a) + j]
      BY <1>1, <1>2, <3>3 DEF Sorted
    <3> QED BY <1>1, <3>1, <3>2, <3>4
  <2> QED BY <1>1, <2>1, <2>2, <2>3 DEF Sorted
<1>3. ASSUME Sorted(a), Sorted(b), \A x \in ToSet(a), y \in ToSet(b) : x < y
      PROVE  Sorted(c)
  <2> SUFFICES ASSUME NEW i \in 1..Len(c), NEW j \in 1..Len(c), i < j PROVE c[i] < c[j]
    BY <1>1 DEF Sorted
  <2>1. CASE j <= Len(a)
    <3>1. i \in 1..Len(a) /\ j \in 1..Len(a)
      BY <1>1, <2>1
    <3>2. a[i] < a[j]
      BY <1>1, <1>3, <3>1 DEF Sorted
    <3> QED BY <1>1, <3>1, <3>2
  <2>2. CASE i > Len(a)
    <3>1. i - Len(a) \in 1..Len(b) /\ j - Len(a) \in 1..Len(b) /\ i - Len(a) < j - Len(a)
          /\ Len(a) + (i - Len(a)) = i /\ Len(a) + (j - Len(a)) = j
      BY <1>1, <2>2
    <3>2. b[i - Len(a)] < b[j - Len(a)]
      BY <1>1, <1>3, <3>1 DEF Sorted
    <3> QED BY <1>1, <3>1, <3>2
  <2>3. CASE i <= Len(a) /\ j > Len(a)
    <3>1. i \in 1..Len(a) /\ j - Len(a) \in 1..Len(b) /\ Len(a) + (j - Len(a)) = j
      BY <1>1, <2>3
    <3>2. a[i] \in ToSet(a) /\ b[j - Len(a)] \in ToSet(b)
      BY <1>1, <3>1 DEF ToSet
    <3>3. c[i] = a[i] /\ c[j] = b[j - Len(a)]
      BY <1>1, <3>1
    <3> QED BY <1>3, <3>2, <3>3
  <2> QED BY <1>1, <2>1, <2>2, <2>3
<1> QED BY <1>2, <1>3 DEF c

-----------------------------------------------------------------------------
(* The frames a tab has to acknowledge *)

\* A sequence that ends another has no greater sum.
LEMMA EndsTotal ==
  ASSUME NEW s \in Seq(Nat), NEW t \in Seq(Nat), Ends(s, t)
  PROVE  Total(s) <= Total(t)
<1> DEFINE k == Len(t) - Len(s)
           rest == SubSeq(t, k + 1, Len(t))
           front == SubSeq(t, 1, k)
<1>1. k \in 0..Len(t) /\ Len(t) \in Nat /\ Len(s) \in Nat
  BY DEF Ends
<1>2. /\ t = front \o rest /\ front \in Seq(Nat) /\ rest \in Seq(Nat)
      /\ Len(rest) = Len(t) - k
  <2> HIDE DEF k
  <2> QED BY <1>1, Cut
<1>3. \A i \in 1..Len(s) : rest[i] = t[k + i]
  <2>1. k + 1 \in 1..(Len(t) + 1) /\ Len(t) \in ((k + 1) - 1)..Len(t)
        /\ Len(t) - (k + 1) + 1 = Len(s)
    BY <1>1
  <2>2. \A i \in 1..Len(s) : rest[i] = t[(k + 1) + i - 1] /\ (k + 1) + i - 1 = k + i
    <3> HIDE DEF k
    <3> QED BY <1>1, <2>1, Slice
  <2> QED BY <2>2
<1>4. rest = s
  <2>1. Len(rest) = Len(s)
    BY <1>1, <1>2
  <2>2. \A i \in 1..Len(s) : s[i] = rest[i]
    <3> HIDE DEF rest
    <3> QED BY <1>3 DEF Ends
  <2> HIDE DEF rest
  <2> QED BY <1>2, <2>1, <2>2, SeqEqual
<1> HIDE DEF front, rest
<1>5. Total(t) = Total(front) + Total(s) /\ Total(front) \in Nat /\ Total(s) \in Nat
  BY <1>2, <1>4, TotalConcat
<1> QED BY <1>5

\* What is released is taken off the sum, and every frame left has bytes left.
LEMMA ReleasedShape ==
  ASSUME NEW s \in Seq(Nat \ {0}), NEW n \in Nat, n <= Total(s)
  PROVE  Released(s, n) \in Seq(Nat \ {0}) /\ Total(Released(s, n)) = Total(s) - n
<1> DEFINE Covered == {k \in 0..Len(s) : Total(SubSeq(s, 1, k)) <= n}
           done == Max(Covered)
           front == SubSeq(s, 1, done)
           rest == SubSeq(s, done + 1, Len(s))
           left == n - Total(front)
<1>1. s \in Seq(Nat) /\ Len(s) \in Nat
  OBVIOUS
<1>2. 0 \in Covered
  <2>1. SubSeq(s, 1, 0) = <<>> /\ 0 \in 0..Len(s)
    BY <1>1, SubSeqEmpty
  <2>2. Total(SubSeq(s, 1, 0)) <= n
    <3>1. Total(<<>>) = 0
      BY TotalAppend
    <3>2. Total(SubSeq(s, 1, 0)) = 0
      BY <2>1, <3>1, Zenon
    <3> QED BY <3>2
  <2> QED BY <2>1, <2>2
<1>3. done \in Covered /\ \A k \in Covered : k <= done
  <2>1. Covered \in SUBSET Nat /\ \A k \in Covered : k <= Len(s)
    BY <1>1
  <2> HIDE DEF Covered
  <2> QED BY <1>1, <1>2, <2>1, MaxMember
<1>4. done \in 0..Len(s) /\ Total(front) <= n
  <2> HIDE DEF done
  <2> QED BY <1>3
<1>5. done + 1 <= Len(s) => ~(Total(SubSeq(s, 1, done + 1)) <= n)
  <2> HIDE DEF done
  <2> SUFFICES ASSUME done + 1 <= Len(s), Total(SubSeq(s, 1, done + 1)) <= n PROVE FALSE
    OBVIOUS
  <2>1. done + 1 \in Covered
    BY <1>1, <1>4
  <2> QED BY <1>3, <1>4, <2>1
<1>6. Released(s, n) = IF rest = <<>> THEN <<>> ELSE <<Head(rest) - left>> \o Tail(rest)
  BY DEF Released
<1> HIDE DEF Covered, done
<1>7. /\ s = front \o rest /\ front \in Seq(Nat \ {0}) /\ Len(front) = done
      /\ rest \in Seq(Nat \ {0}) /\ Len(rest) = Len(s) - done
  <2>1. done \in 0..Len(s)
    BY <1>4
  <2> QED BY <2>1, CutFrames
<1>8. front \in Seq(Nat) /\ rest \in Seq(Nat)
  <2> HIDE DEF front, rest
  <2> QED BY <1>7
<1>9. /\ Total(s) = Total(front) + Total(rest)
      /\ Total(front) \in Nat /\ Total(rest) \in Nat /\ Total(s) \in Nat
  <2> HIDE DEF front, rest
  <2> QED BY <1>1, <1>7, <1>8, TotalConcat
<1>10. CASE rest = <<>>
  <2> HIDE DEF front, rest
  <2>1. Total(<<>>) = 0
    BY TotalAppend
  <2>2. Released(s, n) = <<>> /\ Total(rest) = 0
    BY <1>6, <1>10, <2>1
  <2>3. Total(s) - n = 0
    BY <1>4, <1>9, <2>2
  <2>4. <<>> \in Seq(Nat \ {0})
    OBVIOUS
  <2> QED BY <2>1, <2>2, <2>3, <2>4
<1>11. CASE rest # <<>>
  <2>1. Released(s, n) = <<Head(rest) - left>> \o Tail(rest)
    BY <1>6, <1>11
  <2>2. done + 1 <= Len(s) /\ done + 1 \in 1..Len(s)
    <3> HIDE DEF front, rest
    <3>1. Len(rest) \in Nat \ {0}
      BY <1>7, <1>11
    <3> QED BY <1>1, <1>4, <1>7, <3>1
  <2>3. Head(rest) = s[done + 1] /\ Head(rest) \in Nat \ {0} /\ Tail(rest) \in Seq(Nat \ {0})
    <3>1. Head(rest) = s[done + 1]
      BY <2>2, HeadTailOfSubSeq, Len(s) \in (done + 1)..Len(s)
    <3> HIDE DEF rest
    <3> QED BY <1>7, <1>11, <3>1
  <2>4. SubSeq(s, 1, done + 1) = front \o <<s[done + 1]>>
    <3>1. 1 \in 1..Len(s) /\ done + 1 \in 1..Len(s) /\ (done + 1) - 1 = done
      BY <1>1, <1>4, <2>2
    <3> QED BY <3>1, SubSeqRecursiveSecond
  <2> DEFINE h == Head(rest)
             t == Tail(rest)
             f == Total(front)
  <2>5. Total(SubSeq(s, 1, done + 1)) = f + h
    <3>1. <<s[done + 1]>> \in Seq(Nat) /\ s[done + 1] \in Nat
      BY <2>3
    <3> QED BY <1>8, <2>3, <2>4, <3>1, TotalConcat
  <2>6. h > left /\ left \in Nat /\ h - left \in Nat \ {0}
    <3>1. ~(f + h <= n) /\ f \in Nat /\ h \in Nat /\ f <= n
      BY <1>4, <1>5, <1>9, <2>2, <2>3, <2>5
    <3> HIDE DEF f, h
    <3>2. left = n - f
      BY DEF f
    <3> QED BY <3>1, <3>2
  <2>7. Total(rest) = h + Total(t) /\ Total(t) \in Nat
    <3>1. rest = <<h>> \o t /\ <<h>> \in Seq(Nat) /\ t \in Seq(Nat)
      <4> HIDE DEF rest
      <4> QED BY <1>7, <1>11, <2>3
    <3>2. Total(<<h>> \o t) = Total(<<h>>) + Total(t) /\ Total(<<h>>) = h /\ Total(t) \in Nat
      BY <2>3, <3>1, TotalConcat
    <3> QED BY <3>1, <3>2
  <2>8. /\ <<h - left>> \o t \in Seq(Nat \ {0})
        /\ Total(<<h - left>> \o t) = (h - left) + Total(t)
    <3> HIDE DEF h, t, left
    <3>1. t \in Seq(Nat \ {0}) /\ t \in Seq(Nat)
      BY <2>3 DEF t
    <3>2. <<h - left>> \in Seq(Nat \ {0}) /\ <<h - left>> \in Seq(Nat) /\ h - left \in Nat
      BY <2>6
    <3>3. <<h - left>> \o t \in Seq(Nat \ {0})
      BY <3>1, <3>2
    <3>4. Total(<<h - left>> \o t) = Total(<<h - left>>) + Total(t)
      BY <3>1, <3>2, TotalConcat
    <3>5. Total(<<h - left>>) = h - left
      BY <3>2, TotalConcat
    <3> QED BY <3>3, <3>4, <3>5
  <2>9. (h - left) + Total(t) = Total(s) - n
    <3>1. left = n - f /\ Total(s) = f + (h + Total(t)) /\ f \in Nat /\ h \in Nat
          /\ Total(t) \in Nat
      BY <1>9, <2>3, <2>7
    <3> HIDE DEF h, t, f, left
    <3> QED BY <3>1
  <2> QED BY <2>1, <2>8, <2>9
<1> QED BY <1>10, <1>11

-----------------------------------------------------------------------------
(* The steps *)

\* The initial states.
LEMMA InitInv == Init => IInv
<1> SUFFICES ASSUME Init PROVE IInv
  OBVIOUS
<1>1. Total(<<>>) = 0 /\ Bytes(<<>>) = <<>> /\ Held(<<>>) = 0
  BY TotalAppend, BytesAppend, HeldConcat
<1>2. Typed
  <2>1. <<>> \in Seq(Message) /\ <<>> \in Seq(Nat) /\ <<>> \in Seq(Nat \ {0})
    OBVIOUS
  <2>2. 0 \in 0..MaxBytes /\ 0 \in 0..MaxOffered /\ 0 \in 0..MaxStatuses /\ 0 <= MaxMessages
    BY Limits
  <2>3. Len(<<>>) = 0
    OBVIOUS
  <2>4. queue \in Seq(Message) /\ Len(queue) <= MaxMessages
    BY <2>1, <2>2, <2>3 DEF Init
  <2>5. wire \in Seq(Nat) /\ {browser, frames} \subseteq Seq(Nat \ {0})
    BY <2>1 DEF Init
  <2> QED BY <2>2, <2>4, <2>5 DEF Init, Typed
<1>3. Exact
  BY <1>1 DEF Init, Exact
<1>4. Windowed
  <2>1. Ends(<<>>, <<>>)
    BY DEF Ends
  <2> QED BY <1>1, <2>1, Limits DEF Init, Windowed
<1>5. Ordered
  <2>1. <<>> \o Bytes(<<>>) = <<>>
    BY <1>1
  <2>2. Sorted(<<>>) /\ ToSet(<<>>) = {}
    BY DEF Sorted, ToSet
  <2>3. Len(<<>>) + Len(Bytes(<<>>)) <= 0 /\ Total(<<>>) <= Len(<<>>)
    BY <1>1
  <2>4. {} = (1..0) \ {}
    OBVIOUS
  <2> QED BY <2>1, <2>2, <2>3, <2>4 DEF Init, Ordered
<1> QED BY <1>2, <1>3, <1>4, <1>5 DEF IInv

\* What the order of the bytes says of the queue while the writer is open: the bytes
\* handed over and those queued are apart.
LEMMA Parts ==
  ASSUME IInv, ~closed
  PROVE  /\ wire \in Seq(Nat) /\ Bytes(queue) \in Seq(Nat)
         /\ Sorted(wire) /\ Sorted(Bytes(queue))
         /\ ToSet(wire) \union ToSet(Bytes(queue)) = (1..offered) \ lost
         /\ ToSet(wire) \intersect ToSet(Bytes(queue)) = {}
<1>1. wire \in Seq(Nat) /\ Bytes(queue) \in Seq(Nat)
  BY BytesConcat DEF IInv, Typed
<1>2. Sorted(wire \o Bytes(queue)) /\ ToSet(wire \o Bytes(queue)) = (1..offered) \ lost
  BY DEF IInv, Ordered
<1>3. /\ Sorted(wire) /\ Sorted(Bytes(queue))
      /\ \A x \in ToSet(wire), y \in ToSet(Bytes(queue)) : x < y
  BY <1>1, <1>2, SortedConcat
<1>4. ToSet(wire) \union ToSet(Bytes(queue)) = (1..offered) \ lost
  BY <1>1, <1>2, ToSetConcat
<1>5. ASSUME NEW x \in ToSet(wire), x \in ToSet(Bytes(queue)) PROVE FALSE
  <2>1. x < x /\ x \in Int
    BY <1>3, <1>4, <1>5 DEF IInv, Typed
  <2> QED BY <2>1
<1> QED BY <1>1, <1>3, <1>4, <1>5

\* An accepted message.
LEMMA AcceptInv ==
  ASSUME IInv, NEW m \in Offers, Accept(m)
  PROVE  IInv'
<1> DEFINE q == Room(m).queue
           n == Room(m).queued
           b == m.bytes
<1>0. Typed /\ Exact /\ Windowed /\ Ordered
  BY DEF IInv
<1>1. /\ m \in Message /\ Sorted(b) /\ b \in Seq(Nat)
      /\ ToSet(b) = (offered + 1)..(offered + Len(b))
      /\ offered + Len(b) \in 0..MaxOffered /\ Len(b) \in Nat
      /\ ~IsOutput(m) => statuses < MaxStatuses
      /\ Size(m) \in Nat
  <2>1. offered \in 0..MaxOffered /\ MaxOffered \in Nat /\ statuses \in Nat
    BY <1>0, Limits DEF Typed
  <2>2. /\ m \in Message /\ Sorted(m.bytes)
        /\ ToSet(m.bytes) = (offered + 1)..(offered + Len(m.bytes))
        /\ offered + Len(m.bytes) \in Nat
        /\ offered + Len(m.bytes) <= MaxOffered
        /\ ~IsOutput(m) => statuses < MaxStatuses
    BY <2>1, OffersShape
  <2>3. b \in Seq(Nat) /\ Len(b) \in Nat /\ Size(m) \in Nat
    BY <2>2, MessageShape
  <2> QED BY <2>1, <2>2, <2>3
<1>2. /\ q \in Seq(Message) /\ Len(q) <= Len(queue) /\ n = Held(q)
      /\ q = queue \/ (ack /\ Bytes(q) = <<>>)
  BY <1>0, <1>1, RoomShape
<1>3. /\ ~closed /\ queue' = Joined(q, m) /\ queued' = n + Size(m)
      /\ offered' = offered + Len(b)
      /\ statuses' = IF IsOutput(m) THEN statuses ELSE statuses + 1
      /\ lost' = IF q = queue THEN lost ELSE lost \union ToSet(Bytes(queue))
      /\ UNCHANGED <<ack, inFlight, frames, closed, sending, failed, client, browser, wire,
                     early>>
      /\ ~Full(q, n, m)
  BY DEF Accept, Offer
<1> HIDE DEF q, n, b
<1>4. Len(q) < MaxMessages /\ n + Size(m) <= MaxBytes /\ n \in Nat
  <2>1. n \in Nat /\ Len(q) \in Nat
    BY <1>2, HeldConcat
  <2> QED BY <1>1, <1>3, <2>1, Limits DEF Full
<1>5. /\ queue' \in Seq(Message) /\ Len(queue') <= Len(q) + 1
      /\ Held(queue') = Held(q) + Size(m) /\ Bytes(queue') = Bytes(q) \o b
  BY <1>1, <1>2, <1>3, JoinedShape DEF b
<1>6. Typed'
  <2>1. Len(queue') <= MaxMessages
    BY <1>2, <1>4, <1>5, Limits
  <2>2. queued' \in 0..MaxBytes
    BY <1>1, <1>3, <1>4
  <2>3. offered' \in 0..MaxOffered /\ statuses' \in 0..MaxStatuses
    <3>1. statuses \in 0..MaxStatuses /\ MaxStatuses \in Nat
      BY <1>0, Limits DEF Typed
    <3> QED BY <1>1, <1>3, <3>1
  <2> QED BY <1>0, <1>3, <1>5, <2>1, <2>2, <2>3 DEF Typed
<1>7. Exact'
  <2>1. inFlight' = Total(frames')
    BY <1>0, <1>3 DEF Exact
  <2>2. queued' = Held(queue')
    BY <1>2, <1>3, <1>5
  <2> QED BY <2>1, <2>2 DEF Exact
<1>8. Windowed'
  BY <1>0, <1>3 DEF Windowed
<1>9. Ordered'
  <2>1. /\ wire \in Seq(Nat) /\ Bytes(queue) \in Seq(Nat)
        /\ Sorted(wire) /\ Sorted(Bytes(queue))
        /\ ToSet(wire) \union ToSet(Bytes(queue)) = (1..offered) \ lost
        /\ ToSet(wire) \intersect ToSet(Bytes(queue)) = {}
    BY <1>3, Parts
  <2>2. /\ offered \in Nat /\ lost \subseteq 1..offered /\ ToSet(wire) \subseteq 1..offered
        /\ Len(wire) \in Nat /\ Len(Bytes(queue)) \in Nat
        /\ Len(wire) + Len(Bytes(queue)) <= offered
    BY <1>0, <2>1 DEF Typed, Ordered
  <2>3. CASE q = queue
    <3> DEFINE all == wire \o Bytes(queue)
    <3>1. all \in Seq(Nat) /\ Sorted(all) /\ ToSet(all) = (1..offered) \ lost
      <4>1. all \in Seq(Nat) /\ ToSet(all) = ToSet(wire) \union ToSet(Bytes(queue))
        BY <2>1, ToSetConcat
      <4>2. Sorted(all)
        BY <1>0, <1>3 DEF Ordered
      <4> QED BY <2>1, <4>1, <4>2
    <3>2. wire' \o Bytes(queue') = all \o b
      <4>1. (wire \o Bytes(queue)) \o b = wire \o (Bytes(queue) \o b)
        BY <1>1, <2>1, Associative, SMTT(30)
      <4>2. Bytes(queue') = Bytes(queue) \o b /\ wire' = wire
        BY <1>3, <1>5, <2>3
      <4> QED BY <4>1, <4>2
    <3> HIDE DEF all
    <3>3. \A x \in ToSet(all), y \in ToSet(b) : x < y
      BY <1>1, <2>2, <3>1
    <3>4. Sorted(all \o b) /\ ToSet(all \o b) = ToSet(all) \union ToSet(b)
      BY <1>1, <3>1, <3>3, SortedConcat, ToSetConcat
    <3>5. ToSet(all) \union ToSet(b) = (1..(offered + Len(b))) \ lost
      <4>1. (1..offered) \union ((offered + 1)..(offered + Len(b))) = 1..(offered + Len(b))
        BY <1>1, <2>2
      <4>2. \A x \in ToSet(b) : x \notin lost
        BY <1>1, <2>2
      <4> QED BY <1>1, <3>1, <4>1, <4>2
    <3>6. lost' = lost
      BY <1>3, <2>3
    <3>7. Len(Bytes(queue')) = Len(Bytes(queue)) + Len(b)
      BY <1>1, <1>5, <2>1, <2>3
    <3>8. ToSet(wire) \subseteq 1..(offered + Len(b)) /\ lost \subseteq 1..(offered + Len(b))
      BY <1>1, <2>2
    <3>9. Len(wire) + Len(Bytes(queue')) <= offered + Len(b)
      BY <1>1, <2>2, <3>7
    <3> QED BY <1>0, <1>3, <3>2, <3>4, <3>5, <3>6, <3>8, <3>9 DEF Ordered
  <2>4. CASE q # queue
    <3>1. ack /\ Bytes(q) = <<>> /\ lost' = lost \union ToSet(Bytes(queue))
      BY <1>2, <1>3, <2>4
    <3>2. Bytes(queue') = b
      BY <1>1, <1>5, <3>1
    <3>3. \A x \in ToSet(wire), y \in ToSet(b) : x < y
      BY <1>1, <2>2
    <3>4. Sorted(wire \o b) /\ ToSet(wire \o b) = ToSet(wire) \union ToSet(b)
      BY <1>1, <2>1, <3>3, SortedConcat, ToSetConcat
    <3>5. ToSet(wire) \union ToSet(b) = (1..(offered + Len(b))) \ lost'
      <4>1. (1..offered) \union ((offered + 1)..(offered + Len(b))) = 1..(offered + Len(b))
        BY <1>1, <2>2
      <4>2. lost' \subseteq 1..offered
        BY <2>1, <2>2, <3>1
      <4>3. \A x \in ToSet(b) : x \notin lost'
        BY <1>1, <2>2, <4>2
      <4>4. ToSet(wire) = (1..offered) \ lost'
        BY <2>1, <3>1
      <4> QED BY <1>1, <4>1, <4>3, <4>4
    <3>6. ToSet(wire) \subseteq 1..(offered + Len(b)) /\ lost' \subseteq 1..(offered + Len(b))
      <4>1. 1..offered \subseteq 1..(offered + Len(b))
        BY <1>1, <2>2
      <4>2. ToSet(Bytes(queue)) \subseteq 1..offered
        BY <2>1
      <4> QED BY <2>2, <3>1, <4>1, <4>2
    <3>7. Len(wire) + Len(b) <= offered + Len(b)
      BY <1>1, <2>2
    <3> QED BY <1>0, <1>3, <3>1, <3>2, <3>4, <3>5, <3>6, <3>7 DEF Ordered
  <2> QED BY <2>3, <2>4
<1> QED BY <1>6, <1>7, <1>8, <1>9 DEF IInv

\* A refused message.
LEMMA RefuseInv ==
  ASSUME IInv, NEW m \in Offers, Refuse(m)
  PROVE  IInv'
<1> DEFINE b == m.bytes
           gone == ToSet(Bytes(queue)) \ ToSet(Bytes(queue'))
<1>0. Typed /\ Exact /\ Windowed /\ Ordered
  BY DEF IInv
<1>1. /\ m \in Message /\ ToSet(b) = (offered + 1)..(offered + Len(b))
      /\ offered + Len(b) \in 0..MaxOffered /\ Len(b) \in Nat
      /\ ~IsOutput(m) => statuses < MaxStatuses
  <2>1. offered \in 0..MaxOffered /\ MaxOffered \in Nat /\ statuses \in Nat
    BY <1>0, Limits DEF Typed
  <2>2. /\ m \in Message /\ ToSet(m.bytes) = (offered + 1)..(offered + Len(m.bytes))
        /\ offered + Len(m.bytes) \in Nat /\ offered + Len(m.bytes) <= MaxOffered
        /\ ~IsOutput(m) => statuses < MaxStatuses
    BY <2>1, OffersShape
  <2>3. b \in Seq(Nat) /\ Len(b) \in Nat
    BY <2>2, MessageShape
  <2> QED BY <2>1, <2>2, <2>3
<1>2. LET room == Room(m)
      IN  /\ room.queue \in Seq(Message) /\ Len(room.queue) <= Len(queue)
          /\ room.queued = Held(room.queue) /\ room.queued <= queued
          /\ room.queue = queue \/ (ack /\ Bytes(room.queue) = <<>>)
          /\ room.queue = queue => room.queued = queued
  BY <1>0, <1>1, RoomShape
<1>3. /\ ~closed /\ offered' = offered + Len(b) /\ failed' = TRUE
      /\ statuses' = IF IsOutput(m) THEN statuses ELSE statuses + 1
      /\ lost' = lost \union ToSet(b) \union gone
      /\ UNCHANGED <<ack, inFlight, frames, closed, sending, client, browser, wire, early>>
      /\ \/ UNCHANGED <<queue, queued>>
         \/ queue' = Room(m).queue /\ queued' = Room(m).queued
  BY DEF Refuse, Offer
<1>4. /\ queue' \in Seq(Message) /\ Len(queue') <= Len(queue) /\ queued' = Held(queue')
      /\ queued' <= queued /\ (queue' = queue \/ Bytes(queue') = <<>>)
  <2>1. queue \in Seq(Message) /\ Len(queue) \in Nat /\ queued = Held(queue) /\ queued \in Nat
    BY <1>0, HeldConcat DEF Typed, Exact
  <2>2. CASE UNCHANGED <<queue, queued>>
    BY <2>1, <2>2
  <2>3. CASE queue' = Room(m).queue /\ queued' = Room(m).queued
    BY <1>2, <2>3
  <2> QED BY <1>3, <2>2, <2>3
<1> HIDE DEF b, gone
<1>5. Typed'
  <2>1. Len(queue') <= MaxMessages
    BY <1>0, <1>4, Limits DEF Typed
  <2>2. queued' \in 0..MaxBytes
    <3>1. queued' \in Nat /\ queued' <= queued
      BY <1>4, HeldConcat
    <3>2. queued \in 0..MaxBytes /\ MaxBytes \in Nat
      BY <1>0, Limits DEF Typed
    <3> QED BY <3>1, <3>2
  <2>3. offered' \in 0..MaxOffered /\ statuses' \in 0..MaxStatuses
    <3>1. statuses \in 0..MaxStatuses /\ MaxStatuses \in Nat
      BY <1>0, Limits DEF Typed
    <3> QED BY <1>1, <1>3, <3>1
  <2> QED BY <1>0, <1>3, <1>4, <2>1, <2>2, <2>3 DEF Typed
<1>6. Exact'
  BY <1>0, <1>3, <1>4 DEF Exact
<1>7. Windowed'
  BY <1>0, <1>3 DEF Windowed
<1>8. Ordered'
  <2>1. /\ wire \in Seq(Nat) /\ Bytes(queue) \in Seq(Nat) /\ Sorted(wire)
        /\ ToSet(wire) \union ToSet(Bytes(queue)) = (1..offered) \ lost
        /\ ToSet(wire) \intersect ToSet(Bytes(queue)) = {}
    BY <1>3, Parts
  <2>2. /\ offered \in Nat /\ lost \subseteq 1..offered /\ ToSet(wire) \subseteq 1..offered
        /\ Len(wire) \in Nat /\ Len(Bytes(queue)) \in Nat
        /\ Len(wire) + Len(Bytes(queue)) <= offered
    BY <1>0, <2>1 DEF Typed, Ordered
  <2>3. ToSet(Bytes(queue)) \subseteq 1..offered
    BY <2>1
  <2>4. (1..offered) \union ToSet(b) = 1..(offered + Len(b))
        /\ (1..offered) \intersect ToSet(b) = {}
    <3>1. (1..offered) \union ((offered + 1)..(offered + Len(b))) = 1..(offered + Len(b))
      BY <1>1, <2>2
    <3>2. (1..offered) \intersect ((offered + 1)..(offered + Len(b))) = {}
      BY <1>1, <2>2
    <3> QED BY <1>1, <3>1, <3>2
  <2>5. (1..(offered + Len(b))) \ lost' = (1..offered) \ (lost \union gone)
    BY <1>3, <2>4
  <2>6. lost' \subseteq 1..(offered + Len(b)) /\ ToSet(wire) \subseteq 1..(offered + Len(b))
    BY <1>3, <2>2, <2>3, <2>4 DEF gone
  <2>7. CASE queue' = queue
    <3>1. gone = {}
      BY <2>7 DEF gone
    <3>2. (1..(offered + Len(b))) \ lost' = (1..offered) \ lost
      BY <2>5, <3>1
    <3>3. Len(wire) + Len(Bytes(queue)) <= offered + Len(b)
      BY <1>1, <2>2
    <3> QED BY <1>0, <1>3, <2>6, <2>7, <3>2, <3>3 DEF Ordered
  <2>8. CASE Bytes(queue') = <<>>
    <3>1. gone = ToSet(Bytes(queue))
      BY <2>8 DEF gone, ToSet
    <3>2. ToSet(wire) = (1..offered) \ (lost \union gone)
      BY <2>1, <3>1
    <3>3. wire \o <<>> = wire
      BY <2>1
    <3>4. Len(wire) + Len(<<>>) <= offered + Len(b)
      BY <1>1, <2>2
    <3> QED BY <1>0, <1>3, <2>1, <2>5, <2>6, <2>8, <3>2, <3>3, <3>4 DEF Ordered
  <2> QED BY <1>4, <2>7, <2>8
<1> QED BY <1>5, <1>6, <1>7, <1>8 DEF IInv

\* A frame handed to the sender.
LEMMA NextMessageInv ==
  ASSUME IInv, _next_message
  PROVE  IInv'
<1> DEFINE n == Len(Frame)
           output == IsOutput(Head(queue))
<1>0. Typed /\ Exact /\ Windowed /\ Ordered
  BY DEF IInv
<1>1. /\ ~closed /\ queue # <<>> /\ ~_send_window_full_locked /\ queue' = Rest
      /\ sending' = TRUE
      /\ UNCHANGED <<ack, closed, failed, client, offered, statuses, lost, early>>
      /\ output => /\ queued' = queued - n /\ wire' = wire \o Frame
                   /\ browser' = Append(browser, n)
                   /\ inFlight' = IF ack THEN inFlight + n ELSE inFlight
                   /\ frames' = IF ack THEN Append(frames, n) ELSE frames
      /\ ~output => /\ queued' = queued - Size(Status)
                    /\ UNCHANGED <<wire, browser, inFlight, frames>>
  BY DEF _next_message
<1>2. /\ Frame \in Seq(Nat) /\ Rest \in Seq(Message) /\ Len(Rest) <= Len(queue)
      /\ Bytes(queue) = Frame \o Bytes(Rest)
      /\ output => n > 0 /\ Held(Rest) = Held(queue) - n /\ (ack => n <= Budget)
      /\ ~output => Frame = <<>> /\ Held(Rest) = Held(queue) - 1
  BY <1>0, <1>1, FrameShape
<1>3. n \in Nat
  BY <1>2
<1>4. output /\ ack => inFlight < Window /\ inFlight + n <= Window
  <2>1. Window \in Nat /\ inFlight \in Nat /\ Budget \in Nat
    BY <1>0, Limits, BudgetShape DEF Typed
  <2>2. output /\ ack => inFlight < Window
    BY <1>1, <2>1 DEF _send_window_full_locked
  <2>3. output /\ ack => Budget <= Window - inFlight
    BY <1>0, <2>2, BudgetShape
  <2> QED BY <1>2, <1>3, <2>1, <2>2, <2>3
<1>5. Size(Status) = 1
  BY DEF Size, IsOutput, Status
<1>6. /\ browser \in Seq(Nat \ {0}) /\ frames \in Seq(Nat \ {0})
      /\ browser \in Seq(Nat) /\ frames \in Seq(Nat)
  BY <1>0 DEF Typed
<1> HIDE DEF n, output
<1>7. /\ Total(Append(browser, n)) = Total(browser) + n
      /\ Total(Append(frames, n)) = Total(frames) + n
      /\ Total(browser) \in Nat /\ Total(frames) \in Nat
  BY <1>3, <1>6, TotalAppend, TotalConcat
<1>8. Held(Rest) \in Nat /\ Held(queue) \in Nat
  BY <1>0, <1>2, HeldConcat DEF Typed
<1>9. Exact'
  <2>1. queued' = Held(queue')
    BY <1>0, <1>1, <1>2, <1>3, <1>5, <1>8, SMTT(30) DEF Exact
  <2>2. inFlight' = Total(frames')
    BY <1>0, <1>1, <1>7 DEF Exact
  <2> QED BY <2>1, <2>2 DEF Exact
<1>10. Typed'
  <2>1. queue' \in Seq(Message) /\ Len(queue') <= MaxMessages
    <3>1. Len(queue) \in Nat /\ Len(Rest) \in Nat /\ Len(queue) <= MaxMessages
      BY <1>0, <1>2 DEF Typed
    <3>2. MaxMessages \in Nat
      BY Limits
    <3> QED BY <1>1, <1>2, <3>1, <3>2
  <2>2. queued' \in 0..MaxBytes
    <3>1. queued' = Held(Rest) /\ queued' <= queued
      BY <1>0, <1>1, <1>2, <1>3, <1>5, <1>8, SMTT(30) DEF Exact
    <3>2. queued \in 0..MaxBytes /\ MaxBytes \in Nat
      BY <1>0, Limits DEF Typed
    <3> QED BY <1>8, <3>1, <3>2
  <2>3. wire' \in Seq(Nat)
    <3>1. wire \in Seq(Nat)
      BY <1>0 DEF Typed
    <3>2. wire \o Frame \in Seq(Nat)
      BY <1>2, <3>1, ConcatProperties
    <3> QED BY <1>1, <3>1, <3>2
  <2>4. browser' \in Seq(Nat \ {0}) /\ frames' \in Seq(Nat \ {0})
    <3>1. CASE output
      <4>1. n \in Nat \ {0}
        BY <1>2, <1>3, <3>1
      <4>2. Append(browser, n) \in Seq(Nat \ {0}) /\ Append(frames, n) \in Seq(Nat \ {0})
        BY <1>6, <4>1
      <4> QED BY <1>1, <1>6, <3>1, <4>2
    <3>2. CASE ~output
      BY <1>1, <1>6, <3>2
    <3> QED BY <3>1, <3>2
  <2>5. inFlight' \in Nat
    BY <1>0, <1>1, <1>3, SMTT(30) DEF Typed
  <2> QED BY <1>0, <1>1, <2>1, <2>2, <2>3, <2>4, <2>5 DEF Typed
<1>11. Windowed'
  <2>1. CASE ~output
    BY <1>0, <1>1, <2>1 DEF Windowed
  <2>2. CASE output /\ ~ack
    <3>1. inFlight' <= Window /\ inFlight' <= Total(browser')
      <4>1. inFlight' = inFlight /\ Total(browser') = Total(browser) + n
        BY <1>1, <1>7, <2>2
      <4>2. inFlight <= Window /\ inFlight <= Total(browser) /\ inFlight \in Nat
        BY <1>0 DEF Windowed, Typed
      <4> QED BY <1>3, <1>7, <4>1, <4>2
    <3>2. frames' = <<>> /\ ~ack' /\ ~closed'
      BY <1>0, <1>1, <2>2 DEF Windowed
    <3>3. Ends(<<>>, browser')
      <4>1. browser' = Append(browser, n)
        BY <1>1, <2>2
      <4>2. Len(<<>>) <= Len(Append(browser, n)) /\ 1..Len(<<>>) = {}
        BY <1>3, <1>6
      <4> QED BY <4>1, <4>2 DEF Ends
    <3> QED BY <3>1, <3>2, <3>3 DEF Windowed
  <2>3. CASE output /\ ack
    <3>1. /\ inFlight' = inFlight + n /\ frames' = Append(frames, n)
          /\ browser' = Append(browser, n) /\ Total(browser') = Total(browser) + n
          /\ ack' /\ ~closed' /\ client' = client /\ early' = early
      BY <1>1, <1>7, <2>3
    <3>2. inFlight' <= Window /\ inFlight' <= Total(browser')
      BY <1>0, <1>3, <1>4, <1>7, <2>3, <3>1 DEF Windowed, Typed
    <3>3. client = "frames" => Ends(Append(frames, n), Append(browser, n))
      <4> SUFFICES ASSUME Ends(frames, browser)
                   PROVE  Ends(Append(frames, n), Append(browser, n))
        BY <1>0 DEF Windowed
      <4>1. /\ Len(Append(frames, n)) = Len(frames) + 1 /\ Len(frames) \in Nat
            /\ Len(Append(browser, n)) = Len(browser) + 1 /\ Len(browser) \in Nat
            /\ Len(frames) <= Len(browser)
        BY <1>6 DEF Ends
      <4>2. ASSUME NEW i \in 1..(Len(frames) + 1)
            PROVE  Append(frames, n)[i] = Append(browser, n)[Len(browser) - Len(frames) + i]
        <5>1. CASE i = Len(frames) + 1
          <6>1. Append(frames, n)[i] = n /\ Append(browser, n)[Len(browser) + 1] = n
            BY <1>6, <5>1
          <6>2. Len(browser) - Len(frames) + i = Len(browser) + 1
            BY <4>1, <5>1
          <6> QED BY <6>1, <6>2
        <5>2. CASE i # Len(frames) + 1
          <6>1. i \in 1..Len(frames) /\ Len(browser) - Len(frames) + i \in 1..Len(browser)
            BY <4>1, <5>2
          <6>2. Append(frames, n)[i] = frames[i]
            BY <1>6, <6>1
          <6>3. Append(browser, n)[Len(browser) - Len(frames) + i]
                  = browser[Len(browser) - Len(frames) + i]
            BY <1>6, <6>1
          <6> QED BY <6>1, <6>2, <6>3 DEF Ends
        <5> QED BY <5>1, <5>2
      <4> DEFINE f == Append(frames, n)
                 t == Append(browser, n)
      <4>3. Len(t) - Len(f) = Len(browser) - Len(frames) /\ Len(f) <= Len(t)
            /\ Len(f) = Len(frames) + 1
        BY <4>1
      <4>4. \A i \in 1..Len(f) : f[i] = t[Len(t) - Len(f) + i]
        <5> HIDE DEF f, t
        <5>1. ASSUME NEW i \in 1..Len(f) PROVE f[i] = t[Len(browser) - Len(frames) + i]
          BY <4>2, <4>3 DEF f, t
        <5> QED BY <4>3, <5>1
      <4> QED BY <4>3, <4>4 DEF Ends
    <3>4. client = "bytes" => /\ Total(browser') <= Window + early
                              /\ Total(browser') <= inFlight' + early
      <4> SUFFICES ASSUME client = "bytes"
                   PROVE  /\ Total(browser') <= Window + early
                          /\ Total(browser') <= inFlight' + early
        OBVIOUS
      <4>1. Total(browser) <= inFlight + early
        BY <1>0, <1>1, <2>3 DEF Windowed
      <4>2. inFlight \in Nat /\ early \in Nat /\ Window \in Nat
        BY <1>0, Limits DEF Typed
      <4> QED BY <1>3, <1>4, <1>7, <2>3, <3>1, <4>1, <4>2
    <3> QED BY <3>1, <3>2, <3>3, <3>4 DEF Windowed
  <2> QED BY <2>1, <2>2, <2>3
<1>12. Ordered'
  <2>1. wire \in Seq(Nat) /\ Bytes(Rest) \in Seq(Nat)
    BY <1>0, <1>2, BytesConcat DEF Typed
  <2>2. wire' = wire \o Frame
    <3>1. CASE output
      BY <1>1, <3>1
    <3>2. CASE ~output
      <4>1. wire \o <<>> = wire
        BY <2>1
      <4> QED BY <1>1, <1>2, <3>2, <4>1 DEF output
    <3> QED BY <3>1, <3>2
  <2>3. wire' \o Bytes(queue') = wire \o Bytes(queue)
    <3>1. (wire \o Frame) \o Bytes(Rest) = wire \o (Frame \o Bytes(Rest))
      BY <1>2, <2>1, Associative
    <3> QED BY <1>1, <1>2, <2>2, <3>1
  <2>4. Len(wire') = Len(wire) + n /\ Len(Bytes(queue)) = n + Len(Bytes(queue'))
        /\ ToSet(wire') = ToSet(wire) \union ToSet(Frame)
        /\ ToSet(Bytes(queue)) = ToSet(Frame) \union ToSet(Bytes(queue'))
    BY <1>1, <1>2, <2>1, <2>2, ToSetConcat DEF n
  <2>5. Len(wire) \in Nat /\ Len(Bytes(queue')) \in Nat
    BY <1>1, <2>1
  <2>6. ToSet(wire') \subseteq 1..offered
    <3>1. ToSet(wire) \union ToSet(Bytes(queue)) = (1..offered) \ lost
      BY <1>1, Parts
    <3> QED BY <2>4, <3>1
  <2>7. Len(wire') + Len(Bytes(queue')) <= offered'
    BY <1>0, <1>1, <1>3, <2>4, <2>5 DEF Ordered, Typed
  <2>8. Total(browser') <= Len(wire')
    <3>1. Total(browser) <= Len(wire)
      BY <1>0 DEF Ordered
    <3>2. CASE output
      <4>1. Total(browser') = Total(browser) + n
        BY <1>1, <1>7, <3>2
      <4> QED BY <1>3, <1>7, <2>4, <2>5, <3>1, <4>1
    <3>3. CASE ~output
      BY <1>1, <3>1, <3>3
    <3> QED BY <3>2, <3>3
  <2> QED BY <1>0, <1>1, <2>3, <2>6, <2>7, <2>8 DEF Ordered
<1> QED BY <1>9, <1>10, <1>11, <1>12 DEF IInv

\* The empty sequence ends every other.
LEMMA EmptyEnds == \A t \in Seq(Nat) : Ends(<<>>, t)
<1>1. Len(<<>>) = 0 /\ 1..0 = {} /\ \A t \in Seq(Nat) : Len(t) \in Nat
  OBVIOUS
<1> QED BY <1>1 DEF Ends

\* The writer closes, because a send failed or because it is told to.
LEMMA ClosedInv ==
  ASSUME IInv, SendFails \/ close
  PROVE  IInv'
<1>0. Typed /\ Exact /\ Windowed /\ Ordered
  BY DEF IInv
<1>1. /\ closed' = TRUE /\ queue' = <<>> /\ queued' = 0 /\ inFlight' = 0 /\ frames' = <<>>
      /\ sending' = FALSE /\ failed' \in BOOLEAN /\ (failed => failed')
      /\ UNCHANGED <<ack, client, browser, offered, statuses, wire, lost, early>>
  <2>1. failed \in BOOLEAN
    BY <1>0 DEF Typed
  <2>2. CASE SendFails
    BY <2>1, <2>2 DEF SendFails, Closed
  <2>3. CASE close
    <3>1. Closed /\ failed' = failed
      BY <2>3 DEF close
    <3> QED BY <2>1, <3>1 DEF Closed
  <2> QED BY <2>2, <2>3
<1>2. Total(<<>>) = 0 /\ Bytes(<<>>) = <<>> /\ Held(<<>>) = 0 /\ Len(<<>>) = 0
  BY TotalAppend, BytesAppend, HeldConcat
<1>3. browser \in Seq(Nat) /\ Total(browser) \in Nat
  <2>1. browser \in Seq(Nat)
    BY <1>0 DEF Typed
  <2> QED BY <2>1, TotalConcat
<1>4. Typed'
  <2>1. <<>> \in Seq(Message) /\ <<>> \in Seq(Nat \ {0}) /\ 0 <= MaxMessages
        /\ 0 \in 0..MaxBytes
    BY Limits
  <2>2. queue' \in Seq(Message) /\ Len(queue') <= MaxMessages
    BY <1>1, <1>2, <2>1
  <2> QED BY <1>0, <1>1, <2>1, <2>2 DEF Typed
<1>5. Exact'
  BY <1>1, <1>2 DEF Exact
<1>6. Windowed'
  <2>1. Ends(<<>>, browser) /\ 0 <= Window
    BY <1>3, EmptyEnds, Limits
  <2> QED BY <1>0, <1>1, <1>3, <2>1 DEF Windowed
<1>7. Ordered'
  <2>1. wire \in Seq(Nat) /\ Bytes(queue) \in Seq(Nat) /\ offered \in Nat
    BY <1>0, BytesConcat DEF Typed
  <2>2. Len(wire) + Len(Bytes(queue')) <= offered
    <3>1. Len(wire) + Len(Bytes(queue)) <= offered /\ Len(wire) \in Nat
          /\ Len(Bytes(queue)) \in Nat
      BY <1>0, <2>1 DEF Ordered
    <3>2. Len(Bytes(queue')) = 0
      BY <1>1, <1>2
    <3> QED BY <2>1, <3>1, <3>2
  <2> QED BY <1>0, <1>1, <2>2 DEF Ordered
<1> QED BY <1>4, <1>5, <1>6, <1>7 DEF IInv

\* The first acknowledgement.
LEMMA EnableAcksInv ==
  ASSUME IInv, EnableAcks
  PROVE  IInv'
<1>0. Typed /\ Exact /\ Windowed /\ Ordered
  BY DEF IInv
<1>1. /\ ack' = TRUE /\ inFlight' = 0 /\ frames' = <<>> /\ early' = Total(browser)
      /\ UNCHANGED <<queue, queued, closed, sending, failed, client, browser, offered,
                     statuses, wire, lost>>
  BY DEF EnableAcks
<1>2. browser \in Seq(Nat) /\ Total(browser) \in Nat
  <2>1. browser \in Seq(Nat)
    BY <1>0 DEF Typed
  <2> QED BY <2>1, TotalConcat
<1>3. Total(browser) \in 0..MaxOffered
  <2>1. wire \in Seq(Nat) /\ Bytes(queue) \in Seq(Nat) /\ offered \in 0..MaxOffered
        /\ MaxOffered \in Nat
    BY <1>0, BytesConcat, Limits DEF Typed
  <2>2. Len(wire) \in Nat /\ Len(Bytes(queue)) \in Nat
    BY <2>1
  <2>3. Len(wire) + Len(Bytes(queue)) <= offered /\ Total(browser) <= Len(wire)
    BY <1>0 DEF Ordered
  <2> QED BY <1>2, <2>1, <2>2, <2>3
<1>4. Typed'
  <2>1. <<>> \in Seq(Nat \ {0})
    OBVIOUS
  <2> QED BY <1>0, <1>1, <1>3, <2>1 DEF Typed
<1>5. Exact'
  BY <1>0, <1>1, TotalAppend DEF Exact
<1>6. Windowed'
  <2>1. Ends(<<>>, browser) /\ Window \in Nat
    BY <1>2, EmptyEnds, Limits
  <2>2. Total(browser) <= Window + Total(browser) /\ Total(browser) <= 0 + Total(browser)
    BY <1>2, <2>1
  <2> QED BY <1>0, <1>1, <1>2, <2>1, <2>2 DEF Windowed
<1>7. Ordered'
  BY <1>0, <1>1 DEF Ordered
<1> QED BY <1>4, <1>5, <1>6, <1>7 DEF IInv

\* The first number of a sequence is taken off its sum with it.
LEMMA TotalTail ==
  ASSUME NEW s \in Seq(Nat \ {0}), s # <<>>
  PROVE  /\ Head(s) \in Nat \ {0} /\ Tail(s) \in Seq(Nat \ {0})
         /\ Total(s) = Head(s) + Total(Tail(s)) /\ Total(Tail(s)) \in Nat
<1>1. /\ s = <<Head(s)>> \o Tail(s) /\ Head(s) \in Nat \ {0} /\ Tail(s) \in Seq(Nat \ {0})
      /\ <<Head(s)>> \in Seq(Nat) /\ Tail(s) \in Seq(Nat)
  OBVIOUS
<1>2. /\ Total(<<Head(s)>> \o Tail(s)) = Total(<<Head(s)>>) + Total(Tail(s))
      /\ Total(<<Head(s)>>) = Head(s) /\ Total(Tail(s)) \in Nat
  BY <1>1, TotalConcat
<1> QED BY <1>1, <1>2

\* A frame acknowledged as one.
LEMMA AckFrameInv ==
  ASSUME IInv, AckFrame
  PROVE  IInv'
<1>0. Typed /\ Exact /\ Windowed /\ Ordered
  BY DEF IInv
<1>1. /\ ack /\ client = "frames" /\ browser # <<>> /\ browser' = Tail(browser)
      /\ UNCHANGED <<queue, queued, ack, closed, sending, failed, client, offered, statuses,
                     wire, lost, early>>
      /\ frames # <<>> => /\ inFlight' = Max({0, inFlight - Head(frames)})
                          /\ frames' = Tail(frames)
      /\ frames = <<>> => inFlight' = 0 /\ frames' = <<>>
  BY DEF AckFrame
<1>2. browser \in Seq(Nat \ {0}) /\ frames \in Seq(Nat \ {0}) /\ inFlight \in Nat
  BY <1>0 DEF Typed
<1>3. /\ Head(browser) \in Nat \ {0} /\ browser' \in Seq(Nat \ {0})
      /\ Total(browser) = Head(browser) + Total(browser') /\ Total(browser') \in Nat
  BY <1>1, <1>2, TotalTail
<1>4. frames' \in Seq(Nat \ {0}) /\ inFlight' = Total(frames') /\ inFlight' \in 0..inFlight
  <2>1. CASE frames = <<>>
    <3>1. Total(<<>>) = 0 /\ <<>> \in Seq(Nat \ {0}) /\ 0 \in 0..inFlight
      BY <1>2, TotalAppend
    <3> QED BY <1>1, <2>1, <3>1
  <2>2. CASE frames # <<>>
    <3>1. /\ Head(frames) \in Nat \ {0} /\ Tail(frames) \in Seq(Nat \ {0})
          /\ Total(frames) = Head(frames) + Total(Tail(frames)) /\ Total(Tail(frames)) \in Nat
      BY <1>2, <2>2, TotalTail
    <3>2. inFlight - Head(frames) = Total(Tail(frames))
      BY <1>0, <3>1 DEF Exact
    <3>3. Max({0, inFlight - Head(frames)}) = Total(Tail(frames))
      BY <3>1, <3>2, MaxOfTwo
    <3>4. Total(Tail(frames)) <= inFlight
      BY <1>2, <3>1, <3>2
    <3>5. frames' = Tail(frames) /\ inFlight' = Total(Tail(frames))
      BY <1>1, <2>2, <3>3
    <3>6. Total(Tail(frames)) \in 0..inFlight
      BY <1>2, <3>1, <3>4
    <3> QED BY <3>1, <3>5, <3>6
  <2> QED BY <2>1, <2>2
<1>5. Ends(frames', browser')
  <2>1. Ends(frames, browser)
    BY <1>0, <1>1 DEF Windowed
  <2>2. CASE frames = <<>>
    <3>1. browser' \in Seq(Nat)
      BY <1>3
    <3> QED BY <1>1, <2>2, <3>1, EmptyEnds
  <2>3. CASE frames # <<>>
    <3> DEFINE f == Tail(frames)
               t == Tail(browser)
    <3>1. /\ Len(f) = Len(frames) - 1 /\ Len(frames) \in Nat \ {0}
          /\ Len(t) = Len(browser) - 1 /\ Len(browser) \in Nat \ {0}
          /\ \A i \in 1..(Len(frames) - 1) : f[i] = frames[i + 1]
          /\ \A i \in 1..(Len(browser) - 1) : t[i] = browser[i + 1]
      BY <1>1, <1>2, <2>3
    <3>2. frames' = f /\ browser' = t
      BY <1>1, <2>3
    <3> HIDE DEF f, t
    <3>3. Len(frames) <= Len(browser)
      BY <2>1 DEF Ends
    <3>4. ASSUME NEW i \in 1..Len(f) PROVE f[i] = t[Len(t) - Len(f) + i]
      <4> DEFINE j == Len(t) - Len(f) + i
      <4>1. i + 1 \in 1..Len(frames) /\ i \in 1..(Len(frames) - 1)
            /\ j \in 1..(Len(browser) - 1)
            /\ j + 1 = Len(browser) - Len(frames) + (i + 1)
        BY <3>1, <3>3
      <4> HIDE DEF j
      <4>2. frames[i + 1] = browser[j + 1]
        BY <2>1, <4>1 DEF Ends
      <4>3. f[i] = frames[i + 1] /\ t[j] = browser[j + 1]
        BY <3>1, <4>1
      <4> QED BY <4>2, <4>3 DEF j
    <3>5. Len(f) <= Len(t)
      BY <3>1, <3>3
    <3> QED BY <3>2, <3>4, <3>5 DEF Ends
  <2> QED BY <2>2, <2>3
<1>6. inFlight' <= Total(browser')
  <2>1. frames' \in Seq(Nat) /\ browser' \in Seq(Nat)
    BY <1>3, <1>4
  <2> QED BY <1>4, <1>5, <2>1, EndsTotal
<1>7. Typed'
  BY <1>0, <1>1, <1>2, <1>3, <1>4 DEF Typed
<1>8. Exact'
  BY <1>0, <1>1, <1>4 DEF Exact
<1>9. Windowed'
  <2>1. inFlight' <= Window
    <3>1. inFlight <= Window /\ Window \in Nat
      BY <1>0, Limits DEF Windowed
    <3> QED BY <1>2, <1>4, <3>1
  <2>2. closed' => frames' = <<>> /\ queue' = <<>>
    BY <1>0, <1>1 DEF Windowed
  <2> QED BY <1>1, <1>5, <1>6, <2>1, <2>2 DEF Windowed
<1>10. Ordered'
  <2>1. Total(browser') <= Len(wire)
    <3>1. Total(browser) <= Len(wire) /\ Len(wire) \in Nat
      BY <1>0 DEF Ordered, Typed
    <3> QED BY <1>3, <3>1
  <2> QED BY <1>0, <1>1, <2>1 DEF Ordered
<1> QED BY <1>7, <1>8, <1>9, <1>10 DEF IInv

\* Bytes acknowledged by their number.
LEMMA AckBytesInv ==
  ASSUME IInv, NEW n \in 1..MaxOffered, AckBytes(n)
  PROVE  IInv'
<1>0. Typed /\ Exact /\ Windowed /\ Ordered
  BY DEF IInv
<1>1. /\ ack /\ client = "bytes" /\ n <= Total(browser)
      /\ browser' = Released(browser, n) /\ inFlight' = AckedInFlight(n)
      /\ frames' = IF inFlight' = 0 THEN <<>> ELSE Released(frames, n)
      /\ UNCHANGED <<queue, queued, ack, closed, sending, failed, client, offered, statuses,
                     wire, lost, early>>
  BY DEF AckBytes
<1>2. /\ browser \in Seq(Nat \ {0}) /\ frames \in Seq(Nat \ {0}) /\ inFlight \in Nat
      /\ inFlight = Total(frames) /\ n \in Nat \ {0}
  <2>1. n \in Nat \ {0}
    BY Limits
  <2> QED BY <1>0, <2>1 DEF Typed, Exact
<1>3. browser' \in Seq(Nat \ {0}) /\ Total(browser') = Total(browser) - n
  BY <1>1, <1>2, ReleasedShape
<1>4. Total(browser) \in Nat /\ Total(browser') \in Nat
  <2>1. browser \in Seq(Nat) /\ browser' \in Seq(Nat)
    BY <1>2, <1>3
  <2> QED BY <2>1, TotalConcat
<1>5. inFlight' = IF inFlight <= n THEN 0 ELSE inFlight - n
  <2>1. Max({0, inFlight - n}) = IF 0 >= inFlight - n THEN 0 ELSE inFlight - n
    BY <1>2, MaxOfTwo, 0 \in Int, inFlight - n \in Int
  <2> QED BY <1>1, <1>2, <2>1 DEF AckedInFlight
<1>6. frames' \in Seq(Nat \ {0}) /\ inFlight' = Total(frames')
  <2>1. CASE inFlight <= n
    <3>1. inFlight' = 0 /\ frames' = <<>>
      BY <1>1, <1>5, <2>1
    <3>2. Total(<<>>) = 0 /\ <<>> \in Seq(Nat \ {0})
      BY TotalAppend
    <3> QED BY <3>1, <3>2
  <2>2. CASE ~(inFlight <= n)
    <3>1. inFlight' = inFlight - n /\ inFlight' # 0 /\ n <= inFlight
      BY <1>2, <1>5, <2>2
    <3>2. frames' = Released(frames, n)
      BY <1>1, <3>1
    <3> QED BY <1>2, <3>1, <3>2, ReleasedShape
  <2> QED BY <2>1, <2>2
<1>7. inFlight' \in 0..inFlight
  BY <1>2, <1>5
<1>8. Typed'
  BY <1>0, <1>1, <1>2, <1>3, <1>6, <1>7 DEF Typed
<1>9. Exact'
  BY <1>0, <1>1, <1>6 DEF Exact
<1>10. Windowed'
  <2>1. inFlight' <= Window
    <3>1. inFlight <= Window /\ Window \in Nat
      BY <1>0, Limits DEF Windowed
    <3> QED BY <1>2, <1>7, <3>1
  <2>2. inFlight' <= Total(browser')
    <3>1. inFlight <= Total(browser)
      BY <1>0 DEF Windowed
    <3> QED BY <1>1, <1>2, <1>3, <1>4, <1>5, <3>1
  <2>3. closed' => frames' = <<>> /\ queue' = <<>>
    <3> SUFFICES ASSUME closed PROVE frames' = <<>> /\ queue' = <<>>
      BY <1>1
    <3>1. inFlight = 0
      BY <1>0, <1>2, TotalAppend DEF Windowed
    <3>2. inFlight' = 0
      BY <1>2, <1>5, <3>1
    <3> QED BY <1>0, <1>1, <3>2 DEF Windowed
  <2>4. /\ Total(browser') <= Window + early
        /\ ~closed => Total(browser') <= inFlight' + early
    <3>1. /\ Total(browser) <= Window + early
          /\ ~closed => Total(browser) <= inFlight + early
      BY <1>0, <1>1 DEF Windowed
    <3>2. Window \in Nat /\ early \in Nat
      BY <1>0, Limits DEF Typed
    <3> QED BY <1>2, <1>3, <1>4, <1>5, <3>1, <3>2
  <2> QED BY <1>1, <2>1, <2>2, <2>3, <2>4 DEF Windowed
<1>11. Ordered'
  <2>1. Total(browser') <= Len(wire)
    <3>1. Total(browser) <= Len(wire) /\ Len(wire) \in Nat
      BY <1>0 DEF Ordered, Typed
    <3> QED BY <1>2, <1>3, <1>4, <3>1
  <2> QED BY <1>0, <1>1, <2>1 DEF Ordered
<1> QED BY <1>8, <1>9, <1>10, <1>11 DEF IInv

\* Every step.
LEMMA NextInv == IInv /\ [Next]_vars => IInv'
<1> SUFFICES ASSUME IInv, [Next]_vars PROVE IInv'
  OBVIOUS
<1>1. CASE \E m \in Offers : Accept(m) \/ Refuse(m)
  BY <1>1, AcceptInv, RefuseInv
<1>2. CASE _next_message
  BY <1>2, NextMessageInv
<1>3. CASE SendDone
  <2>1. /\ sending' = FALSE
        /\ UNCHANGED <<queue, queued, ack, inFlight, frames, closed, failed, client, browser,
                       offered, statuses, wire, lost, early>>
    BY <1>3 DEF SendDone
  <2> QED BY <2>1 DEF IInv, Typed, Exact, Windowed, Ordered
<1>4. CASE SendFails \/ close
  BY <1>4, ClosedInv
<1>5. CASE EnableAcks
  BY <1>5, EnableAcksInv
<1>6. CASE Acks
  BY <1>6, AckFrameInv, AckBytesInv DEF Acks
<1>7. CASE UNCHANGED vars
  BY <1>7 DEF vars, IInv, Typed, Exact, Windowed, Ordered
<1> QED BY <1>1, <1>2, <1>3, <1>4, <1>5, <1>6, <1>7 DEF Next

-----------------------------------------------------------------------------
(* The theorems *)

\* The invariant holds in every state of every behaviour.
LEMMA InductiveInvariant == Spec => []IInv
BY InitInv, NextInv, PTL DEF Spec

\* The writer's variables keep their types, and the queue its two limits: never more than
\* MaxMessages payloads, never more than MaxBytes bytes (enqueue).
THEOREM TypeSafety == Spec => []TypeOK
<1>1. IInv => TypeOK
  <2> SUFFICES ASSUME IInv PROVE TypeOK
    OBVIOUS
  <2>1. Typed /\ Ordered
    BY DEF IInv
  <2>2. ASSUME NEW i \in DOMAIN queue
        PROVE  queue[i] = Status \/ queue[i] = Output(queue[i].bytes)
    <3>1. queue[i] \in Message
      BY <2>1 DEF Typed
    <3> QED BY <3>1, MessageShape
  <2>3. ToSet(frames) \subseteq Nat \ {0} /\ ToSet(browser) \subseteq Nat \ {0}
    BY <2>1 DEF Typed, ToSet
  <2>4. ToSet(wire) \union lost \subseteq 1..offered
    BY <2>1 DEF Ordered
  <2> QED BY <2>1, <2>2, <2>3, <2>4 DEF Typed, TypeOK
<1> QED BY <1>1, InductiveInvariant, PTL

\* The two byte counters, kept by increments, equal the bytes they stand for: those of
\* the queue, and those of the frames in flight.
THEOREM CountersNeverDrift == Spec => []CountersExact
<1>1. IInv => CountersExact
  BY DEF IInv, Exact, Held, CountersExact
<1> QED BY <1>1, InductiveInvariant, PTL

\* A tab that acknowledges bytes never has more than a window of them left to draw, but
\* for those it was sent before; and the writer counts as in flight no byte that the tab
\* does not still have to acknowledge, so that no wait for the window is in vain.
THEOREM WindowKept == Spec => []UnackedBounded
<1>1. IInv => UnackedBounded
  BY DEF IInv, Windowed, UnackedBounded
<1> QED BY <1>1, InductiveInvariant, PTL

\* Through coalescing, splitting, joining and shedding, every byte of the terminal is
\* handed over or queued once and in order, but for those shed for a tab that
\* acknowledges or refused by a writer that has failed.
THEOREM OutputKept == Spec => []NothingLostSilently
<1>1. IInv => NothingLostSilently
  BY DEF IInv, Ordered, Sorted, NothingLostSilently
<1> QED BY <1>1, InductiveInvariant, PTL

-----------------------------------------------------------------------------
(* The refinement of OutputStream.                                         *)

\* A closed writer sends nothing any more.
ClosedIsIdle == sending \in BOOLEAN /\ (closed => ~sending)

\* It holds in every state.
LEMMA ClosedStaysIdle == Spec => []ClosedIsIdle
<1>1. Init => ClosedIsIdle
  BY DEF Init, ClosedIsIdle
<1>2. ClosedIsIdle /\ [Next]_vars => ClosedIsIdle'
  <2> SUFFICES ASSUME ClosedIsIdle, [Next]_vars PROVE ClosedIsIdle'
    OBVIOUS
  <2>1. ASSUME NEW m \in Offers, Accept(m) PROVE ClosedIsIdle'
    BY <2>1 DEF Accept, ClosedIsIdle
  <2>2. ASSUME NEW m \in Offers, Refuse(m) PROVE ClosedIsIdle'
    BY <2>2 DEF Refuse, ClosedIsIdle
  <2>3. CASE _next_message
    BY <2>3 DEF _next_message, ClosedIsIdle
  <2>4. CASE SendDone \/ SendFails \/ close
    BY <2>4 DEF SendDone, SendFails, close, Closed, ClosedIsIdle
  <2>5. CASE EnableAcks \/ Acks \/ UNCHANGED vars
    BY <2>5 DEF EnableAcks, Acks, AckFrame, AckBytes, vars, ClosedIsIdle
  <2> QED BY <2>1, <2>2, <2>3, <2>4, <2>5 DEF Next
<1> QED BY <1>1, <1>2, PTL DEF Spec

\* The payloads that may be offered bring the next bytes of the terminal.
LEMMA OffersNew ==
  ASSUME Typed, NEW m \in Offers
  PROVE  m.bytes = Stream!New(Len(m.bytes)) /\ Len(m.bytes) \in 0..MaxOffered
<1>1. offered \in Nat /\ MaxOffered \in Nat /\ Chunks \subseteq Nat \ {0}
  BY Limits DEF Typed
<1>2. CASE m = Status
  <2>1. m.bytes = <<>> /\ Len(<<>>) = 0
    BY <1>2, MessageShape
  <2>2. <<>> = Stream!New(0)
    BY DEF Stream!New
  <2> QED BY <1>1, <2>1, <2>2
<1>3. ASSUME NEW n \in Chunks, offered + n <= MaxOffered,
             m = Output([i \in 1..n |-> offered + i])
      PROVE  m.bytes = Stream!New(Len(m.bytes)) /\ Len(m.bytes) \in 0..MaxOffered
  <2>1. n \in Nat /\ n <= MaxOffered
    BY <1>1, <1>3
  <2>2. m.bytes = [i \in 1..n |-> offered + i]
    BY <1>3 DEF Output
  <2>3. Len(m.bytes) = n
    BY <2>1, <2>2
  <2> QED BY <1>1, <2>1, <2>2, <2>3 DEF Stream!New
<1> QED BY <1>2, <1>3 DEF Offers

\* What is accepted is kept, alone if old output made way for it.
LEMMA AcceptStream ==
  ASSUME IInv, NEW m \in Offers, Accept(m)
  PROVE  Stream!Next
<1> DEFINE q == Room(m).queue
<1>0. Typed /\ Exact /\ m \in Message
  <2>1. Typed /\ Exact /\ offered \in Nat /\ statuses \in Nat
    BY Limits DEF IInv, Typed
  <2> QED BY <2>1, OffersShape
<1>1. q \in Seq(Message) /\ (q = queue \/ (ack /\ Bytes(q) = <<>>))
  BY <1>0, RoomShape
<1>2. /\ ~closed /\ queue' = Joined(q, m) /\ offered' = offered + Len(m.bytes)
      /\ UNCHANGED <<ack, closed, failed, wire>>
  BY DEF Accept, Offer
<1> HIDE DEF q
<1>3. Bytes(queue') = Bytes(q) \o m.bytes
  BY <1>0, <1>1, <1>2, JoinedShape
<1>4. m.bytes = Stream!New(Len(m.bytes)) /\ Len(m.bytes) \in 0..MaxOffered
  BY <1>0, OffersNew
<1>5. m.bytes \in Seq(Nat)
  BY <1>0, MessageShape
<1>6. Bytes(q) = <<>> => Bytes(queue') = m.bytes
  BY <1>3, <1>5
<1>7. Bytes(queue') = Bytes(queue) \o m.bytes \/ (ack /\ Bytes(queue') = m.bytes)
  BY <1>1, <1>3, <1>6
<1>8. Stream!Produce(Len(m.bytes))
  BY <1>2, <1>4, <1>7 DEF Stream!Produce
<1> QED BY <1>4, <1>8 DEF Stream!Next

\* What is refused is not kept, and the writer has failed.
LEMMA RefuseStream ==
  ASSUME IInv, NEW m \in Offers, Refuse(m)
  PROVE  Stream!Next
<1>0. Typed /\ Exact /\ m \in Message
  <2>1. Typed /\ Exact /\ offered \in Nat /\ statuses \in Nat
    BY Limits DEF IInv, Typed
  <2> QED BY <2>1, OffersShape
<1>1. Room(m).queue = queue \/ (ack /\ Bytes(Room(m).queue) = <<>>)
  BY <1>0, RoomShape
<1>2. /\ ~closed /\ failed' = TRUE /\ offered' = offered + Len(m.bytes)
      /\ UNCHANGED <<ack, closed, wire>>
      /\ queue' = queue \/ queue' = Room(m).queue
  BY DEF Refuse, Offer
<1>3. Len(m.bytes) \in 0..MaxOffered
  BY <1>0, OffersNew
<1>4. Bytes(queue') = Bytes(queue) \/ (ack /\ Bytes(queue') = <<>>)
  BY <1>1, <1>2
<1>5. Stream!Produce(Len(m.bytes))
  BY <1>2, <1>4 DEF Stream!Produce
<1> QED BY <1>3, <1>5 DEF Stream!Next

\* A frame is made of the oldest bytes; a status delivers none.
LEMMA MessageStream ==
  ASSUME IInv, _next_message
  PROVE  Stream!Next \/ UNCHANGED Stream!vars
<1>0. Typed
  BY DEF IInv
<1>1. /\ ~closed /\ queue # <<>> /\ queue' = Rest
      /\ wire' = IF IsOutput(Head(queue)) THEN wire \o Frame ELSE wire
      /\ UNCHANGED <<ack, closed, failed, offered>>
  BY DEF _next_message
<1>2. /\ Frame \in Seq(Nat) /\ Rest \in Seq(Message) /\ Bytes(queue) = Frame \o Bytes(Rest)
      /\ IsOutput(Head(queue)) => Len(Frame) > 0
      /\ ~IsOutput(Head(queue)) => Frame = <<>>
  BY <1>0, <1>1, FrameShape
<1> DEFINE k == Len(Frame)
           r == Bytes(Rest)
<1>3. r \in Seq(Nat) /\ Len(r) \in Nat /\ k \in Nat
  BY <1>2, BytesConcat
<1>4. Len(Bytes(queue)) = k + Len(r)
  BY <1>2, <1>3
<1>5. CASE IsOutput(Head(queue))
  <2>1. SubSeq(Frame \o r, 1, k) = Frame /\ SubSeq(Frame \o r, k + 1, k + Len(r)) = r
    BY <1>2, <1>3, Cut
  <2>2. k \in 1..Len(Bytes(queue))
    BY <1>2, <1>3, <1>4, <1>5
  <2>3. Stream!Deliver(k)
    BY <1>1, <1>2, <1>4, <1>5, <2>1 DEF Stream!Deliver
  <2> QED BY <2>2, <2>3 DEF Stream!Next
<1>6. CASE ~IsOutput(Head(queue))
  <2>1. Bytes(queue') = Bytes(queue)
    BY <1>1, <1>2, <1>3, <1>6
  <2> QED BY <1>1, <1>6, <2>1 DEF Stream!vars
<1> QED BY <1>5, <1>6

\* Every step of the writer is one of the stream, or leaves it alone.
LEMMA StepStream == IInv /\ ClosedIsIdle /\ [Next]_vars => [Stream!Next]_(Stream!vars)
<1> SUFFICES ASSUME IInv, ClosedIsIdle, [Next]_vars
             PROVE  Stream!Next \/ UNCHANGED Stream!vars
  OBVIOUS
<1>1. CASE \E m \in Offers : Accept(m) \/ Refuse(m)
  BY <1>1, AcceptStream, RefuseStream
<1>2. CASE _next_message
  BY <1>2, MessageStream
<1>3. CASE SendFails \/ close
  <2>1. /\ ~closed /\ closed' = TRUE /\ queue' = <<>> /\ failed' \in {failed, TRUE}
        /\ UNCHANGED <<ack, offered, wire>>
    BY <1>3 DEF SendFails, close, Closed, ClosedIsIdle
  <2>2. Bytes(<<>>) = <<>>
    BY BytesAppend
  <2> QED BY <2>1, <2>2 DEF Stream!Next, Stream!Close
<1>4. CASE EnableAcks
  <2>1. ~ack /\ ack' = TRUE /\ UNCHANGED <<queue, closed, failed, offered, wire>>
    BY <1>4 DEF EnableAcks
  <2> QED BY <2>1 DEF Stream!Next, Stream!BeginRepaints
<1>5. CASE SendDone \/ Acks \/ UNCHANGED vars
  <2>1. UNCHANGED <<queue, ack, closed, failed, offered, wire>>
    BY <1>5 DEF SendDone, Acks, AckFrame, AckBytes, vars
  <2> QED BY <2>1 DEF Stream!vars
<1> QED BY <1>1, <1>2, <1>3, <1>4, <1>5 DEF Next

\* Whatever it queues, splits, joins and sheds, the writer implements the stream of bytes
\* that it promises to its tab.
THEOREM WriterImplementsStream == Spec => ImplementsStream
<1>1. Init => Stream!Init
  <2>1. Bytes(<<>>) = <<>>
    BY BytesAppend
  <2> QED BY <2>1 DEF Init, Stream!Init
<1> QED BY <1>1, InductiveInvariant, ClosedStaysIdle, StepStream, PTL
        DEF ImplementsStream, Stream!Spec, Spec
=============================================================================
