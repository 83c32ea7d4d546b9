------------------------ MODULE ChannelsStreamProofs ------------------------
(***************************************************************************)
(* The changes of an end that keep Streaming, the inductive invariant      *)
(* behind IsByteStreams of Channels, and that are steps of ByteStreams.    *)
(*                                                                         *)
(* StreamOf follows the bytes of a conversation from writer to reader: the *)
(* packets under way lead from what has arrived to what was written, and   *)
(* what says that a stream ends comes after all of it.                     *)
(***************************************************************************)
EXTENDS ChannelsProofs

-----------------------------------------------------------------------------
(* Packets that lead from one byte to another.                             *)

LEMMA BytesNat ==
  ASSUME NEW p \in Packet, NEW i
  PROVE  /\ Bytes(p, i) \in Nat
         /\ ~ IsData(p, i) => Bytes(p, i) = 0
         /\ IsData(p, i) => Bytes(p, i) = p.len
  BY DEF Bytes, Packet

\* Packets that carry nothing of the conversation are added.
LEMMA LeadsOn ==
  ASSUME NEW o \in Seq(Packet), NEW r \in Seq(Packet), NEW i,
         NEW a \in Nat, NEW b \in Nat, Leads(o, i, a, b),
         Len(r) >= Len(o), \A j \in 1 .. Len(o) : r[j] = o[j],
         \A j \in 1 .. Len(r) : j > Len(o) /\ r[j].id = i =>
            r[j].t # "Data" /\ r[j].at = b
  PROVE  Leads(r, i, a, b)
<1>1. PICK f \in [0 .. Len(o) -> 0 .. b] :
        /\ f[0] = a /\ f[Len(o)] = b
        /\ \A j \in 1 .. Len(o) :
             /\ f[j] = f[j - 1] + Bytes(o[j], i)
             /\ o[j].id = i => o[j].at = f[j - 1]
  BY Zenon DEF Leads
<1> DEFINE g == [j \in 0 .. Len(r) |-> IF j <= Len(o) THEN f[j] ELSE b]
<1>2. Len(o) \in Nat /\ Len(r) \in Nat
  OBVIOUS
<1>3. g \in [0 .. Len(r) -> 0 .. b] /\ g[0] = a /\ g[Len(r)] = b
  BY <1>1, <1>2
<1>4. ASSUME NEW j \in 1 .. Len(r)
      PROVE  /\ g[j] = g[j - 1] + Bytes(r[j], i)
             /\ r[j].id = i => r[j].at = g[j - 1]
  <2>1. CASE j <= Len(o)
    <3>1. r[j] = o[j] /\ g[j] = f[j] /\ g[j - 1] = f[j - 1]
      BY <1>2, <2>1
    <3>2. j \in 1 .. Len(o)
      BY <1>2, <2>1
    <3> HIDE DEF g
    <3> QED
      BY Zenon, <1>1, <3>1, <3>2
  <2>2. CASE j > Len(o)
    <3>1. g[j] = b /\ g[j - 1] = b
      BY <1>1, <1>2, <2>2
    <3>2. ~ IsData(r[j], i) /\ (r[j].id = i => r[j].at = b)
      BY Zenon, <2>2 DEF IsData
    <3>3. Bytes(r[j], i) = 0
      BY Zenon, <3>2 DEF Bytes
    <3> HIDE DEF g
    <3> QED
      BY <3>1, <3>2, <3>3
  <2> QED
    BY <1>2, <2>1, <2>2
<1> HIDE DEF g
<1> QED
  BY Zenon, <1>3, <1>4 DEF Leads

\* A packet of data is added.
LEMMA LeadsFurther ==
  ASSUME NEW o \in Seq(Packet), NEW r \in Seq(Packet), NEW i,
         NEW a \in Nat, NEW b \in Nat, Leads(o, i, a, b),
         Len(r) = Len(o) + 1, \A j \in 1 .. Len(o) : r[j] = o[j],
         IsData(r[Len(r)], i), r[Len(r)].at = b
  PROVE  Leads(r, i, a, b + r[Len(r)].len)
<1>1. PICK f \in [0 .. Len(o) -> 0 .. b] :
        /\ f[0] = a /\ f[Len(o)] = b
        /\ \A j \in 1 .. Len(o) :
             /\ f[j] = f[j - 1] + Bytes(o[j], i)
             /\ o[j].id = i => o[j].at = f[j - 1]
  BY Zenon DEF Leads
<1> DEFINE m == r[Len(r)].len
           g == [j \in 0 .. Len(r) |-> IF j <= Len(o) THEN f[j] ELSE b + m]
<1>2. Len(o) \in Nat /\ Len(r) \in Nat /\ Len(r) \in 1 .. Len(r)
  OBVIOUS
<1>3. m \in Nat /\ Bytes(r[Len(r)], i) = m
  <2>1. r[Len(r)] \in Packet
    BY <1>2
  <2> QED
    BY Zenon, <2>1, BytesNat DEF Packet
<1> HIDE DEF m
<1>4. g \in [0 .. Len(r) -> 0 .. b + m] /\ g[0] = a /\ g[Len(r)] = b + m
  BY <1>1, <1>2, <1>3
<1>5. ASSUME NEW j \in 1 .. Len(r)
      PROVE  /\ g[j] = g[j - 1] + Bytes(r[j], i)
             /\ r[j].id = i => r[j].at = g[j - 1]
  <2>1. CASE j <= Len(o)
    <3>1. r[j] = o[j] /\ g[j] = f[j] /\ g[j - 1] = f[j - 1]
      BY <1>2, <2>1
    <3>2. j \in 1 .. Len(o)
      BY <1>2, <2>1
    <3> HIDE DEF g
    <3> QED
      BY Zenon, <1>1, <3>1, <3>2
  <2>2. CASE j > Len(o)
    <3>1. j = Len(r) /\ g[j] = b + m /\ g[j - 1] = b
      BY <1>1, <1>2, <2>2
    <3> HIDE DEF g
    <3> QED
      BY Zenon, <1>3, <3>1
  <2> QED
    BY <1>2, <2>1, <2>2
<1> HIDE DEF g
<1> QED
  BY Zenon, <1>4, <1>5 DEF Leads, m

\* The first packet is taken.
LEMMA LeadsTaken ==
  ASSUME NEW o \in Seq(Packet), NEW r \in Seq(Packet), NEW i,
         NEW a \in Nat, NEW b \in Nat, Leads(o, i, a, b),
         Len(o) > 0, Len(r) = Len(o) - 1,
         \A j \in 1 .. Len(r) : r[j] = o[j + 1]
  PROVE  /\ Leads(r, i, a + Bytes(o[1], i), b)
         /\ o[1].id = i => o[1].at = a
<1>1. PICK f \in [0 .. Len(o) -> 0 .. b] :
        /\ f[0] = a /\ f[Len(o)] = b
        /\ \A j \in 1 .. Len(o) :
             /\ f[j] = f[j - 1] + Bytes(o[j], i)
             /\ o[j].id = i => o[j].at = f[j - 1]
  BY Zenon DEF Leads
<1> DEFINE g == [j \in 0 .. Len(r) |-> f[j + 1]]
<1>2. Len(o) \in Nat /\ Len(r) \in Nat /\ 1 \in 1 .. Len(o) /\ 1 - 1 = 0
  OBVIOUS
<1>3. f[1] = a + Bytes(o[1], i) /\ (o[1].id = i => o[1].at = a)
  BY Zenon, <1>1, <1>2
<1>4. g \in [0 .. Len(r) -> 0 .. b] /\ g[0] = f[1] /\ g[Len(r)] = b
  BY <1>1, <1>2
<1>5. ASSUME NEW j \in 1 .. Len(r)
      PROVE  /\ g[j] = g[j - 1] + Bytes(r[j], i)
             /\ r[j].id = i => r[j].at = g[j - 1]
  <2>1. r[j] = o[j + 1] /\ g[j] = f[j + 1] /\ g[j - 1] = f[j]
    BY <1>2
  <2>2. j + 1 \in 1 .. Len(o) /\ (j + 1) - 1 = j
    BY <1>2
  <2> HIDE DEF g
  <2> QED
    BY Zenon, <1>1, <2>1, <2>2
<1> HIDE DEF g
<1> QED
  BY Zenon, <1>3, <1>4, <1>5 DEF Leads

LEMMA LeadsBound ==
  ASSUME NEW o \in Seq(Packet), NEW i, NEW a \in Nat, NEW b \in Nat,
         Leads(o, i, a, b)
  PROVE  a <= b
<1>1. PICK f \in [0 .. Len(o) -> 0 .. b] : f[0] = a
  BY Zenon DEF Leads
<1>2. 0 \in 0 .. Len(o)
  OBVIOUS
<1> QED
  BY <1>1, <1>2

-----------------------------------------------------------------------------
(* The two ends of a stream.                                               *)

LEMMA LogFacts ==
  ASSUME NEW x \in EndState, NEW i \in Ids
  PROVE  /\ x.log[i] \in Log
         /\ x.log[i].wrote \in Nat /\ x.log[i].got \in Nat
         /\ x.log[i].ended \in BOOLEAN /\ x.log[i].eof \in BOOLEAN
         /\ x.log[i].left \in BOOLEAN
<1>1. x.log[i] \in Log
  BY Zenon DEF EndState
<1> QED
  BY Zenon, <1>1 DEF Log

LEMMA ReachNat ==
  ASSUME NEW x \in EndState, NEW i \in Ids
  PROVE  /\ Reach(x, i) \in Nat /\ Reach(x, i) >= x.log[i].got
         /\ ~ Holds(x, i) => Reach(x, i) = x.log[i].got
<1>1. x.rx.left \in Nat
  BY Zenon, RxFacts DEF DataIn
<1>2. x.log[i].got \in Nat
  BY Zenon, LogFacts
<1> QED
  BY <1>1, <1>2 DEF Reach

\* The steps of a stream, field by field.
LEMMA StreamSteps ==
  ASSUME NEW n, NEW m, NEW a, NEW b, NEW c, NEW k
  PROVE  LET s == [wrote |-> n, ended |-> a, got |-> m, told |-> b, left |-> c]
         IN  /\ Stream!Leave(s, [wrote |-> n, ended |-> a, got |-> m,
                                 told |-> b, left |-> TRUE])
             /\ ~ b /\ ~ c /\ k \in m + 1 .. n =>
                  Stream!Read(s, [wrote |-> n, ended |-> a, got |-> k,
                                  told |-> b, left |-> c])
             /\ ~ a => Stream!End(s, [wrote |-> n, ended |-> TRUE, got |-> m,
                                      told |-> b, left |-> c])
             /\ ~ a /\ k > n =>
                  Stream!Write(s, [wrote |-> k, ended |-> a, got |-> m,
                                   told |-> b, left |-> c])
             /\ a /\ m = n /\ ~ c =>
                  Stream!Tell(s, [wrote |-> n, ended |-> a, got |-> m,
                                  told |-> TRUE, left |-> c])
<1> DEFINE s == [wrote |-> n, ended |-> a, got |-> m, told |-> b, left |-> c]
<1>1. /\ s.wrote = n /\ s.ended = a /\ s.got = m /\ s.told = b
      /\ s.left = c
  BY Zenon
<1>2. \A v : [s EXCEPT !.left = v] =
        [wrote |-> n, ended |-> a, got |-> m, told |-> b, left |-> v]
  BY SMT
<1>3. \A v : [s EXCEPT !.ended = v] =
        [wrote |-> n, ended |-> v, got |-> m, told |-> b, left |-> c]
  BY SMT
<1>4. \A v : [s EXCEPT !.told = v] =
        [wrote |-> n, ended |-> a, got |-> m, told |-> v, left |-> c]
  BY SMT
<1>5. [s EXCEPT !.wrote = k] =
        [wrote |-> k, ended |-> a, got |-> m, told |-> b, left |-> c]
  BY SMT
<1>6. [s EXCEPT !.got = k] =
        [wrote |-> n, ended |-> a, got |-> k, told |-> b, left |-> c]
  BY SMT
<1> QED
  BY Zenon, <1>1, <1>2, <1>3, <1>4, <1>5, <1>6
     DEF Stream!Leave, Stream!Read, Stream!End, Stream!Write, Stream!Tell

\* The reader of a stream takes a step by itself.
LEMMA ReaderStream ==
  ASSUME NEW w \in EndState, NEW r \in EndState, NEW y \in EndState,
         NEW i \in Ids, StreamOf(w, r, i), Reader(r, y, i)
  PROVE  /\ StreamOf(w, y, i)
         /\ Stream!Step(Carried(w, r, i), Carried(w, y, i))
<1>1. StreamOf(w, y, i)
  BY Zenon DEF StreamOf, Reader, Reads
<1>2. /\ w.log[i].wrote \in Nat
      /\ r.log[i].got \in Nat /\ y.log[i].got \in Nat
      /\ r.log[i].left \in BOOLEAN /\ y.log[i].left \in BOOLEAN
  BY Zenon, LogFacts
<1>3. CASE y.log[i].got = r.log[i].got
  <2>1. /\ y.log[i].eof = r.log[i].eof
        /\ y.log[i].left = r.log[i].left \/ y.log[i].left = TRUE
    BY Zenon, <1>2 DEF Reader, Reads
  <2>2. CASE y.log[i].left = r.log[i].left
    BY Zenon, <1>1, <1>3, <2>1, <2>2 DEF Carried, Stream!Step
  <2>3. CASE y.log[i].left = TRUE
    <3>1. Stream!Leave(Carried(w, r, i), Carried(w, y, i))
      BY Zenon, <1>3, <2>1, <2>3, StreamSteps DEF Carried
    <3> QED
      BY Zenon, <1>1, <3>1 DEF Stream!Step
  <2> QED
    BY Zenon, <2>1, <2>2, <2>3
<1>4. CASE y.log[i].got # r.log[i].got
  <2>1. /\ y.log[i].got > r.log[i].got /\ y.log[i].got <= Reach(r, i)
        /\ Holds(r, i) /\ ~ r.log[i].left /\ ~ y.log[i].left
        /\ y.log[i].eof = r.log[i].eof
    BY Zenon, <1>4 DEF Reader, Reads
  <2>2. ~ r.log[i].eof /\ y.log[i].left = r.log[i].left
    BY Zenon, <1>2, <2>1 DEF StreamOf
  <2>3. Reach(r, i) <= w.log[i].wrote
    <3>1. Leads(w.out, i, Reach(r, i), w.log[i].wrote)
      BY Zenon, <2>1 DEF StreamOf
    <3>2. w.out \in Seq(Packet) /\ Reach(r, i) \in Nat
      BY Zenon, Lengths, ReachNat
    <3> QED
      BY Zenon, <1>2, <3>1, <3>2, LeadsBound
  <2>4. y.log[i].got \in r.log[i].got + 1 .. w.log[i].wrote
    <3>1. Reach(r, i) \in Nat
      BY Zenon, ReachNat
    <3> QED
      BY <1>2, <2>1, <2>3, <3>1
  <2>5. Stream!Read(Carried(w, r, i), Carried(w, y, i))
    BY Zenon, <2>1, <2>2, <2>4, StreamSteps DEF Carried
  <2> QED
    BY Zenon, <1>1, <2>5 DEF Stream!Step
<1> QED
  BY Zenon, <1>1, <1>3, <1>4

\* The writer of a stream takes a step by itself.
LEMMA WriterStream ==
  ASSUME NEW x \in EndState, NEW y \in EndState, NEW z \in EndState,
         NEW i \in Ids, StreamOf(x, z, i), Writer(x, y, z, i)
  PROVE  /\ StreamOf(y, z, i)
         /\ Stream!Step(Carried(x, z, i), Carried(y, z, i))
<1> DEFINE k == x.log[i]
           l == y.log[i]
<1>1. /\ k.wrote \in Nat /\ l.wrote \in Nat
      /\ k.ended \in BOOLEAN /\ l.ended \in BOOLEAN
  BY Zenon, LogFacts
<1>2. /\ x.out \in Seq(Packet) /\ y.out \in Seq(Packet)
      /\ Len(x.out) \in Nat /\ Len(y.out) \in Nat /\ Reach(z, i) \in Nat
  BY Zenon, Lengths, ReachNat
<1>3. /\ Len(y.out) >= Len(x.out)
      /\ \A j \in 1 .. Len(x.out) : y.out[j] = x.out[j]
      /\ k.ended => l.ended
      /\ Gone(x, i) => Gone(y, i)
  BY Zenon DEF Writer, Longer
<1>4. \A j \in 1 .. Len(y.out) : j > Len(x.out) \/ j \in 1 .. Len(x.out)
  BY <1>2
<1>5. CASE /\ l.wrote = k.wrote
           /\ \A j \in 1 .. Len(y.out) :
                j > Len(x.out) /\ y.out[j].id = i =>
                  Silent(y, z, i, k.wrote, j)
  <2>1. ASSUME NEW j \in Nat, NoneAfter(x.out, i, j)
        PROVE  NoneAfter(y.out, i, j)
    BY Zenon, <1>3, <1>4, <1>5, <2>1 DEF NoneAfter, IsData, Silent
  <2>2. ~ z.log[i].left => Leads(y.out, i, Reach(z, i), l.wrote)
    <3> SUFFICES ASSUME ~ z.log[i].left
                 PROVE  Leads(y.out, i, Reach(z, i), k.wrote)
      BY Zenon, <1>5
    <3>1. Leads(x.out, i, Reach(z, i), k.wrote)
      BY Zenon DEF StreamOf
    <3>2. \A j \in 1 .. Len(y.out) : j > Len(x.out) /\ y.out[j].id = i =>
            y.out[j].t # "Data" /\ y.out[j].at = k.wrote
      BY Zenon, <1>5 DEF Silent
    <3> HIDE DEF k
    <3> QED
      BY Zenon, <1>1, <1>2, <1>3, <3>1, <3>2, LeadsOn
  <2>3. Finished(x, i) => Finished(y, i)
    BY <1>3, <2>1 DEF Finished
  <2>4. ASSUME NEW j \in 1 .. Len(y.out), y.out[j].id = i
        PROVE  /\ y.out[j].t = "Eof" => IsLast(y, i, j)
               /\ y.out[j].t = "Close" =>
                    (IsLast(y, i, j) /\ Gone(y, i)) \/ Gone(z, i)
    <3>1. CASE j \in 1 .. Len(x.out)
      <4>1. y.out[j] = x.out[j] /\ x.out[j].id = i /\ j \in Nat
        BY <1>3, <2>4, <3>1
      <4>2. IsLast(x, i, j) => IsLast(y, i, j)
        BY Zenon, <1>3, <1>5, <2>1, <4>1 DEF IsLast
      <4> QED
        BY Zenon, <1>3, <3>1, <4>1, <4>2 DEF StreamOf
    <3>2. CASE j > Len(x.out)
      <4>1. \A m \in 1 .. Len(y.out) : m > j => m > Len(x.out)
        BY <1>2, <3>2
      <4>2. NoneAfter(y.out, i, j)
        BY Zenon, <1>5, <4>1 DEF NoneAfter, IsData, Silent
      <4>3. Silent(y, z, i, k.wrote, j)
        BY Zenon, <1>5, <2>4, <3>2
      <4> QED
        BY Zenon, <1>5, <4>2, <4>3 DEF Silent, IsLast
    <3> QED
      BY Zenon, <1>4, <3>1, <3>2
  <2>5. StreamOf(y, z, i)
    BY Zenon, <2>2, <2>3, <2>4 DEF StreamOf
  <2>6. l.ended = k.ended \/ (~ k.ended /\ l.ended = TRUE)
    BY Zenon, <1>1, <1>3
  <2>7. CASE l.ended = k.ended
    BY Zenon, <1>5, <2>5, <2>7 DEF Carried, Stream!Step
  <2>8. CASE ~ k.ended /\ l.ended = TRUE
    <3>1. Stream!End(Carried(x, z, i), Carried(y, z, i))
      BY Zenon, <1>5, <2>8, StreamSteps DEF Carried
    <3> QED
      BY Zenon, <2>5, <3>1 DEF Stream!Step
  <2> QED
    BY Zenon, <2>6, <2>7, <2>8
<1>6. CASE /\ ~ k.ended /\ ~ l.ended /\ Len(y.out) = Len(x.out) + 1
           /\ IsData(y.out[Len(y.out)], i)
           /\ y.out[Len(y.out)].at = k.wrote
           /\ y.out[Len(y.out)].len > 0
           /\ l.wrote = k.wrote + y.out[Len(y.out)].len
  <2>1. ~ z.log[i].left => Leads(y.out, i, Reach(z, i), l.wrote)
    <3> SUFFICES ASSUME ~ z.log[i].left
                 PROVE  Leads(y.out, i, Reach(z, i), l.wrote)
      BY Zenon
    <3>1. Leads(x.out, i, Reach(z, i), k.wrote)
      BY Zenon DEF StreamOf
    <3> HIDE DEF k, l
    <3>2. Leads(y.out, i, Reach(z, i), k.wrote + y.out[Len(y.out)].len)
      BY Zenon, <1>1, <1>2, <1>3, <1>6, <3>1, LeadsFurther
    <3> QED
      BY Zenon, <1>6, <3>2
  <2>2. ~ Finished(x, i) /\ \A j : ~ IsLast(x, i, j)
    BY Zenon, <1>6 DEF Finished, IsLast
  <2>3. ASSUME NEW j \in 1 .. Len(y.out), y.out[j].id = i
        PROVE  /\ y.out[j].t # "Eof"
               /\ y.out[j].t = "Close" => Gone(z, i)
    <3>1. CASE j \in 1 .. Len(x.out)
      BY Zenon, <1>3, <2>2, <2>3, <3>1 DEF StreamOf
    <3>2. CASE j > Len(x.out)
      <4>1. j = Len(y.out)
        BY <1>2, <1>6, <3>2
      <4> QED
        BY Zenon, <1>6, <4>1 DEF IsData
    <3> QED
      BY Zenon, <1>4, <3>1, <3>2
  <2>4. StreamOf(y, z, i)
    BY Zenon, <2>1, <2>2, <2>3 DEF StreamOf
  <2>5. l.wrote > k.wrote /\ l.ended = k.ended
    <3>1. y.out[Len(y.out)] \in Packet
      BY <1>2, <1>6
    <3>2. y.out[Len(y.out)].len \in Nat
      BY Zenon, <3>1 DEF Packet
    <3>3. l.wrote > k.wrote
      BY <1>1, <1>6, <3>2
    <3> QED
      BY Zenon, <1>1, <1>6, <3>3
  <2>6. Stream!Write(Carried(x, z, i), Carried(y, z, i))
    BY Zenon, <1>6, <2>5, StreamSteps DEF Carried
  <2> QED
    BY Zenon, <2>4, <2>6 DEF Stream!Step
<1> QED
  BY Zenon, <1>5, <1>6 DEF Writer

LEMMA TakenFacts ==
  ASSUME NEW w, NEW v, Taken(w, v), NEW i
  PROVE  /\ Gone(v, i) <=> Gone(w, i)
         /\ Freed(v, i) <=> Freed(w, i)
         /\ Holds(v, i) <=> Holds(w, i)
         /\ Reach(v, i) = Reach(w, i)
         /\ v.log[i] = w.log[i]
  BY Zenon DEF Taken, Gone, Freed, Holds, Reach

\* A reader whose own packet is taken.
LEMMA TakenReader ==
  ASSUME NEW x, NEW w, NEW v, Taken(w, v), NEW i, StreamOf(x, w, i)
  PROVE  StreamOf(x, v, i) /\ Carried(x, v, i) = Carried(x, w, i)
  BY Zenon, TakenFacts DEF StreamOf, Carried

\* The reader of a stream takes a packet of the writer.
LEMMA TakesStream ==
  ASSUME NEW w \in EndState, NEW v \in EndState, NEW x \in EndState,
         NEW y \in EndState, NEW i \in Ids, StreamOf(w, x, i), Taken(w, v),
         x.rx.num = 0, Takes(x, y, i, w.out[1])
  PROVE  /\ StreamOf(v, y, i)
         /\ Stream!Step(Carried(w, x, i), Carried(v, y, i))
<1> DEFINE p == w.out[1]
           k == x.log[i]
           l == y.log[i]
<1>1. /\ w.out \in Seq(Packet) /\ v.out \in Seq(Packet)
      /\ Len(w.out) \in Nat /\ Len(v.out) \in Nat
      /\ Reach(x, i) \in Nat /\ w.log[i].wrote \in Nat
      /\ k.eof \in BOOLEAN /\ l.eof \in BOOLEAN /\ k.left \in BOOLEAN
  BY Zenon, Lengths, ReachNat, LogFacts
<1>2. /\ Len(w.out) > 0 /\ Len(v.out) = Len(w.out) - 1
      /\ \A j \in 1 .. Len(v.out) : v.out[j] = w.out[j + 1]
  BY Zenon DEF Taken
<1>3. v.log[i] = w.log[i] /\ (Gone(v, i) <=> Gone(w, i))
  BY Zenon, TakenFacts
<1>4. /\ \A j \in 1 .. Len(v.out) : j + 1 \in 1 .. Len(w.out)
      /\ 1 \in 1 .. Len(w.out)
  BY <1>1, <1>2
<1>5. ASSUME NEW j \in Nat, NoneAfter(w.out, i, j + 1)
      PROVE  NoneAfter(v.out, i, j)
  <2>1. \A m \in 1 .. Len(v.out) : m > j => m + 1 > j + 1
    BY <1>1
  <2> QED
    BY Zenon, <1>2, <1>4, <1>5, <2>1 DEF NoneAfter
<1>6. NoneAfter(w.out, i, 0) => NoneAfter(v.out, i, 0) /\ ~ IsData(p, i)
  <2>1. 1 > 0 /\ \A m \in 1 .. Len(v.out) : m + 1 > 0
    BY <1>1
  <2> QED
    BY Zenon, <1>2, <1>4, <2>1 DEF NoneAfter
<1>7. /\ l.got = k.got /\ l.left = k.left
      /\ \/ l.eof = k.eof
         \/ l.eof /\ p.id = i /\ p.t \in {"Eof", "Close"} /\ ~ k.left
      /\ l.left \/ Reach(y, i) = Reach(x, i) + Bytes(p, i)
      /\ Holds(y, i) => IsData(p, i)
      /\ Gone(x, i) => Gone(y, i)
      /\ Freed(y, i) => Freed(x, i) \/ (p.id = i /\ p.t = "Close")
  BY Zenon DEF Takes
<1>8. p.id = i /\ p.t \in {"Eof", "Close"} /\ ~ k.left =>
        IsLast(w, i, 1)
  BY Zenon, <1>4 DEF StreamOf, Gone
<1>9. IsLast(w, i, 1) => Finished(v, i)
  <2>1. 0 \in Nat /\ 0 + 1 = 1
    OBVIOUS
  <2> QED
    BY Zenon, <1>3, <1>5, <2>1 DEF IsLast, Finished
<1>10. Finished(w, i) => Finished(v, i) /\ ~ IsData(p, i)
  BY Zenon, <1>3, <1>6 DEF Finished
<1>11. ~ k.left => /\ Leads(v.out, i, Reach(x, i) + Bytes(p, i),
                             w.log[i].wrote)
                   /\ p.id = i => p.at = Reach(x, i)
  <2>1. ASSUME ~ k.left
        PROVE  Leads(w.out, i, Reach(x, i), w.log[i].wrote)
    BY Zenon, <2>1 DEF StreamOf
  <2> DEFINE a == Reach(x, i)
             b == w.log[i].wrote
             o == w.out
             q == v.out
  <2>2. /\ o \in Seq(Packet) /\ q \in Seq(Packet) /\ a \in Nat /\ b \in Nat
        /\ Len(o) > 0 /\ Len(q) = Len(o) - 1
        /\ \A j \in 1 .. Len(q) : q[j] = o[j + 1]
    BY Zenon, <1>1, <1>2
  <2> HIDE DEF a, b, o, q
  <2>3. Leads(o, i, a, b) => /\ Leads(q, i, a + Bytes(o[1], i), b)
                             /\ o[1].id = i => o[1].at = a
    BY SMT, <2>2, LeadsTaken
  <2> QED
    BY Zenon, <2>1, <2>3 DEF a, b, o, q
<1>12. l.eof => Finished(v, i) /\ ~ Holds(y, i)
  <2>1. CASE k.eof
    BY Zenon, <1>7, <1>10, <2>1 DEF StreamOf
  <2>2. CASE p.id = i /\ p.t \in {"Eof", "Close"} /\ ~ k.left
    BY Zenon, <1>7, <1>8, <1>9, <2>2 DEF IsData
  <2> QED
    BY Zenon, <1>7, <2>1, <2>2
<1>13. ASSUME NEW j \in 1 .. Len(v.out), v.out[j].id = i
       PROVE  /\ v.out[j].t = "Eof" => IsLast(v, i, j)
              /\ v.out[j].t = "Close" =>
                   (IsLast(v, i, j) /\ Gone(v, i)) \/ Gone(y, i)
  <2>1. j \in Nat
    BY <1>1
  <2>2. IsLast(w, i, j + 1) => IsLast(v, i, j)
    BY Zenon, <1>2, <1>3, <1>5, <2>1 DEF IsLast
  <2> QED
    BY Zenon, <1>2, <1>3, <1>4, <1>7, <1>13, <2>2 DEF StreamOf
<1>14. Freed(y, i) => l.left \/ Finished(v, i)
  <2>1. CASE Freed(x, i)
    BY Zenon, <1>7, <1>10, <2>1 DEF StreamOf
  <2>2. CASE p.id = i /\ p.t = "Close"
    BY Zenon, <1>7, <1>8, <1>9, <2>2
  <2> QED
    BY Zenon, <1>7, <2>1, <2>2
<1>15. StreamOf(v, y, i)
  <2>1. ~ l.left => Leads(v.out, i, Reach(y, i), v.log[i].wrote)
    BY Zenon, <1>3, <1>7, <1>11
  <2> QED
    BY Zenon, <1>12, <1>13, <1>14, <2>1 DEF StreamOf
<1>16. CASE l.eof = k.eof
  BY Zenon, <1>3, <1>7, <1>15, <1>16 DEF Carried, Stream!Step
<1>17. CASE l.eof # k.eof
  <2>1. p.id = i /\ p.t \in {"Eof", "Close"} /\ ~ k.left
    BY Zenon, <1>7, <1>17
  <2>2. p.at = w.log[i].wrote /\ w.log[i].ended
    BY Zenon, <1>8, <2>1 DEF IsLast
  <2>3. p.at = Reach(x, i)
    BY Zenon, <1>11, <2>1
  <2>4. Reach(x, i) = k.got
    BY Zenon, ReachNat DEF Holds
  <2>5. l.eof = TRUE
    BY Zenon, <1>1, <1>7, <1>17
  <2>6. Stream!Tell(Carried(w, x, i), Carried(v, y, i))
    <3>1. k.got = w.log[i].wrote
      BY Zenon, <2>2, <2>3, <2>4
    <3>2. Stream!Tell(Carried(w, x, i),
                      [wrote |-> w.log[i].wrote, ended |-> w.log[i].ended,
                       got |-> k.got, told |-> TRUE, left |-> k.left])
      BY Zenon, <2>1, <2>2, <3>1, StreamSteps DEF Carried
    <3> QED
      BY Zenon, <1>3, <1>7, <2>5, <3>2 DEF Carried
  <2> QED
    BY Zenon, <1>15, <2>6 DEF Stream!Step
<1> QED
  BY Zenon, <1>16, <1>17

-----------------------------------------------------------------------------
(* Steps that keep the invariant.                                          *)

\* An end acts by itself.
LEMMA ActsFlow ==
  ASSUME NEW x \in EndState, NEW y \in EndState, NEW z \in EndState,
         Neat(z), \A i \in Ids : StreamOf(x, z, i) /\ StreamOf(z, x, i),
         Acts(x, y, z)
  PROVE  Flows(x, y, z, z)
  BY Zenon, WriterStream, ReaderStream DEF Acts, Flows

\* An end takes a packet of its peer.
LEMMA HandlesFlow ==
  ASSUME NEW x \in EndState, NEW y \in EndState, NEW z \in EndState,
         NEW t \in EndState, Neat(z), Taken(z, t), x.rx.num = 0,
         t.handles = z.handles,
         \A i \in Ids : StreamOf(x, z, i) /\ StreamOf(z, x, i),
         Handles(x, y, z, z.out[1])
  PROVE  Flows(x, y, z, t)
<1>1. Neat(t)
  BY Zenon DEF Neat, Taken
<1>2. ASSUME NEW i \in Ids
      PROVE  /\ StreamOf(y, t, i)
             /\ Stream!Step(Carried(x, z, i), Carried(y, t, i))
  <2>1. /\ StreamOf(y, z, i)
        /\ Stream!Step(Carried(x, z, i), Carried(y, z, i))
    BY Zenon, WriterStream DEF Handles
  <2>2. StreamOf(y, t, i) /\ Carried(y, t, i) = Carried(y, z, i)
    BY Zenon, <2>1, TakenReader
  <2> QED
    BY Zenon, <2>1, <2>2
<1>3. ASSUME NEW i \in Ids
      PROVE  /\ StreamOf(t, y, i)
             /\ Stream!Step(Carried(z, x, i), Carried(t, y, i))
  BY Zenon, TakesStream DEF Handles
<1> QED
  BY Zenon, <1>1, <1>2, <1>3 DEF Flows, Handles

LEMMA IdsPositive ==
  ASSUME NEW i \in Ids
  PROVE  i # 0
  BY DEF Ids

LEMMA SlotsPositive ==
  ASSUME NEW n \in Slots
  PROVE  n # 0
  BY DEF Slots

\* the slot of a conversation
LEMMA OneEarly ==
  ASSUME NEW x \in EndState, Numbered(x, MaxOpen), Neat(x),
         NEW n \in Slots, x.ch[n].state \in Early
  PROVE  x.log[x.ch[n].id] = NewLog
<1>1. x.ch[n].id \in Ids
  BY Zenon, Known DEF Early
<1>2. \A m \in Slots : x.ch[m].id = x.ch[n].id => m = n
  BY Zenon, <1>1, IdsPositive DEF Numbered
<1> QED
  BY Zenon, <1>1, <1>2 DEF Neat

LEMMA NewLogFields ==
  ~ NewLog.ended /\ ~ NewLog.left /\ ~ NewLog.eof /\ NewLog.wrote = 0
  BY DEF NewLog

LEMMA QuietNeat ==
  ASSUME NEW x \in EndState, NEW y \in EndState, Numbered(x, MaxOpen),
         Numbered(y, MaxOpen), Neat(x), Quiet(x, y)
  PROVE  Neat(y)
<1>1. ASSUME NEW i \in Ids,
             \A n \in Slots : y.ch[n].id = i => y.ch[n].state \in Early
      PROVE  y.log[i] = NewLog
  <2>1. ASSUME NEW n \in Slots, x.ch[n].id = i
        PROVE  x.ch[n].state \in Early
    <3>1. x.ch[n].id # 0
      BY Zenon, <2>1, IdsPositive
    <3>2. CASE Kept(x, y, n)
      BY Zenon, <1>1, <2>1, <3>2 DEF Kept
    <3>3. CASE Cleared(x, y, n)
      BY Zenon, <3>3 DEF Cleared, Early
    <3> QED
      BY Zenon, <3>1, <3>2, <3>3 DEF Quiet, Begun
  <2> QED
    BY Zenon, <2>1 DEF Neat, Quiet
<1>2. ASSUME NEW n \in Slots
      PROVE  /\ y.ch[n].id # 0 /\ y.log[y.ch[n].id].ended => y.ch[n].sentEof
             /\ y.ch[n].id # 0 /\ y.ch[n].done => y.log[y.ch[n].id].left
             /\ y.ch[n].state = "InOpen" => ~ y.ch[n].sentClose
             /\ n \in y.handles => /\ y.ch[n].state \notin {"Free", "InOpen"}
                                   /\ ~ y.log[y.ch[n].id].left
  <2>1. y.log = x.log
    BY Zenon DEF Quiet
  <2>2. CASE Kept(x, y, n)
    <3>1. /\ y.ch[n].id = x.ch[n].id /\ y.ch[n].sentEof = x.ch[n].sentEof
          /\ y.ch[n].sentClose = x.ch[n].sentClose
          /\ y.ch[n].done => x.ch[n].done
          /\ y.ch[n].state \in {"Free", "InOpen"} =>
               y.ch[n].state = x.ch[n].state
          /\ n \in y.handles =>
               \/ n \in x.handles
               \/ x.ch[n].state \in Early /\ y.ch[n].state = "Normal"
      BY Zenon, <2>2 DEF Kept
    <3>2. x.ch[n].state \in Early => ~ x.log[x.ch[n].id].left
      BY Zenon, OneEarly, NewLogFields
    <3> QED
      BY Zenon, <2>1, <3>1, <3>2 DEF Neat
  <2>3. CASE Begun(x, y, n)
    <3>1. y.ch[n].id \in Ids
      BY Zenon, <2>3, Known DEF Begun, Early
    <3>2. x.log[y.ch[n].id] = NewLog
      BY Zenon, <2>3, <3>1 DEF Begun, NoSlot, Neat
    <3> QED
      BY Zenon, <2>1, <2>3, <3>2, NewLogFields DEF Begun
  <2>4. CASE Cleared(x, y, n)
    BY Zenon, <2>4 DEF Cleared
  <2> QED
    BY Zenon, <2>2, <2>3, <2>4 DEF Quiet
<1> QED
  BY Zenon, <1>1, <1>2 DEF Neat

\* What a quiet step does to a conversation.
LEMMA QuietStream ==
  ASSUME NEW x \in EndState, NEW y \in EndState, Numbered(x, MaxOpen),
         Tidy(x), Neat(x), Quiet(x, y), NEW i \in Ids
  PROVE  /\ Gone(x, i) => Gone(y, i)
         /\ Freed(y, i) => Freed(x, i)
         /\ Holds(y, i) <=> Holds(x, i)
         /\ Reach(y, i) = Reach(x, i)
         /\ \A z : Writer(x, y, z, i)
<1>1. i # 0
  BY Zenon, IdsPositive
<1>2. \A n \in Slots : Kept(x, y, n) \/ Begun(x, y, n) \/ Cleared(x, y, n)
  BY Zenon DEF Quiet
<1>3. y.log = x.log /\ y.rx = x.rx
  BY Zenon DEF Quiet
<1>4. Gone(x, i) => Gone(y, i)
  <2> SUFFICES ASSUME NEW n \in Slots, x.log[i].left, x.ch[n].id = i,
                      x.ch[n].sentClose
               PROVE  y.ch[n].id = i /\ y.ch[n].sentClose
    BY Zenon, <1>3 DEF Gone
  <2>1. ~ Begun(x, y, n)
    BY Zenon, <1>1 DEF Begun
  <2>2. ~ Cleared(x, y, n)
    BY Zenon DEF Cleared, Neat
  <2>3. Kept(x, y, n)
    BY Zenon, <1>2, <2>1, <2>2
  <2> QED
    BY Zenon, <2>3 DEF Kept
<1>5. Freed(y, i) => Freed(x, i)
  <2> SUFFICES ASSUME NEW n \in Slots, y.ch[n].id = i,
                      y.ch[n].state = "Free"
               PROVE  x.ch[n].id = i /\ x.ch[n].state = "Free"
    BY Zenon DEF Freed
  <2>1. ~ Begun(x, y, n)
    BY Zenon DEF Begun, Early
  <2>2. ~ Cleared(x, y, n)
    BY Zenon, <1>1 DEF Cleared
  <2>3. Kept(x, y, n)
    BY Zenon, <1>2, <2>1, <2>2
  <2> QED
    BY Zenon, <2>3 DEF Kept
<1>6. Holds(y, i) <=> Holds(x, i)
  <2>1. CASE x.rx.num = 0
    BY Zenon, <1>3, <2>1 DEF Holds
  <2>2. CASE x.rx.num # 0
    <3> DEFINE n == x.rx.num
    <3>1. n \in Slots
      BY Zenon, <2>2, RxFacts
    <3>2. x.ch[n].state \in Usual
      BY Zenon, <2>2 DEF Tidy
    <3>3. x.ch[n].id # 0
      BY Zenon, <3>1, <3>2 DEF Usual, Numbered
    <3> HIDE DEF n
    <3>4. ~ Begun(x, y, n) /\ ~ Cleared(x, y, n)
      BY Zenon, <3>2, <3>3 DEF Begun, Cleared, Usual
    <3>5. y.ch[n].id = x.ch[n].id
      BY Zenon, <1>2, <3>1, <3>4 DEF Kept
    <3> QED
      BY Zenon, <1>3, <3>5 DEF Holds, n
  <2> QED
    BY Zenon, <2>1, <2>2
<1>7. Reach(y, i) = Reach(x, i)
  BY Zenon, <1>3, <1>6 DEF Reach
<1>8. ASSUME NEW z
      PROVE  Writer(x, y, z, i)
  <2>1. \A j \in 1 .. Len(y.out) : j > Len(x.out) /\ y.out[j].id = i =>
          Silent(y, z, i, x.log[i].wrote, j)
    BY Zenon DEF Quiet, Silent
  <2>2. Longer(x, y)
    BY Zenon DEF Quiet
  <2> QED
    BY Zenon, <1>3, <1>4, <2>1, <2>2 DEF Writer
<1> QED
  BY Zenon, <1>4, <1>5, <1>6, <1>7, <1>8

LEMMA QuietActs ==
  ASSUME NEW x \in EndState, NEW y \in EndState, Numbered(x, MaxOpen),
         Numbered(y, MaxOpen), Tidy(x), Neat(x), Quiet(x, y), NEW z
  PROVE  Acts(x, y, z)
<1>1. ASSUME NEW i \in Ids
      PROVE  Writer(x, y, z, i) /\ Reader(x, y, i)
  <2>1. y.log = x.log
    BY Zenon DEF Quiet
  <2> QED
    BY Zenon, <2>1, QuietStream DEF Reader, Reads
<1> QED
  BY Zenon, <1>1, QuietNeat DEF Acts

\* A packet is taken and nothing done with it; data is dropped only when the
\* reader has left.
LEMMA QuietHandles ==
  ASSUME NEW x \in EndState, NEW y \in EndState, Numbered(x, MaxOpen),
         Numbered(y, MaxOpen), Tidy(x), Neat(x), Quiet(x, y), NEW z,
         NEW p \in Packet, x.rx.num = 0,
         p.t = "Data" /\ p.id \in Ids => p.len = 0 \/ x.log[p.id].left
  PROVE  Handles(x, y, z, p)
<1>1. ASSUME NEW i \in Ids
      PROVE  Writer(x, y, z, i) /\ Takes(x, y, i, p)
  <2>1. y.log = x.log
    BY Zenon DEF Quiet
  <2>2. x.log[i].left \/ Bytes(p, i) = 0
    BY Zenon DEF Bytes, IsData
  <2>3. x.log[i].left \/ Reach(y, i) = Reach(x, i) + Bytes(p, i)
    <3>1. Reach(x, i) \in Nat /\ Reach(y, i) = Reach(x, i)
      BY Zenon, ReachNat, QuietStream
    <3> QED
      BY <2>2, <3>1
  <2>4. ~ Holds(y, i)
    BY Zenon, QuietStream DEF Holds
  <2> QED
    BY Zenon, <2>1, <2>3, <2>4, QuietStream DEF Takes
<1> QED
  BY Zenon, <1>1, QuietNeat DEF Handles

-----------------------------------------------------------------------------
(* Steps on one conversation.                                              *)

LEMMA OneNeat ==
  ASSUME NEW x \in EndState, NEW y \in EndState, Numbered(x, MaxOpen),
         Neat(x), NEW n \in Slots, OneStream(x, y, n)
  PROVE  Neat(y)
<1> DEFINE i == x.ch[n].id
<1>1. /\ \A m \in Slots : m # n => y.ch[m] = x.ch[m]
      /\ \A j \in Ids : j # i => y.log[j] = x.log[j]
      /\ y.ch[n].id = i /\ i # 0 /\ y.ch[n].state \notin Early
      /\ y.handles \subseteq x.handles
  BY Zenon DEF OneStream, OtherSlots, OtherLogs
<1>2. ASSUME NEW m \in Slots, m # n, x.ch[m].id # 0
      PROVE  y.log[x.ch[m].id] = x.log[x.ch[m].id]
  <2>1. x.ch[m].id # i
    BY Zenon, <1>1, <1>2 DEF Numbered
  <2>2. x.ch[m].id \in Ids
    <3>1. x.ch[m].id \in Nat /\ x.ch[m].id <= MaxOpen
      BY Zenon, SlotFacts DEF Numbered
    <3> QED
      BY <1>2, <3>1, ChannelsAssumption DEF Ids
  <2> QED
    BY Zenon, <1>1, <2>1, <2>2
<1>3. ASSUME NEW j \in Ids,
             \A m \in Slots : y.ch[m].id = j => y.ch[m].state \in Early
      PROVE  y.log[j] = NewLog
  <2>1. j # i
    BY Zenon, <1>1, <1>3
  <2>2. \A m \in Slots : x.ch[m].id = j => x.ch[m].state \in Early
    BY Zenon, <1>1, <1>3, <2>1
  <2> QED
    BY Zenon, <1>1, <2>1, <2>2 DEF Neat
<1>4. ASSUME NEW m \in Slots
      PROVE  /\ y.ch[m].id # 0 /\ y.log[y.ch[m].id].ended => y.ch[m].sentEof
             /\ y.ch[m].id # 0 /\ y.ch[m].done => y.log[y.ch[m].id].left
             /\ y.ch[m].state = "InOpen" => ~ y.ch[m].sentClose
             /\ m \in y.handles => /\ y.ch[m].state \notin {"Free", "InOpen"}
                                   /\ ~ y.log[y.ch[m].id].left
  <2>1. CASE m # n
    <3>1. y.ch[m] = x.ch[m]
      BY Zenon, <1>1, <2>1
    <3>2. x.ch[m].id = 0 => x.ch[m].state = "Free"
      BY Zenon DEF Numbered
    <3> QED
      BY Zenon, <1>1, <1>2, <2>1, <3>1, <3>2 DEF Neat
  <2>2. CASE m = n
    BY Zenon, <1>1, <2>2 DEF OneStream, Early
  <2> QED
    BY Zenon, <2>1, <2>2
<1> QED
  BY Zenon, <1>3, <1>4 DEF Neat

\* The other conversations.
LEMMA OneOthers ==
  ASSUME NEW x \in EndState, NEW y \in EndState, NEW n \in Slots,
         OneStream(x, y, n), NEW z, NEW i \in Ids, i # x.ch[n].id
  PROVE  /\ Writer(x, y, z, i) /\ Reader(x, y, i)
         /\ \A p \in Packet : p.id = x.ch[n].id /\ x.rx.num = 0 =>
              Takes(x, y, i, p)
<1>1. /\ \A m \in Slots : y.ch[m].id = x.ch[m].id
      /\ \A m \in Slots : m # n => y.ch[m] = x.ch[m]
      /\ y.log[i] = x.log[i] /\ Longer(x, y)
      /\ \A j \in 1 .. Len(y.out) : j > Len(x.out) => y.out[j].id # i
  BY Zenon DEF OneStream, OtherSlots, OtherLogs
<1>2. (Gone(x, i) => Gone(y, i)) /\ (Freed(y, i) => Freed(x, i))
  BY Zenon, <1>1 DEF Gone, Freed
<1>3. y.rx = x.rx \/ (x.rx.num \in {0, n} /\ y.rx.num \in {0, n})
  BY Zenon DEF OneStream
<1>4. y.rx.num # 0 => y.rx.num \in Slots
  BY Zenon, RxFacts
<1>5. /\ Holds(y, i) <=> Holds(x, i)
      /\ Holds(x, i) => y.rx = x.rx
  BY Zenon, <1>1, <1>3, <1>4 DEF Holds
<1>6. Reach(y, i) = Reach(x, i)
  BY Zenon, <1>1, <1>5 DEF Reach
<1>7. Writer(x, y, z, i)
  BY Zenon, <1>1, <1>2 DEF Writer
<1>8. Reader(x, y, i)
  BY Zenon, <1>1, <1>2, <1>5, <1>6 DEF Reader, Reads
<1>9. ASSUME NEW p \in Packet, p.id = x.ch[n].id, x.rx.num = 0
      PROVE  Takes(x, y, i, p)
  <2>1. Bytes(p, i) = 0
    BY Zenon, <1>9 DEF Bytes, IsData
  <2>2. Reach(y, i) = Reach(x, i) + Bytes(p, i)
    <3>1. Reach(x, i) \in Nat
      BY Zenon, ReachNat
    <3> QED
      BY <1>6, <2>1, <3>1
  <2>3. ~ Holds(y, i)
    BY Zenon, <1>5, <1>9 DEF Holds
  <2> QED
    BY Zenon, <1>1, <1>2, <2>2, <2>3 DEF Takes
<1> QED
  BY Zenon, <1>7, <1>8, <1>9

LEMMA OneActs ==
  ASSUME NEW x \in EndState, NEW y \in EndState, Numbered(x, MaxOpen),
         Neat(x), NEW n \in Slots, OneStream(x, y, n), NEW z,
         Writer(x, y, z, x.ch[n].id), Reader(x, y, x.ch[n].id)
  PROVE  Acts(x, y, z)
  BY Zenon, OneNeat, OneOthers DEF Acts

LEMMA OneHandles ==
  ASSUME NEW x \in EndState, NEW y \in EndState, Numbered(x, MaxOpen),
         Neat(x), NEW n \in Slots, OneStream(x, y, n), NEW z,
         x.rx.num = 0, NEW p \in Packet, p.id = x.ch[n].id,
         Writer(x, y, z, p.id), Takes(x, y, p.id, p)
  PROVE  Handles(x, y, z, p)
  BY Zenon, OneNeat, OneOthers DEF Handles

\* One packet more.
LEMMA OneMore ==
  ASSUME NEW x \in EndState, NEW y, NEW p \in Packet,
         y.out = Append(x.out, p)
  PROVE  /\ Longer(x, y) /\ Len(y.out) = Len(x.out) + 1
         /\ y.out[Len(y.out)] = p
         /\ \A j \in 1 .. Len(y.out) : j > Len(x.out) => y.out[j] = p
<1>1. x.out \in Seq(Packet)
  BY Zenon, Lengths
<1> QED
  BY <1>1 DEF Longer

LEMMA NoMore ==
  ASSUME NEW x \in EndState, NEW y, y.out = x.out
  PROVE  /\ Longer(x, y)
         /\ \A j \in 1 .. Len(y.out) : ~ (j > Len(x.out))
<1>1. Len(x.out) \in Nat
  BY Zenon, Lengths
<1> QED
  BY <1>1 DEF Longer

\* Nothing changes for the reader of conversation i.
LEMMA SameReader ==
  ASSUME NEW x \in EndState, NEW y \in EndState, NEW i \in Ids,
         y.rx = x.rx,
         \A m \in Slots : /\ y.ch[m].id = x.ch[m].id
                          /\ y.ch[m].state = "Free" => x.ch[m].state = "Free"
                          /\ x.ch[m].sentClose => y.ch[m].sentClose,
         y.log[i].got = x.log[i].got, y.log[i].eof = x.log[i].eof,
         y.log[i].left = x.log[i].left
  PROVE  Reader(x, y, i)
<1>1. Holds(y, i) <=> Holds(x, i)
  BY Zenon, RxFacts DEF Holds
<1>2. Reach(y, i) = Reach(x, i)
  BY Zenon, <1>1 DEF Reach
<1> QED
  BY Zenon, <1>1, <1>2 DEF Reader, Reads, Gone, Freed

\* Write sends one packet of data.
LEMMA WroteActs ==
  ASSUME NEW x, Sound(x), Neat(x), NEW y \in EndState, NEW n \in Slots,
         x.ch[n].state \notin Early, x.ch[n].state # "Free",
         NEW k \in Nat \ {0}, Wrote(x, y, n, k), NEW z
  PROVE  Acts(x, y, z)
<1> DEFINE i == x.ch[n].id
<1>1. x \in EndState /\ Numbered(x, MaxOpen)
  BY Zenon DEF Sound
<1>2. i \in Ids /\ x.log[i] \in Log /\ i # 0
  BY Zenon, <1>1, Known, IdsPositive
<1>3. /\ OtherSlots(x, y, n) /\ y.rx = x.rx /\ y.handles = x.handles
      /\ ~ x.ch[n].sentEof /\ y.ch[n].id = i /\ y.ch[n].done = x.ch[n].done
      /\ y.ch[n].state = x.ch[n].state
      /\ y.ch[n].sentEof = x.ch[n].sentEof
      /\ y.ch[n].sentClose = x.ch[n].sentClose
      /\ OtherLogs(x, y, i)
      /\ y.log[i] = [x.log[i] EXCEPT !.wrote = @ + k]
  BY Zenon DEF Wrote, Aside, SlotRest
<1>4. PICK p \in Packet : /\ p.t = "Data" /\ p.len = k /\ Of(x, n, p)
                          /\ y.out = Append(x.out, p)
  BY Zenon DEF Wrote
<1>5. /\ Longer(x, y) /\ Len(y.out) = Len(x.out) + 1
      /\ y.out[Len(y.out)] = p
      /\ \A j \in 1 .. Len(y.out) : j > Len(x.out) => y.out[j] = p
  BY Zenon, <1>1, <1>4, OneMore
<1>6. /\ y.log[i].wrote = x.log[i].wrote + k
      /\ y.log[i].got = x.log[i].got /\ y.log[i].ended = x.log[i].ended
      /\ y.log[i].eof = x.log[i].eof /\ y.log[i].left = x.log[i].left
  <2> DEFINE l == x.log[i]
             m == y.log[i]
  <2>1. l \in Log /\ m = [l EXCEPT !.wrote = @ + k]
    BY Zenon, <1>2, <1>3
  <2> HIDE DEF l, m
  <2>2. /\ m.wrote = l.wrote + k /\ m.got = l.got /\ m.ended = l.ended
        /\ m.eof = l.eof /\ m.left = l.left
    BY Zenon, <2>1 DEF Log
  <2> QED
    BY Zenon, <2>2 DEF l, m
<1>7. /\ x.log[i].ended => x.ch[n].sentEof
      /\ x.ch[n].done => x.log[i].left
      /\ n \in x.handles => ~ x.log[i].left
  BY Zenon, <1>2 DEF Neat
<1>8. p.id = i /\ p.at = x.log[i].wrote
  BY Zenon, <1>4 DEF Of
<1> HIDE DEF i
<1>9. OneStream(x, y, n)
  BY Zenon, <1>2, <1>3, <1>5, <1>6, <1>7, <1>8 DEF OneStream, i
<1>10. \A m \in Slots : /\ y.ch[m].id = x.ch[m].id
                        /\ y.ch[m].state = "Free" => x.ch[m].state = "Free"
                        /\ x.ch[m].sentClose => y.ch[m].sentClose
  BY Zenon, <1>3 DEF OtherSlots, i
<1>11. Reader(x, y, i)
  BY Zenon, <1>1, <1>2, <1>3, <1>6, <1>10, SameReader
<1>12. Writer(x, y, z, i)
  <2>1. Gone(x, i) => Gone(y, i)
    BY Zenon, <1>6, <1>10 DEF Gone
  <2>2. p.len > 0
    BY <1>4
  <2> QED
    BY Zenon, <1>3, <1>4, <1>5, <1>6, <1>7, <1>8, <2>1, <2>2
       DEF Writer, IsData
<1> QED
  BY Zenon, <1>1, <1>9, <1>11, <1>12, OneActs DEF i

\* A step that sends nothing or a packet that writes nothing on channel n.
LEMMA SendsSilent ==
  ASSUME NEW x \in EndState, NEW y, NEW n \in Slots,
         Sends(x, y, n, {"Adjust"})
  PROVE  /\ Longer(x, y)
         /\ \A j \in 1 .. Len(y.out) : j > Len(x.out) =>
              /\ y.out[j].t = "Adjust" /\ y.out[j].id = x.ch[n].id
              /\ y.out[j].at = x.log[x.ch[n].id].wrote
<1>1. CASE y.out = x.out
  BY Zenon, <1>1, NoMore
<1>2. ASSUME NEW p \in Packet, p.t = "Adjust", Of(x, n, p),
             y.out = Append(x.out, p)
      PROVE  /\ Longer(x, y)
             /\ \A j \in 1 .. Len(y.out) : j > Len(x.out) => y.out[j] = p
  BY Zenon, <1>2, OneMore
<1>3. CASE y.out # x.out
  <2>1. PICK p \in Packet : /\ p.t = "Adjust" /\ Of(x, n, p)
                            /\ y.out = Append(x.out, p)
    BY Zenon, <1>3 DEF Sends
  <2>2. p.id = x.ch[n].id /\ p.at = x.log[x.ch[n].id].wrote
    BY Zenon, <2>1 DEF Of
  <2> QED
    BY Zenon, <1>2, <2>1, <2>2
<1> QED
  BY Zenon, <1>1, <1>3

\* Of l bytes that are held k are read, with g read before.
LEMMA ReadOn ==
  ASSUME NEW g \in Nat, NEW l \in Nat, NEW k \in Nat, k # 0, k <= l
  PROVE  /\ g + k > g /\ g + k <= g + l /\ (g + k) + (l - k) = g + l
         /\ ~ (k < l) => (g + k) + 0 = g + l
  OBVIOUS

LEMMA NoDataNum == NoData.num = 0
  BY DEF NoData

\* Read takes bytes of the packet in TrafIn.
LEMMA ReadingActs ==
  ASSUME NEW x, Sound(x), Neat(x), NEW y \in EndState, NEW n \in Slots,
         n \in x.handles, x.rx.num = n,
         NEW k \in Nat \ {0}, k <= x.rx.left, Reading(x, y, n, k), NEW z
  PROVE  Acts(x, y, z)
<1> DEFINE i == x.ch[n].id
<1>1. x \in EndState /\ Numbered(x, MaxOpen) /\ n # 0
  BY DEF Sound, Slots
<1>2. x.ch[n].state \in Usual /\ x.ch[n].state # "Free"
      /\ x.ch[n].state \notin Early
  BY Zenon, <1>1 DEF Sound, Tidy, Usual, Early
<1>3. i \in Ids /\ x.log[i] \in Log /\ i # 0
  BY Zenon, <1>1, <1>2, Known, IdsPositive
<1>4. /\ OtherSlots(x, y, n) /\ y.handles = x.handles
      /\ y.ch[n].id = i /\ y.ch[n].done = x.ch[n].done
      /\ y.ch[n].state = x.ch[n].state
      /\ y.ch[n].sentEof = x.ch[n].sentEof
      /\ y.ch[n].sentClose = x.ch[n].sentClose
      /\ OtherLogs(x, y, i)
      /\ y.log[i] = [x.log[i] EXCEPT !.got = @ + k]
      /\ Sends(x, y, n, {"Adjust"})
      /\ IF k < x.rx.left
           THEN y.rx.num = n /\ y.rx.len = x.rx.len /\ y.rx.left = x.rx.left - k
           ELSE y.rx = NoData
  BY Zenon DEF Reading
<1>5. /\ Longer(x, y)
      /\ \A j \in 1 .. Len(y.out) : j > Len(x.out) =>
           /\ y.out[j].t = "Adjust" /\ y.out[j].id = i
           /\ y.out[j].at = x.log[i].wrote
  <2>1. Sends(x, y, n, {"Adjust"})
    BY Zenon, <1>4
  <2> QED
    BY SMT, <1>1, <2>1, SendsSilent
<1>6. /\ y.log[i].wrote = x.log[i].wrote
      /\ y.log[i].got = x.log[i].got + k /\ y.log[i].ended = x.log[i].ended
      /\ y.log[i].eof = x.log[i].eof /\ y.log[i].left = x.log[i].left
  <2> DEFINE l == x.log[i]
             m == y.log[i]
  <2>1. l \in Log /\ m = [l EXCEPT !.got = @ + k]
    BY Zenon, <1>3, <1>4
  <2> HIDE DEF l, m
  <2>2. /\ m.wrote = l.wrote /\ m.got = l.got + k /\ m.ended = l.ended
        /\ m.eof = l.eof /\ m.left = l.left
    BY Zenon, <2>1 DEF Log
  <2> QED
    BY Zenon, <2>2 DEF l, m
<1>7. /\ x.log[i].ended => x.ch[n].sentEof
      /\ x.ch[n].done => x.log[i].left
      /\ ~ x.log[i].left
  BY Zenon, <1>3 DEF Neat
<1>8. y.rx.num \in {0, n}
  BY <1>4 DEF NoData
<1>9. Holds(x, i) /\ (y.rx.num = n => Holds(y, i))
      /\ (y.rx.num = 0 => ~ Holds(y, i))
  BY Zenon, <1>1, <1>4 DEF Holds
<1>10. y.log[i].got > x.log[i].got /\ y.log[i].got <= Reach(x, i)
       /\ Reach(y, i) = Reach(x, i)
  <2> DEFINE g == x.log[i].got
             l == x.rx.left
  <2>1. g \in Nat /\ l \in Nat /\ k \in Nat /\ k # 0 /\ k <= l
    BY Zenon, <1>1, <1>3, LogFacts, RxFacts
  <2>2. Reach(x, i) = g + l /\ y.log[i].got = g + k
    BY Zenon, <1>6, <1>9 DEF Reach
  <2>3. CASE k < l
    <3>1. y.rx.num = n /\ y.rx.left = l - k
      BY Zenon, <1>4, <2>3
    <3>2. Reach(y, i) = (g + k) + (l - k)
      BY Zenon, <1>9, <2>2, <3>1 DEF Reach
    <3> HIDE DEF g, l
    <3>3. g + k > g /\ g + k <= g + l /\ (g + k) + (l - k) = g + l
      BY Zenon, <2>1, ReadOn
    <3> QED
      BY Zenon, <2>2, <3>2, <3>3 DEF g
  <2>4. CASE ~ (k < l)
    <3>1. y.rx = NoData
      BY Zenon, <1>4, <2>4
    <3>2. y.rx.num = 0
      BY Zenon, <3>1, NoDataNum
    <3>3. Reach(y, i) = (g + k) + 0
      BY Zenon, <1>9, <2>2, <3>2 DEF Reach
    <3> HIDE DEF g, l
    <3>4. g + k > g /\ g + k <= g + l /\ (g + k) + 0 = g + l
      BY Zenon, <2>1, <2>4, ReadOn
    <3> QED
      BY Zenon, <2>2, <3>3, <3>4 DEF g
  <2> QED
    BY Zenon, <2>3, <2>4
<1> HIDE DEF i
<1>11. OneStream(x, y, n)
  BY Zenon, <1>2, <1>3, <1>4, <1>5, <1>6, <1>7, <1>8 DEF OneStream, i
<1>12. \A m \in Slots : /\ y.ch[m].id = x.ch[m].id
                        /\ y.ch[m].state = "Free" => x.ch[m].state = "Free"
                        /\ x.ch[m].sentClose => y.ch[m].sentClose
  BY Zenon, <1>4 DEF OtherSlots, i
<1>13. (Gone(x, i) => Gone(y, i)) /\ (Freed(y, i) => Freed(x, i))
  BY Zenon, <1>6, <1>12 DEF Gone, Freed
<1>14. Reader(x, y, i)
  BY Zenon, <1>6, <1>7, <1>9, <1>10, <1>13 DEF Reader, Reads
<1>15. Writer(x, y, z, i)
  <2>1. \A j \in 1 .. Len(y.out) : j > Len(x.out) /\ y.out[j].id = i =>
          Silent(y, z, i, x.log[i].wrote, j)
    BY Zenon, <1>5 DEF Silent
  <2> QED
    BY Zenon, <1>5, <1>6, <1>13, <2>1 DEF Writer
<1> QED
  BY Zenon, <1>1, <1>11, <1>14, <1>15, OneActs DEF i

\* send_channel_eof says that the stream ends.
LEMMA EndedActs ==
  ASSUME NEW x, Sound(x), Neat(x), NEW y \in EndState, NEW n \in Slots,
         x.ch[n].state \notin Early, x.ch[n].state # "Free",
         ~ x.ch[n].sentEof, y.err = "ok", Aside(x, y, n), Ended(x, y, n),
         NEW z
  PROVE  Acts(x, y, z)
<1> DEFINE i == x.ch[n].id
<1>1. x \in EndState /\ Numbered(x, MaxOpen)
  BY Zenon DEF Sound
<1>2. i \in Ids /\ x.log[i] \in Log /\ i # 0 /\ x.ch[n] \in Channel
  BY Zenon, <1>1, Known, IdsPositive, SlotFacts
<1>3. /\ OtherSlots(x, y, n) /\ y.rx = x.rx /\ y.handles = x.handles
      /\ Said(x, y, n, "Eof")
      /\ y.ch[n] = [x.ch[n] EXCEPT !.sentEof = TRUE]
      /\ y.log[i] = [x.log[i] EXCEPT !.ended = TRUE]
      /\ OtherLogs(x, y, i)
  BY Zenon DEF Ended, Aside, Stuck
<1>4. PICK p \in Packet : /\ p.t = "Eof" /\ Of(x, n, p)
                          /\ y.out = Append(x.out, p)
  BY Zenon, <1>3 DEF Said
<1>5. /\ Longer(x, y)
      /\ \A j \in 1 .. Len(y.out) : j > Len(x.out) => y.out[j] = p
  BY Zenon, <1>1, <1>4, OneMore
<1>6. /\ y.log[i].wrote = x.log[i].wrote /\ y.log[i].got = x.log[i].got
      /\ y.log[i].ended
      /\ y.log[i].eof = x.log[i].eof /\ y.log[i].left = x.log[i].left
  <2> DEFINE l == x.log[i]
             m == y.log[i]
  <2>1. l \in Log /\ m = [l EXCEPT !.ended = TRUE]
    BY Zenon, <1>2, <1>3
  <2> HIDE DEF l, m
  <2>2. /\ m.wrote = l.wrote /\ m.got = l.got /\ m.ended
        /\ m.eof = l.eof /\ m.left = l.left
    BY Zenon, <2>1 DEF Log
  <2> QED
    BY Zenon, <2>2 DEF l, m
<1>7. /\ y.ch[n].id = i /\ y.ch[n].done = x.ch[n].done
      /\ y.ch[n].state = x.ch[n].state /\ y.ch[n].sentEof
      /\ y.ch[n].sentClose = x.ch[n].sentClose
  <2> DEFINE l == x.ch[n]
             m == y.ch[n]
  <2>1. l \in Channel /\ m = [l EXCEPT !.sentEof = TRUE]
    BY Zenon, <1>2, <1>3
  <2> HIDE DEF l, m
  <2>2. /\ m.id = l.id /\ m.done = l.done /\ m.state = l.state
        /\ m.sentEof /\ m.sentClose = l.sentClose
    BY ZenonT(60), <2>1 DEF Channel
  <2> QED
    BY Zenon, <2>2 DEF l, m
<1>8. /\ x.ch[n].done => x.log[i].left
      /\ n \in x.handles => ~ x.log[i].left
      /\ p.id = i /\ p.at = x.log[i].wrote
  BY Zenon, <1>2, <1>4 DEF Neat, Of
<1> HIDE DEF i
<1>9. OneStream(x, y, n)
  BY Zenon, <1>2, <1>3, <1>5, <1>6, <1>7, <1>8 DEF OneStream, i
<1>10. \A m \in Slots : /\ y.ch[m].id = x.ch[m].id
                        /\ y.ch[m].state = "Free" => x.ch[m].state = "Free"
                        /\ x.ch[m].sentClose => y.ch[m].sentClose
  BY Zenon, <1>3, <1>7 DEF OtherSlots, i
<1>11. Reader(x, y, i)
  BY Zenon, <1>1, <1>2, <1>3, <1>6, <1>10, SameReader
<1>12. Writer(x, y, z, i)
  <2>1. Gone(x, i) => Gone(y, i)
    BY Zenon, <1>6, <1>10 DEF Gone
  <2>2. \A j \in 1 .. Len(y.out) : j > Len(x.out) /\ y.out[j].id = i =>
          Silent(y, z, i, x.log[i].wrote, j)
    BY Zenon, <1>4, <1>5, <1>6, <1>8 DEF Silent
  <2> QED
    BY Zenon, <1>5, <1>6, <2>1, <2>2 DEF Writer
<1> QED
  BY Zenon, <1>1, <1>9, <1>11, <1>12, OneActs DEF i

\* The reader leaves, and data in TrafIn is dropped.
LEMMA LeavesActs ==
  ASSUME NEW x, Sound(x), Neat(x), NEW y \in EndState, NEW n \in Slots,
         x.ch[n].state \notin Early, x.ch[n].state # "Free",
         Leaves(x, y, n), NEW i, i = x.ch[n].id,
         y.log[i].wrote = x.log[i].wrote, y.log[i].got = x.log[i].got,
         y.log[i].eof = x.log[i].eof, y.log[i].left,
         x.log[i].ended => y.log[i].ended,
         y.log[i].ended => y.ch[n].sentEof,
         x.ch[n].sentClose => y.ch[n].sentClose,
         Longer(x, y), NEW z,
         \A j \in 1 .. Len(y.out) : j > Len(x.out) =>
            y.out[j].id = i /\ Silent(y, z, i, x.log[i].wrote, j)
  PROVE  Acts(x, y, z)
<1>1. x \in EndState /\ Numbered(x, MaxOpen)
  BY Zenon DEF Sound
<1>2. i \in Ids /\ i # 0
  BY Zenon, <1>1, Known, IdsPositive
<1>3. /\ OtherSlots(x, y, n) /\ y.handles = x.handles \ {n}
      /\ y.ch[n].id = i /\ y.ch[n].state = x.ch[n].state
      /\ OtherLogs(x, y, i)
  BY Zenon DEF Leaves
<1>4. y.rx = IF x.rx.num = n THEN NoData ELSE x.rx
  BY Zenon DEF Leaves
<1>5. y.rx = x.rx \/ (x.rx.num = n /\ y.rx.num = 0)
  <2>1. NoData.num = 0
    BY Zenon DEF NoData
  <2> QED
    BY Zenon, <1>4, <2>1
<1>6. n \notin y.handles /\ y.handles \subseteq x.handles
  BY Zenon, <1>3
<1>7. OneStream(x, y, n)
  BY Zenon, <1>2, <1>3, <1>5, <1>6 DEF OneStream
<1>8. \A m \in Slots : /\ y.ch[m].id = x.ch[m].id
                       /\ y.ch[m].state = "Free" => x.ch[m].state = "Free"
                       /\ x.ch[m].sentClose => y.ch[m].sentClose
  BY Zenon, <1>3 DEF OtherSlots
<1>9. (Gone(x, i) => Gone(y, i)) /\ (Freed(y, i) => Freed(x, i))
  BY Zenon, <1>8 DEF Gone, Freed
<1>10. Holds(y, i) => Holds(x, i)
  BY Zenon, <1>1, <1>5, <1>8, RxFacts DEF Holds
<1>11. Reader(x, y, i)
  BY Zenon, <1>9, <1>10 DEF Reader, Reads
<1>12. Writer(x, y, z, i)
  BY Zenon, <1>9 DEF Writer
<1> QED
  BY Zenon, <1>1, <1>7, <1>11, <1>12, OneActs

\* channel_done.
LEMMA DoneActs ==
  ASSUME NEW x, Sound(x), Neat(x), NEW y \in EndState, NEW n \in Slots,
         x.ch[n].state \notin Early, x.ch[n].state # "Free",
         Done(x, y, n), NEW z
  PROVE  Acts(x, y, z)
<1> DEFINE i == x.ch[n].id
<1>1. x \in EndState /\ Numbered(x, MaxOpen)
  BY Zenon DEF Sound
<1>2. i \in Ids /\ x.log[i] \in Log /\ i # 0
  BY Zenon, <1>1, Known, IdsPositive
<1>3. /\ Leaves(x, y, n) /\ y.out = x.out
      /\ y.log[i] = [x.log[i] EXCEPT !.left = TRUE]
      /\ y.ch[n].sentEof = x.ch[n].sentEof
      /\ y.ch[n].sentClose = x.ch[n].sentClose
  BY Zenon DEF Done
<1>4. /\ y.log[i].wrote = x.log[i].wrote /\ y.log[i].got = x.log[i].got
      /\ y.log[i].ended = x.log[i].ended
      /\ y.log[i].eof = x.log[i].eof /\ y.log[i].left
  <2> DEFINE l == x.log[i]
             m == y.log[i]
  <2>1. l \in Log /\ m = [l EXCEPT !.left = TRUE]
    BY Zenon, <1>2, <1>3
  <2> HIDE DEF l, m
  <2>2. /\ m.wrote = l.wrote /\ m.got = l.got /\ m.ended = l.ended
        /\ m.eof = l.eof /\ m.left
    BY Zenon, <2>1 DEF Log
  <2> QED
    BY Zenon, <2>2 DEF l, m
<1>5. x.log[i].ended => x.ch[n].sentEof
  BY Zenon, <1>2 DEF Neat
<1>6. Longer(x, y) /\ \A j \in 1 .. Len(y.out) : ~ (j > Len(x.out))
  BY Zenon, <1>1, <1>3, NoMore
<1>7. i = x.ch[n].id
  OBVIOUS
<1> HIDE DEF i
<1> QED
  BY Zenon, <1>3, <1>4, <1>5, <1>6, <1>7, LeavesActs

\* Another implementation closes the channel.
LEMMA ClosesActs ==
  ASSUME NEW x, Sound(x), Neat(x), NEW y \in EndState, NEW n \in Slots,
         x.ch[n].state \notin Early, x.ch[n].state # "Free",
         Closes(x, y, n), NEW z
  PROVE  Acts(x, y, z)
<1> DEFINE i == x.ch[n].id
<1>1. x \in EndState /\ Numbered(x, MaxOpen)
  BY Zenon DEF Sound
<1>2. i \in Ids /\ x.log[i] \in Log /\ i # 0
  BY Zenon, <1>1, Known, IdsPositive
<1>3. /\ Leaves(x, y, n) /\ Said(x, y, n, "Close")
      /\ y.log[i] = [x.log[i] EXCEPT !.ended = TRUE, !.left = TRUE]
      /\ y.ch[n].sentEof /\ y.ch[n].sentClose
  BY Zenon DEF Closes
<1>4. /\ y.log[i].wrote = x.log[i].wrote /\ y.log[i].got = x.log[i].got
      /\ y.log[i].ended
      /\ y.log[i].eof = x.log[i].eof /\ y.log[i].left
  <2> DEFINE l == x.log[i]
             m == y.log[i]
  <2>1. l \in Log /\ m = [l EXCEPT !.ended = TRUE, !.left = TRUE]
    BY Zenon, <1>2, <1>3
  <2> HIDE DEF l, m
  <2>2. /\ m.wrote = l.wrote /\ m.got = l.got /\ m.ended
        /\ m.eof = l.eof /\ m.left
    BY Zenon, <2>1 DEF Log
  <2> QED
    BY Zenon, <2>2 DEF l, m
<1>5. PICK p \in Packet : /\ p.t = "Close" /\ Of(x, n, p)
                          /\ y.out = Append(x.out, p)
  BY Zenon, <1>3 DEF Said
<1>6. /\ Longer(x, y)
      /\ \A j \in 1 .. Len(y.out) : j > Len(x.out) => y.out[j] = p
  BY Zenon, <1>1, <1>5, OneMore
<1>7. p.id = i /\ p.at = x.log[i].wrote
  BY Zenon, <1>5 DEF Of
<1>8. Gone(y, i)
  BY Zenon, <1>3, <1>4 DEF Gone, Leaves
<1>9. i = x.ch[n].id
  OBVIOUS
<1> HIDE DEF i
<1>10. \A j \in 1 .. Len(y.out) : j > Len(x.out) =>
         y.out[j].id = i /\ Silent(y, z, i, x.log[i].wrote, j)
  BY Zenon, <1>4, <1>5, <1>6, <1>7, <1>8 DEF Silent
<1> QED
  BY Zenon, <1>3, <1>4, <1>6, <1>9, <1>10, LeavesActs

-----------------------------------------------------------------------------
(* Packets that reach an open channel.                                     *)

\* A Close that this end has not sent before answers one of a peer that has
\* left.
LEMMA CloseAnswers ==
  ASSUME NEW x, Numbered(x, MaxOpen), NEW z, NEW n \in Slots,
         x.ch[n].id # 0, ~ x.ch[n].sentClose,
         StreamOf(z, x, x.ch[n].id), 1 \in 1 .. Len(z.out),
         z.out[1].id = x.ch[n].id, z.out[1].t = "Close"
  PROVE  Gone(z, x.ch[n].id)
<1>1. ~ Gone(x, x.ch[n].id)
  BY Zenon DEF Gone, Numbered
<1> QED
  BY Zenon, <1>1 DEF StreamOf

\* handle_eof and handle_close.
LEMMA EndHeardHandles ==
  ASSUME NEW x, Sound(x), Neat(x), NEW y \in EndState, NEW n \in Slots,
         x.ch[n].state \notin Early, x.ch[n].state # "Free", x.rx.num = 0,
         NEW t \in {"Eof", "Close"}, EndHeard(x, y, n, t),
         NEW p \in Packet, p.t = t, p.id = x.ch[n].id, NEW z,
         t = "Close" /\ ~ x.ch[n].sentClose => Gone(z, p.id)
  PROVE  Handles(x, y, z, p)
<1> DEFINE i == x.ch[n].id
<1>1. x \in EndState /\ Numbered(x, MaxOpen)
  BY Zenon DEF Sound
<1>2. i \in Ids /\ x.log[i] \in Log /\ i # 0
  BY Zenon, <1>1, Known, IdsPositive
<1>3. /\ y.rx = x.rx /\ OtherSlots(x, y, n) /\ OtherLogs(x, y, i)
      /\ y.ch[n].id = i /\ y.ch[n].done = x.ch[n].done
      /\ y.ch[n].state \notin Early
      /\ x.ch[n].sentClose => y.ch[n].sentClose
      /\ y.handles \subseteq x.handles
      /\ n \in y.handles => y.ch[n].state # "Free"
      /\ y.ch[n].state = "Free" => t = "Close"
  BY Zenon DEF EndHeard
<1>4. /\ y.log[i].wrote = x.log[i].wrote /\ y.log[i].got = x.log[i].got
      /\ y.log[i].left = x.log[i].left
      /\ y.log[i].eof = (x.log[i].eof \/ ~ x.log[i].left)
      /\ x.log[i].ended => y.log[i].ended
      /\ y.log[i].ended => y.ch[n].sentEof
  BY Zenon DEF EndHeard
<1>5. /\ x.ch[n].done => x.log[i].left
      /\ n \in x.handles => ~ x.log[i].left
  BY Zenon, <1>2 DEF Neat
<1>6. /\ Longer(x, y)
      /\ \A j \in 1 .. Len(y.out) : j > Len(x.out) =>
           y.out[j].id = i /\ Silent(y, z, i, x.log[i].wrote, j)
  <2>1. CASE y.out = x.out
    BY Zenon, <1>1, <2>1, NoMore
  <2>2. CASE y.out # x.out
    <3>1. /\ t = "Eof" => y.log[i].ended
          /\ t = "Close" => Gone(z, i)
      BY Zenon, <2>2 DEF EndHeard
    <3>2. PICK q \in Packet : /\ q.t = t /\ Of(x, n, q)
                              /\ y.out = Append(x.out, q)
      BY Zenon, <2>2 DEF EndHeard
    <3>3. /\ Longer(x, y)
          /\ \A j \in 1 .. Len(y.out) : j > Len(x.out) => y.out[j] = q
      <4>1. y.out = Append(x.out, q)
        BY Zenon, <3>2
      <4> QED
        BY <1>1, <4>1, OneMore
    <3>4. q.id = i /\ q.at = x.log[i].wrote /\ q.t # "Data"
      BY Zenon, <3>2 DEF Of
    <3>5. \A j \in 1 .. Len(y.out) : j > Len(x.out) =>
            y.out[j].id = i /\ Silent(y, z, i, x.log[i].wrote, j)
      <4>1. \A j : y.out[j] = q => Silent(y, z, i, x.log[i].wrote, j)
        <5> SUFFICES ASSUME NEW j, y.out[j] = q
                     PROVE  Silent(y, z, i, x.log[i].wrote, j)
          OBVIOUS
        <5>1. y.out[j].t = t /\ y.out[j].at = x.log[i].wrote
          BY Zenon, <3>2, <3>4
        <5> HIDE DEF i
        <5>2. CASE t = "Eof"
          BY Zenon, <3>1, <5>1, <5>2 DEF Silent
        <5>3. CASE t = "Close"
          BY Zenon, <3>1, <5>1, <5>3 DEF Silent
        <5> QED
          BY Zenon, <5>2, <5>3
      <4> QED
        BY Zenon, <3>3, <3>4, <4>1
    <3> QED
      BY Zenon, <3>3, <3>5
  <2> QED
    BY Zenon, <2>1, <2>2
<1>7. p.id = i
  OBVIOUS
<1> HIDE DEF i
<1>8. OneStream(x, y, n)
  BY Zenon, <1>2, <1>3, <1>4, <1>5, <1>6 DEF OneStream, i
<1>9. Gone(x, i) => Gone(y, i)
  BY Zenon, <1>3, <1>4 DEF Gone, OtherSlots, i
<1>10. Freed(y, i) => Freed(x, i) \/ t = "Close"
  BY Zenon, <1>3 DEF Freed, OtherSlots, i
<1>11. Writer(x, y, z, i)
  BY Zenon, <1>4, <1>6, <1>9 DEF Writer
<1>12. ~ Holds(x, i) /\ ~ Holds(y, i)
  BY Zenon, <1>3 DEF Holds
<1>13. Reach(y, i) = Reach(x, i) + Bytes(p, i)
  <2>1. Bytes(p, i) = 0
    BY Zenon DEF Bytes, IsData
  <2>2. Reach(y, i) = y.log[i].got /\ Reach(x, i) = x.log[i].got
        /\ x.log[i].got \in Nat
    BY Zenon, <1>1, <1>2, <1>12, ReachNat, LogFacts
  <2> QED
    BY <1>4, <2>1, <2>2
<1>14. \/ y.log[i].eof = x.log[i].eof
       \/ y.log[i].eof /\ ~ x.log[i].left
  <2>1. x.log[i].eof \in BOOLEAN
    BY Zenon, <1>2 DEF Log
  <2> QED
    BY Zenon, <1>4, <2>1
<1>15. Takes(x, y, i, p)
  BY Zenon, <1>4, <1>7, <1>9, <1>10, <1>12, <1>13, <1>14 DEF Takes
<1> QED
  BY Zenon, <1>1, <1>7, <1>8, <1>11, <1>15, OneHandles DEF i

\* Data that waits to be read.
LEMMA DataHandles ==
  ASSUME NEW x, Sound(x), Neat(x), NEW y \in EndState, NEW n \in Slots,
         x.ch[n].state \notin Early, x.ch[n].state # "Free", x.rx.num = 0,
         NEW p \in Packet, DataHeard(x, y, n, p),
         p.t = "Data", p.id = x.ch[n].id, NEW z
  PROVE  Handles(x, y, z, p)
<1> DEFINE i == x.ch[n].id
<1>1. x \in EndState /\ Numbered(x, MaxOpen) /\ n # 0
  BY Zenon, SlotsPositive DEF Sound
<1>2. i \in Ids /\ x.log[i] \in Log /\ i # 0
  BY Zenon, <1>1, Known, IdsPositive
<1>3. /\ y.ch = x.ch /\ y.log = x.log /\ y.out = x.out
      /\ y.handles = x.handles /\ y.rx.num = n /\ y.rx.left = p.len
  BY Zenon DEF DataHeard
<1>4. Longer(x, y) /\ \A j \in 1 .. Len(y.out) : ~ (j > Len(x.out))
  BY Zenon, <1>1, <1>3, NoMore
<1>5. /\ x.log[i].ended => x.ch[n].sentEof
      /\ x.ch[n].done => x.log[i].left
      /\ n \in x.handles => ~ x.log[i].left
  BY Zenon, <1>2 DEF Neat
<1>6. p.id = i
  OBVIOUS
<1> HIDE DEF i
<1>7. OneStream(x, y, n)
  BY Zenon, <1>2, <1>3, <1>4, <1>5
     DEF OneStream, OtherSlots, OtherLogs, i
<1>8. (Gone(x, i) => Gone(y, i)) /\ (Freed(y, i) => Freed(x, i))
  BY Zenon, <1>3 DEF Gone, Freed
<1>9. Writer(x, y, z, i)
  BY Zenon, <1>3, <1>4, <1>8 DEF Writer
<1>10. ~ Holds(x, i) /\ Holds(y, i) /\ IsData(p, i)
  BY Zenon, <1>1, <1>3, <1>6 DEF Holds, IsData, i
<1>11. Reach(y, i) = Reach(x, i) + Bytes(p, i)
  BY Zenon, <1>1, <1>2, <1>3, <1>10, ReachNat DEF Reach, Bytes
<1>12. Takes(x, y, i, p)
  BY Zenon, <1>3, <1>8, <1>10, <1>11 DEF Takes
<1> QED
  BY Zenon, <1>1, <1>6, <1>7, <1>9, <1>12, OneHandles DEF i

-----------------------------------------------------------------------------
(* Steps that do nothing to a stream.                                      *)

LEMMA SteadyQuiet ==
  ASSUME NEW x \in EndState, NEW y, Steady(x, y)
  PROVE  Quiet(x, y)
<1>1. Longer(x, y) /\ \A j \in 1 .. Len(y.out) : ~ (j > Len(x.out))
  BY Zenon, NoMore DEF Steady
<1>2. \A n \in Slots : Kept(x, y, n)
  BY Zenon DEF Steady, Kept
<1> QED
  BY Zenon, <1>1, <1>2 DEF Quiet, Steady

LEMMA ProgressedQuiet ==
  ASSUME NEW x \in EndState, NEW y, Progressed(x, y)
  PROVE  Quiet(x, y)
<1>1. Longer(x, y)
  BY Zenon DEF Progressed, Longer
<1>2. \A n \in Slots : Kept(x, y, n)
  BY Zenon DEF Progressed, Kept
<1>3. \A p \in Notices(x) : /\ p.t \notin {"Data", "Eof", "Close"}
                            /\ p.at = x.log[p.id].wrote
  BY Zenon DEF Notices, Of
<1>4. \A j \in 1 .. Len(y.out) : j > Len(x.out) => y.out[j] \in Notices(x)
  BY Zenon DEF Progressed
<1> QED
  BY Zenon, <1>1, <1>2, <1>3, <1>4 DEF Quiet, Progressed

\* A slot that no other step of an end touches.
LEMMA KeptSame ==
  ASSUME NEW x, NEW y, NEW k, y.ch[k] = x.ch[k],
         k \in y.handles => k \in x.handles
  PROVE  Kept(x, y, k)
  BY Zenon DEF Kept

\* A conversation without a slot has an empty log.
LEMMA NoSlotLog ==
  ASSUME NEW x, Neat(x), NEW i \in Ids, NoSlot(x, i)
  PROVE  x.log[i].wrote = 0
<1>1. x.log[i] = NewLog
  BY Zenon DEF Neat, NoSlot
<1> QED
  BY Zenon, <1>1, NewLogFields

LEMMA OpenedQuiet ==
  ASSUME NEW c \in EndState, Neat(c), Numbered(c, c.nOpen), NEW d \in EndState,
         NEW n \in Slots, Opened(c, d, n)
  PROVE  Quiet(c, d)
<1> DEFINE i == d.ch[n].id
<1>1. c.nOpen \in Nat /\ i = c.nOpen + 1 /\ i = d.nOpen
  BY Zenon DEF Opened, EndState
<1>2. NoSlot(c, i)
  <2>1. \A m \in Slots : c.ch[m].id \in Nat /\ c.ch[m].id <= c.nOpen
    BY Zenon, SlotFacts DEF Numbered
  <2> HIDE DEF i
  <2> QED
    BY <1>1, <2>1 DEF NoSlot
<1>3. Longer(c, d)
  BY Zenon DEF Opened, Longer
<1>4. Begun(c, d, n)
  BY Zenon, <1>2 DEF Opened, Begun, Early
<1>5. \A m \in Slots : m # n => Kept(c, d, m)
  BY Zenon, KeptSame DEF Opened
<1>6. \A j \in 1 .. Len(d.out) : j > Len(c.out) =>
        d.out[j].t = "Open" /\ d.out[j].id = i /\ d.out[j].at = 0
  <2>1. /\ Len(d.out) <= Len(c.out) + 1
        /\ Len(d.out) > Len(c.out) =>
             /\ d.out[Len(d.out)].t = "Open" /\ d.out[Len(d.out)].id = i
             /\ d.out[Len(d.out)].at = 0
    BY Zenon, <1>1 DEF Opened
  <2>2. Len(c.out) \in Nat /\ Len(d.out) \in Nat
    BY Zenon, Lengths
  <2>3. \A j \in 1 .. Len(d.out) : j > Len(c.out) =>
          j = Len(d.out) /\ Len(d.out) > Len(c.out)
    BY <2>1, <2>2
  <2> QED
    BY Zenon, <2>1, <2>3
<1>7. i \in Ids => c.log[i].wrote = 0
  BY Zenon, <1>2, NoSlotLog
<1>8. d.log = c.log /\ d.rx = c.rx
  BY Zenon DEF Opened
<1>9. \A m \in Slots : Kept(c, d, m) \/ Begun(c, d, m)
  BY Zenon, <1>4, <1>5
<1> HIDE DEF i
<1> QED
  BY Zenon, <1>3, <1>6, <1>7, <1>8, <1>9 DEF Quiet

LEMMA ReservedQuiet ==
  ASSUME NEW s \in EndState, Neat(s), NEW d, NEW c, NEW n, NEW m \in Slots,
         Reserved(c, s, d, n, m), NoSlot(s, c.ch[n].id)
  PROVE  Quiet(s, d)
<1>1. Longer(s, d) /\ \A j \in 1 .. Len(d.out) : ~ (j > Len(s.out))
  BY Zenon, NoMore DEF Reserved
<1>2. m \notin d.handles
  BY Zenon DEF Reserved, Neat
<1>3. Begun(s, d, m)
  BY Zenon, <1>2 DEF Reserved, Begun, Early
<1>4. \A k \in Slots : k # m => Kept(s, d, k)
  BY Zenon, KeptSame DEF Reserved
<1>5. d.log = s.log /\ d.rx = s.rx
  BY Zenon DEF Reserved
<1> QED
  BY Zenon, <1>1, <1>3, <1>4, <1>5 DEF Quiet

\* What is sent when one packet is sent or the end has failed.
LEMMA SentOrFailed ==
  ASSUME NEW s \in EndState, NEW d \in EndState,
         \/ d.out = s.out
         \/ /\ Len(d.out) = Len(s.out) + 1
            /\ \A j \in 1 .. Len(s.out) : d.out[j] = s.out[j]
  PROVE  /\ Longer(s, d)
         /\ \A j \in 1 .. Len(d.out) : j > Len(s.out) =>
              j = Len(d.out) /\ d.out # s.out
<1>1. Len(s.out) \in Nat /\ Len(d.out) \in Nat
  BY Zenon, Lengths
<1>2. CASE d.out = s.out
  BY Zenon, <1>2, NoMore
<1>3. CASE d.out # s.out
  BY <1>1, <1>3 DEF Longer
<1> QED
  BY Zenon, <1>2, <1>3

LEMMA RefusedQuiet ==
  ASSUME NEW s \in EndState, NEW d \in EndState, Neat(s), NEW c, NEW n,
         Refused(c, s, d, n), NoSlot(s, c.ch[n].id)
  PROVE  Quiet(s, d)
<1>1. /\ Longer(s, d)
      /\ \A j \in 1 .. Len(d.out) : j > Len(s.out) =>
           j = Len(d.out) /\ d.out # s.out
  BY Zenon, SentOrFailed DEF Refused
<1>2. d.out # s.out =>
        LET p == d.out[Len(d.out)] IN
        /\ p.t = "Refuse" /\ p.id = c.ch[n].id
        /\ p.at \in {0, s.log[p.id].wrote}
  BY Zenon DEF Refused
<1>3. c.ch[n].id \in Ids => s.log[c.ch[n].id].wrote = 0
  BY Zenon, NoSlotLog
<1>4. \A j \in 1 .. Len(d.out) : j > Len(s.out) =>
        /\ d.out[j].t \notin {"Data", "Eof", "Close"}
        /\ d.out[j].id \in Ids => d.out[j].at = s.log[d.out[j].id].wrote
  BY Zenon, <1>1, <1>2, <1>3
<1>5. \A k \in Slots : Kept(s, d, k)
  BY Zenon, KeptSame DEF Refused
<1>6. d.log = s.log /\ d.rx = s.rx
  BY Zenon DEF Refused
<1> QED
  BY Zenon, <1>1, <1>4, <1>5, <1>6 DEF Quiet

LEMMA DroppedQuiet ==
  ASSUME NEW x \in EndState, Neat(x), Numbered(x, MaxOpen), NEW z \in EndState,
         NEW y \in EndState, NEW m \in Slots, x.ch[m].state = "InOpen",
         Dropped(x, z, m), NEW c, NEW n, Refused(c, z, y, n),
         c.ch[n].id = x.ch[m].id
  PROVE  Quiet(x, y)
<1>1. x.log[x.ch[m].id].wrote = 0
  <2>1. x.log[x.ch[m].id] = NewLog
    BY Zenon, OneEarly DEF Early
  <2> QED
    BY Zenon, <2>1, NewLogFields
<1>2. z.out = x.out /\ z.log = x.log /\ z.rx = x.rx /\ z.handles = x.handles
  BY Zenon DEF Dropped
<1>3. y.log = x.log /\ y.rx = x.rx /\ y.handles = x.handles /\ y.ch = z.ch
  BY Zenon, <1>2 DEF Refused
<1>4. /\ Longer(x, y)
      /\ \A j \in 1 .. Len(y.out) : j > Len(x.out) =>
           j = Len(y.out) /\ y.out # x.out
  BY Zenon, <1>2, SentOrFailed DEF Refused
<1>5. y.out # x.out =>
        LET p == y.out[Len(y.out)] IN
        /\ p.t = "Refuse" /\ p.id = x.ch[m].id
        /\ p.at \in {0, x.log[p.id].wrote}
  BY Zenon, <1>2 DEF Refused
<1>6. \A j \in 1 .. Len(y.out) : j > Len(x.out) =>
        /\ y.out[j].t \notin {"Data", "Eof", "Close"}
        /\ y.out[j].id \in Ids => y.out[j].at = x.log[y.out[j].id].wrote
  BY Zenon, <1>1, <1>4, <1>5
<1>7. \A k \in Slots : k # m => Kept(x, y, k)
  BY Zenon, <1>3, KeptSame DEF Dropped
<1>8. Cleared(x, y, m)
  BY Zenon, <1>3 DEF Dropped, Cleared, Neat
<1> QED
  BY Zenon, <1>3, <1>4, <1>6, <1>7, <1>8 DEF Quiet

LEMMA AcceptedQuiet ==
  ASSUME NEW x \in EndState, NEW y \in EndState, NEW m \in Slots,
         x.ch[m].state = "InOpen", Accepted(x, y, m)
  PROVE  Quiet(x, y)
<1>1. /\ Longer(x, y)
      /\ \A j \in 1 .. Len(y.out) : j > Len(x.out) =>
           j = Len(y.out) /\ y.out # x.out
  BY Zenon, SentOrFailed DEF Accepted
<1>2. y.out # x.out => LET p == y.out[Len(y.out)] IN
                       p.t = "Confirm" /\ p.at = x.log[p.id].wrote
  BY Zenon DEF Accepted
<1>3. \A j \in 1 .. Len(y.out) : j > Len(x.out) =>
        /\ y.out[j].t \notin {"Data", "Eof", "Close"}
        /\ y.out[j].id \in Ids => y.out[j].at = x.log[y.out[j].id].wrote
  BY Zenon, <1>1, <1>2
<1>4. y.log = x.log /\ y.rx = x.rx /\ y.handles = x.handles \cup {m}
  BY Zenon DEF Accepted
<1>5. \A k \in Slots : k # m => Kept(x, y, k)
  BY Zenon, <1>4, KeptSame DEF Accepted
<1>6. Kept(x, y, m)
  BY Zenon DEF Accepted, Kept, Early
<1> QED
  BY Zenon, <1>1, <1>3, <1>4, <1>5, <1>6 DEF Quiet

LEMMA ConfirmsQuiet ==
  ASSUME NEW x \in EndState, NEW y, NEW n \in Slots,
         x.ch[n].state = "Opening",
         GivenUp(x, y, n) \/ \E p : Confirms(x, y, n, p)
  PROVE  Quiet(x, y)
<1>1. /\ \A k \in Slots : k # n => y.ch[k] = x.ch[k]
      /\ y.ch[n].state \in {"Normal", "PendingDone"}
      /\ y.ch[n].id = x.ch[n].id /\ y.ch[n].done = x.ch[n].done
      /\ y.ch[n].sentEof = x.ch[n].sentEof
      /\ y.ch[n].sentClose = x.ch[n].sentClose
      /\ y.rx = x.rx /\ y.out = x.out /\ y.log = x.log
      /\ y.handles = x.handles
  BY Zenon DEF GivenUp, Confirms
<1>2. Longer(x, y) /\ \A j \in 1 .. Len(y.out) : ~ (j > Len(x.out))
  BY Zenon, <1>1, NoMore
<1>3. \A k \in Slots : k # n => Kept(x, y, k)
  BY Zenon, <1>1, KeptSame
<1>4. Kept(x, y, n)
  BY Zenon, <1>1 DEF Kept, Early
<1> QED
  BY Zenon, <1>1, <1>2, <1>3, <1>4 DEF Quiet


\* A packet on an open channel, whatever becomes of it.
LEMMA HearsHandles ==
  ASSUME NEW x, Sound(x), Neat(x), NEW y \in EndState, Numbered(y, MaxOpen),
         NEW n \in Slots, x.ch[n].state \in Usual \cup {"Free"},
         x.rx.num = 0, NEW z, 1 \in 1 .. Len(z.out),
         NEW p \in Packet, z.out[1] = p, p.id = x.ch[n].id, p.id # 0,
         StreamOf(z, x, p.id), Hears(x, y, n, p)
  PROVE  Handles(x, y, z, p)
<1>1. x \in EndState /\ Numbered(x, MaxOpen) /\ Tidy(x)
  BY Zenon DEF Sound
<1>2. CASE Steady(x, y) /\ (p.t = "Data" => p.len = 0 \/ ~ Usable(x, n)
                                            \/ x.ch[n].done)
  <2>1. Quiet(x, y)
    BY Zenon, <1>1, <1>2, SteadyQuiet
  <2>2. ASSUME p.t = "Data", p.len # 0
        PROVE  x.log[p.id].left
    <3>1. CASE x.ch[n].done
      BY Zenon, <3>1 DEF Neat
    <3>2. CASE ~ Usable(x, n)
      <4>1. x.ch[n].state = "Free"
        BY Zenon, <3>2 DEF Usable, InUse, Usual
      <4>2. Freed(x, p.id)
        BY Zenon, <4>1 DEF Freed
      <4>3. ~ Finished(z, p.id)
        <5>1. IsData(z.out[1], p.id)
          BY Zenon, <2>2 DEF IsData
        <5>2. 1 > 0
          OBVIOUS
        <5> QED
          BY Zenon, <5>1, <5>2 DEF Finished, NoneAfter
      <4> QED
        BY Zenon, <4>2, <4>3 DEF StreamOf
    <3> QED
      BY Zenon, <1>2, <2>2, <3>1, <3>2
  <2> QED
    BY Zenon, <1>1, <2>1, <2>2, QuietHandles
<1>3. CASE x.ch[n].state \in Usual /\ p.t \in {"Eof", "Close"}
           /\ EndHeard(x, y, n, p.t)
  <2>1. x.ch[n].state \notin Early /\ x.ch[n].state # "Free"
    BY Zenon, <1>3 DEF Usual, Early
  <2>2. p.t = "Close" /\ ~ x.ch[n].sentClose => Gone(z, p.id)
    BY Zenon, <1>1, CloseAnswers
  <2> QED
    BY Zenon, <1>3, <2>1, <2>2, EndHeardHandles
<1>4. CASE x.ch[n].state \in Usual /\ p.t = "Data" /\ DataHeard(x, y, n, p)
  <2>1. x.ch[n].state \notin Early /\ x.ch[n].state # "Free"
    BY Zenon, <1>4 DEF Usual, Early
  <2> QED
    BY Zenon, <1>4, <2>1, DataHandles
<1> QED
  BY Zenon, <1>2, <1>3, <1>4 DEF Hears
=============================================================================
