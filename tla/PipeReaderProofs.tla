-------------------------- MODULE PipeReaderProofs --------------------------
(***************************************************************************)
(* Facts about the pipe reader and about runs of units, which the proofs   *)
(* about everything that reads through it rest on.                         *)
(***************************************************************************)
EXTENDS PipeReader, Sequences, SequenceTheorems, TLAPS

(* What the operations of the pipe reader do to its fields *)
LEMMA ReaderFacts ==
    ASSUME NEW r \in Reader, NEW n \in Nat
    PROVE  /\ Consume(r, n) \in Reader
           /\ Consume(r, n).pos = n /\ Consume(r, n).end = r.end
           /\ Pull(r, n) \in Reader
           /\ Pull(r, n).pos = r.pos /\ Pull(r, n).end = n
           /\ PullEnd(r) \in Reader
           /\ PullEnd(r).pos = r.pos /\ PullEnd(r).end = r.end
           /\ ExamineAll(r) \in Reader
           /\ ExamineAll(r).pos = r.pos /\ ExamineAll(r).end = r.end
<1>1. /\ Consume(r, n) \in Reader
      /\ Consume(r, n).pos = n /\ Consume(r, n).end = r.end
  BY DEF Consume, AdvanceTo, Reader
<1>2. /\ Pull(r, n) \in Reader
      /\ Pull(r, n).pos = r.pos /\ Pull(r, n).end = n
  BY DEF Pull, Reader
<1>3. /\ PullEnd(r) \in Reader
      /\ PullEnd(r).pos = r.pos /\ PullEnd(r).end = r.end
  BY DEF PullEnd, Reader
<1>4. /\ ExamineAll(r) \in Reader
      /\ ExamineAll(r).pos = r.pos /\ ExamineAll(r).end = r.end
  BY DEF ExamineAll, AdvanceTo, Reader
<1> QED
  BY <1>1, <1>2, <1>3, <1>4

(* Only a read of the stream that returned nothing sees its end. *)
LEMMA EofFacts ==
    ASSUME NEW r \in Reader, NEW n \in Nat
    PROVE  /\ Consume(r, n).eof = r.eof
           /\ Pull(r, n).eof = r.eof
           /\ PullEnd(r).eof = TRUE
           /\ ExamineAll(r).eof = r.eof
<1> QED
  BY DEF Consume, AdvanceTo, Pull, PullEnd, ExamineAll, Reader

(* A caller that does not advance the reader leaves everything in its place. *)
LEMMA UnadvancedFacts ==
    ASSUME NEW r \in Reader
    PROVE  /\ Unadvanced(r) \in Reader
           /\ Unadvanced(r).pos = r.pos /\ Unadvanced(r).end = r.end
           /\ Unadvanced(r).eof = r.eof
<1> QED
  BY DEF Unadvanced, Reader

(* The units from one to another: how many, and which *)
LEMMA RunFacts ==
    ASSUME NEW a \in Nat \ {0}, NEW n \in Nat, a <= n + 1
    PROVE  /\ Len(Run(a, n)) = n + 1 - a
           /\ \A i \in 1..n + 1 - a : Run(a, n)[i] = a + i - 1
           /\ \A m \in Nat : n <= m => Run(a, n) \in Seq(1..m)
           /\ Run(a, n) \in Seq(Nat)
<1>1. n + 1 - a \in Nat
  OBVIOUS
<1>2. \A i \in 1..n + 1 - a : a + i - 1 \in Nat /\ a + i - 1 \in 1..n
  OBVIOUS
<1>3. Run(a, n) \in Seq(Nat)
  BY <1>1, <1>2 DEF Run
<1>4. Len(Run(a, n)) = n + 1 - a
  BY <1>1 DEF Run
<1>5. ASSUME NEW m \in Nat, n <= m PROVE Run(a, n) \in Seq(1..m)
  <2>1. \A i \in 1..n + 1 - a : a + i - 1 \in 1..m
    BY <1>2, <1>5
  <2> QED
    BY <1>1, <2>1 DEF Run
<1> QED
  BY <1>3, <1>4, <1>5 DEF Run

(* Nothing, as a run that ends in front of its start *)
LEMMA EmptyRun ==
    ASSUME NEW n \in Nat PROVE Run(n + 1, n) = <<>>
<1>1. n + 1 \in Nat \ {0} /\ n + 1 <= n + 1
  OBVIOUS
<1>2. Run(n + 1, n) \in Seq(Nat) /\ Len(Run(n + 1, n)) = n + 1 - (n + 1)
  BY <1>1, RunFacts
<1> QED
  BY <1>2

(* A run and the units behind it are a run again. *)
LEMMA RunJoin ==
    ASSUME NEW a \in Nat \ {0}, NEW m \in Nat, NEW n \in Nat, a <= m + 1, m <= n
    PROVE  Run(a, m) \o Run(m + 1, n) = Run(a, n)
<1> DEFINE s == Run(a, m)
<1> DEFINE t == Run(m + 1, n)
<1> DEFINE u == Run(a, n)
<1> DEFINE l == m + 1 - a
<1>0. l \in Nat /\ n + 1 - a = l + (n - m) /\ n - m \in Nat /\ a - 1 + l = m
  OBVIOUS
<1>1. s \in Seq(Nat) /\ Len(s) = l /\ \A i \in 1..l : s[i] = a + i - 1
  BY RunFacts
<1>2. t \in Seq(Nat) /\ Len(t) = n - m /\ \A i \in 1..n - m : t[i] = m + i
  <2>1. m + 1 \in Nat \ {0} /\ m + 1 <= n + 1 /\ n + 1 - (m + 1) = n - m
    OBVIOUS
  <2>2. /\ t \in Seq(Nat) /\ Len(t) = n + 1 - (m + 1)
        /\ \A i \in 1..n + 1 - (m + 1) : t[i] = m + 1 + i - 1
    BY <2>1, RunFacts
  <2> QED
    BY <2>1, <2>2
<1>3. u \in Seq(Nat) /\ Len(u) = n + 1 - a /\ \A i \in 1..n + 1 - a : u[i] = a + i - 1
  <2>1. a <= n + 1
    OBVIOUS
  <2> QED
    BY <2>1, RunFacts
<1> HIDE DEF s, t, u, l
<1>4. /\ s \o t \in Seq(Nat)
      /\ Len(s \o t) = n + 1 - a
      /\ \A i \in 1..n + 1 - a : (s \o t)[i] = IF i <= l THEN s[i] ELSE t[i - l]
  <2>1. Len(s) + Len(t) = n + 1 - a
    BY <1>0, <1>1, <1>2
  <2>2. /\ s \o t \in Seq(Nat)
        /\ Len(s \o t) = Len(s) + Len(t)
        /\ \A i \in 1..Len(s) + Len(t) :
             (s \o t)[i] = IF i <= Len(s) THEN s[i] ELSE t[i - Len(s)]
    BY <1>1, <1>2, ConcatProperties, Zenon
  <2> QED
    BY <1>1, <2>1, <2>2
<1>5. \A i \in 1..n + 1 - a : (s \o t)[i] = u[i]
  <2>1. ASSUME NEW i \in 1..n + 1 - a PROVE (s \o t)[i] = a + i - 1
    <3>1. CASE i <= l
      <4>1. i \in 1..l
        BY <1>0, <2>1, <3>1
      <4> QED
        BY <1>1, <1>4, <2>1, <3>1, <4>1
    <3>2. CASE ~(i <= l)
      <4>1. i - l \in 1..n - m /\ m + (i - l) = a + i - 1
        BY <1>0, <2>1, <3>2
      <4> QED
        BY <1>2, <1>4, <2>1, <3>2, <4>1
    <3> QED
      BY <3>1, <3>2
  <2> QED
    BY <1>3, <2>1
<1>6. s \o t = u
  BY <1>3, <1>4, <1>5, SeqEqual
<1> QED
  BY <1>6 DEF s, t, u
=============================================================================
