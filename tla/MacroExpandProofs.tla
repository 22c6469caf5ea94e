------------------------- MODULE MacroExpandProofs -------------------------
(***************************************************************************)
(* Theorems about MacroExpand, for every set of macro tables and programs. *)
(***************************************************************************)
EXTENDS MacroExpand, FiniteSetTheorems, SequenceTheorems, WellFoundedInduction, TLAPS

(***************************************************************************)
(* Sequences of anything.                                                  *)
(***************************************************************************)
LEMMA SeqType ==
  ASSUME NEW S, NEW s \in Seq(S)
  PROVE  IsSeq(s)
BY DEF IsSeq, Range

LEMMA SeqFacts ==
  ASSUME NEW s, IsSeq(s)
  PROVE  /\ Len(s) \in Nat /\ DOMAIN s = 1..Len(s)
         /\ s # <<>> => Len(s) > 0
         /\ Len(s) = 0 => s = <<>>
BY DEF IsSeq

LEMMA EmptyType == IsSeq(<<>>)
<1>1. <<>> \in Seq({})
  OBVIOUS
<1> QED
  BY <1>1, SeqType

LEMMA SingleType ==
  ASSUME NEW x
  PROVE  IsSeq(<<x>>)
<1>1. <<x>> \in Seq({x})
  OBVIOUS
<1> QED
  BY <1>1, SeqType

LEMMA ConcatType ==
  ASSUME NEW s, NEW t, IsSeq(s), IsSeq(t)
  PROVE  /\ IsSeq(s \o t) /\ Len(s \o t) = Len(s) + Len(t)
         /\ \A n \in 1..Len(s) : (s \o t)[n] = s[n]
         /\ \A n \in 1..Len(t) : (s \o t)[Len(s) + n] = t[n]
<1> DEFINE S == Range(s) \cup Range(t)
<1>1. s \in Seq(S) /\ t \in Seq(S)
  <2>1. s \in Seq(Range(s)) /\ t \in Seq(Range(t))
    BY DEF IsSeq
  <2> QED
    BY <2>1, SeqMonotonic
<1> HIDE DEF S
<1>2. s \o t \in Seq(S)
  BY <1>1
<1>3. Len(s) \in Nat /\ Len(t) \in Nat
  BY SeqFacts
<1>4. /\ Len(s \o t) = Len(s) + Len(t)
      /\ \A n \in 1..(Len(s) + Len(t)) :
           (s \o t)[n] = IF n <= Len(s) THEN s[n] ELSE t[n - Len(s)]
  BY <1>1, ConcatProperties
<1>5. ASSUME NEW n \in 1..Len(t)
      PROVE  (s \o t)[Len(s) + n] = t[n]
  <2>1. Len(s) + n \in 1..(Len(s) + Len(t)) /\ ~(Len(s) + n <= Len(s)) /\ Len(s) + n - Len(s) = n
    BY <1>3
  <2> QED
    BY <1>4, <2>1
<1>6. ASSUME NEW n \in 1..Len(s)
      PROVE  (s \o t)[n] = s[n]
  BY <1>3, <1>4
<1> QED
  BY <1>2, <1>4, <1>5, <1>6, SeqType

\* The words from a to b of s, none if b < a.
LEMMA SubSeqType ==
  ASSUME NEW s, IsSeq(s), NEW a \in Int, NEW b \in Int, a >= 1, b <= Len(s)
  PROVE  /\ IsSeq(SubSeq(s, a, b))
         /\ Len(SubSeq(s, a, b)) = IF a <= b THEN b - a + 1 ELSE 0
         /\ \A n \in 1..Len(SubSeq(s, a, b)) : /\ a + n - 1 \in a..b
                                               /\ SubSeq(s, a, b)[n] = s[a + n - 1]
<1>1. Len(s) \in Nat /\ s \in Seq(Range(s))
  BY SeqFacts DEF IsSeq
<1>2. \A i \in a..b : s[i] \in Range(s)
  <2>1. \A i \in a..b : i \in 1..Len(s)
    BY <1>1
  <2> QED
    BY <1>1, <2>1, ElementOfSeq
<1>3. /\ SubSeq(s, a, b) \in Seq(Range(s))
      /\ Len(SubSeq(s, a, b)) = IF a <= b THEN b - a + 1 ELSE 0
      /\ \A i \in 1..(b - a + 1) : SubSeq(s, a, b)[i] = s[a + i - 1]
  BY <1>2, SubSeqProperties
<1>4. ASSUME NEW n \in 1..Len(SubSeq(s, a, b))
      PROVE  n \in 1..(b - a + 1) /\ a + n - 1 \in a..b
  BY <1>3
<1> QED
  BY <1>3, <1>4, SeqType

LEMMA TailType ==
  ASSUME NEW s, IsSeq(s), s # <<>>
  PROVE  /\ IsSeq(Tail(s)) /\ Len(Tail(s)) = Len(s) - 1
         /\ \A n \in 1..Len(Tail(s)) : Tail(s)[n] = s[n + 1]
<1>1. s \in Seq(Range(s))
  BY DEF IsSeq
<1> QED
  BY <1>1, HeadTailProperties, SeqType

\* A sequence given by its domain and its elements.
LEMMA MappedType ==
  ASSUME NEW f, NEW n \in Nat, f = [i \in 1..n |-> f[i]]
  PROVE  IsSeq(f) /\ Len(f) = n
<1>1. f \in Seq(Range(f))
  BY DEF Range
<1> QED
  BY <1>1, SeqType

LEMMA FreshlyType ==
  ASSUME NEW words, IsSeq(words)
  PROVE  IsSeq(Freshly(words)) /\ Len(Freshly(words)) = Len(words)
<1>1. DOMAIN words = 1..Len(words) /\ Len(words) \in Nat
  BY SeqFacts
<1>2. Freshly(words) = [n \in 1..Len(words) |-> Freshly(words)[n]]
  BY <1>1 DEF Freshly
<1> QED
  BY <1>1, <1>2, MappedType

LEMMA WordsType ==
  ASSUME NEW toks, IsSeq(toks)
  PROVE  IsSeq(Words(toks)) /\ Len(Words(toks)) = Len(toks)
<1>1. DOMAIN toks = 1..Len(toks) /\ Len(toks) \in Nat
  BY SeqFacts
<1>2. Words(toks) = [n \in 1..Len(toks) |-> Words(toks)[n]]
  BY <1>1 DEF Words
<1> QED
  BY <1>1, <1>2, MappedType

LEMMA HidesetType ==
  ASSUME NEW toks, IsSeq(toks), NEW hs
  PROVE  /\ IsSeq(add_hideset(toks, hs)) /\ Len(add_hideset(toks, hs)) = Len(toks)
         /\ \A n \in 1..Len(toks) : add_hideset(toks, hs)[n].hs = toks[n].hs \cup hs
<1>1. DOMAIN toks = 1..Len(toks) /\ Len(toks) \in Nat
  BY SeqFacts
<1>2. add_hideset(toks, hs) = [n \in 1..Len(toks) |-> add_hideset(toks, hs)[n]]
  BY <1>1 DEF add_hideset
<1>3. \A n \in 1..Len(toks) : add_hideset(toks, hs)[n].hs = toks[n].hs \cup hs
  BY <1>1 DEF add_hideset
<1> QED
  BY <1>1, <1>2, <1>3, MappedType

(***************************************************************************)
(* Arguments.                                                              *)
(***************************************************************************)
\* The least of some numbers up to n, found by the size of the intervals below.
LEMMA MinOf ==
  ASSUME NEW n \in Nat, NEW T \in SUBSET (0..n), T # {}
  PROVE  Min(T) \in T /\ \A j \in T : Min(T) <= j
<1> DEFINE Below(i) == 0..(i - 1)
           Segments == {Below(i) : i \in T}
<1>1. Segments \subseteq FiniteSubsetsOf(0..n) /\ Segments # {}
  <2>1. IsFiniteSet(0..n)
    BY FS_Interval
  <2>2. FiniteSubsetsOf(0..n) = SUBSET (0..n)
    BY <2>1, FS_FiniteSubsetsOfFinite
  <2>3. \A i \in T : Below(i) \in SUBSET (0..n)
    OBVIOUS
  <2>4. \A S \in Segments : S \in FiniteSubsetsOf(0..n)
    BY <2>2, <2>3
  <2> QED
    BY <2>4
<1>2. IsWellFoundedOn(StrictSubsetOrdering(0..n), FiniteSubsetsOf(0..n))
  <2>1. IsFiniteSet(0..n)
    BY FS_Interval
  <2> QED
    BY <2>1, FS_StrictSubsetOrderingWellFounded
<1> HIDE DEF Segments
<1>3. PICK s \in Segments : \A r \in Segments : ~(<<r, s>> \in StrictSubsetOrdering(0..n))
  BY <1>1, <1>2, WFMin
<1>4. PICK i \in T : s = Below(i)
  BY <1>3 DEF Segments
<1>5. ASSUME NEW j \in T, ~(i <= j)
      PROVE  FALSE
  <2>1. Below(j) \in Segments
    BY DEF Segments
  <2>2. Below(j) \subseteq Below(i) /\ Below(j) # Below(i) /\ Below(i) \subseteq 0..n
    BY <1>5
  <2>3. <<Below(j), Below(i)>> \in StrictSubsetOrdering(0..n)
    BY <2>2 DEF StrictSubsetOrdering
  <2> QED
    BY <2>1, <2>3, <1>3, <1>4
<1>6. \E m \in T : \A j \in T : m <= j
  BY <1>5
<1> QED
  BY <1>6 DEF Min

LEMMA ClosingType ==
  ASSUME NEW words, IsSeq(words), Closings(words) # {}
  PROVE  Closing(words) \in 1..Len(words)
<1>1. Len(words) \in Nat /\ DOMAIN words = 1..Len(words)
  BY SeqFacts
<1>2. Closings(words) \subseteq 1..Len(words)
  BY <1>1 DEF Closings
<1>3. Closings(words) \in SUBSET (0..Len(words))
  BY <1>1, <1>2
<1>4. Min(Closings(words)) \in Closings(words)
  BY <1>1, <1>3, MinOf
<1> QED
  BY <1>2, <1>4 DEF Closing

LEMMA ArgStartType ==
  ASSUME NEW words, IsSeq(words), Closings(words) # {}, NEW j
  PROVE  ArgStart(words, j) \in 1..(Closing(words) + 1)
<1> DEFINE end == Closing(words)
           commas(n) == Cardinality({c \in Commas(words) : c < n})
           T == {n \in 1..end : commas(n) >= j - 1} \cup {end + 1}
<1>1. end \in Nat
  BY ClosingType, SeqFacts
<1> HIDE DEF end
<1>2. T \subseteq 1..(end + 1) /\ T # {} /\ end + 1 \in Nat
  BY <1>1
<1> HIDE DEF T
<1>3. T \in SUBSET (0..(end + 1))
  BY <1>1, <1>2
<1>4. Min(T) \in T
  BY <1>2, <1>3, MinOf
<1>5. ArgStart(words, j) = Min(T)
  BY DEF ArgStart, T, end
<1> QED
  BY <1>2, <1>4, <1>5 DEF end

\* The tokens of an argument stand before the parenthesis that closes the call.
LEMMA ArgsRead ==
  ASSUME NEW m, IsSeq(m.params), NEW toks, IsSeq(toks), Closings(Words(toks)) # {},
         NEW p \in DOMAIN read_macro_args(m, toks)
  PROVE  /\ IsSeq(read_macro_args(m, toks)[p])
         /\ \A n \in 1..Len(read_macro_args(m, toks)[p]) :
              \E i \in 1..(Closing(Words(toks)) - 1) :
                read_macro_args(m, toks)[p][n] = toks[i]
<1> DEFINE words == Words(toks)
           last == Len(m.params) + 1
           end(j) == IF j = last THEN Closing(words) - 1 ELSE ArgStart(words, j + 1) - 2
           name == Append(m.params, m.va)
           given == {j \in 1..last : name[j] # ""}
           chosen == CHOOSE j \in given : name[j] = p
<1>1. /\ p \in {name[j] : j \in given}
      /\ read_macro_args(m, toks)[p] = SubSeq(toks, ArgStart(words, chosen), end(chosen))
  BY DEF read_macro_args
<1>2. chosen \in given
  BY <1>1
<1>3. IsSeq(words) /\ Len(words) = Len(toks) /\ Len(toks) \in Nat
  BY WordsType, SeqFacts
<1>4. Closing(words) \in 1..Len(toks) /\ Closing(words) \in Nat
  BY <1>3, ClosingType
<1>5. \A j : ArgStart(words, j) \in 1..(Closing(words) + 1)
  BY <1>3, ArgStartType
<1> DEFINE a == ArgStart(words, chosen)
           b == end(chosen)
           close == Closing(words)
<1>6. a \in Int /\ a >= 1
  <2>1. a \in 1..(close + 1) /\ close \in Nat
    BY <1>4, <1>5
  <2> HIDE DEF a, close
  <2> QED
    BY ONLY <2>1
<1>7. b \in Int /\ b <= close - 1
  <2>1. PICK next : next = ArgStart(words, chosen + 1)
    OBVIOUS
  <2>2. next \in 1..(close + 1) /\ close \in Nat
    BY <1>4, <1>5, <2>1
  <2>3. b = close - 1 \/ b = next - 2
    BY <2>1
  <2> HIDE DEF b, close
  <2> QED
    BY ONLY <2>2, <2>3
<1> HIDE DEF a, b, words
<1>8. b <= Len(toks)
  BY <1>3, <1>4, <1>7
<1>9. /\ IsSeq(SubSeq(toks, a, b))
      /\ \A n \in 1..Len(SubSeq(toks, a, b)) : /\ a + n - 1 \in a..b
                                               /\ SubSeq(toks, a, b)[n] = toks[a + n - 1]
  BY <1>6, <1>7, <1>8, SubSeqType
<1>10. ASSUME NEW n \in 1..Len(SubSeq(toks, a, b))
       PROVE  \E i \in 1..(Closing(words) - 1) : SubSeq(toks, a, b)[n] = toks[i]
  <2>1. PICK i \in a..b : SubSeq(toks, a, b)[n] = toks[i]
    BY <1>9
  <2>2. i \in 1..(Closing(words) - 1)
    BY <1>4, <1>6, <1>7
  <2> QED
    BY <2>1, <2>2
<1>11. read_macro_args(m, toks)[p] = SubSeq(toks, a, b)
  BY <1>1 DEF a, b, words
<1> QED
  BY <1>9, <1>10, <1>11 DEF words

(***************************************************************************)
(* The invariant: what stands before the place where a replacement ends is *)
(* hidden from its macro, in the frame and in the call it waits for.       *)
(***************************************************************************)
\* hs hides what lies around a token that k others follow.
Covers(hs, open, k) == \A o \in open : o[2] <= k => o[1] \in hs

Hidden(toks, open) == \A n \in 1..Len(toks) : Covers(toks[n].hs, open, Len(toks) - n)

CallFields == {"name", "args", "hs", "after", "rest", "built", "full"}
CallOK(c, open) ==
  /\ CallFields \subseteq DOMAIN c
  /\ IsSeq(c.after) /\ IsSeq(c.rest) /\ IsSeq(c.built)
  /\ Hidden(c.after, open)
  /\ c.name \in c.hs /\ Covers(c.hs, open, Len(c.after))
  /\ \A p \in DOMAIN c.args :
       /\ IsSeq(c.args[p])
       /\ \A n \in 1..Len(c.args[p]) : Covers(c.args[p][n].hs, open, Len(c.after))

FrameOK(f) ==
  /\ {"todo", "out", "open", "call"} \subseteq DOMAIN f
  /\ IsSeq(f.todo) /\ IsSeq(f.out)
  /\ \A o \in f.open : o[2] \in Int
  /\ Hidden(f.todo, f.open)
  /\ f.call # NoCall => f.todo # <<>> /\ CallOK(f.call, f.open)

\* Every activation but the innermost waits for an argument of its call.
FramesOK(fs) ==
  /\ IsSeq(fs) /\ fs # <<>>
  /\ \A n \in 1..Len(fs) : FrameOK(fs[n])
  /\ \A n \in 2..Len(fs) : fs[n].call # NoCall /\ fs[n].call.rest # <<>>

MacrosOK(table) ==
  \A name \in DOMAIN table : IsSeq(table[name].body) /\ IsSeq(table[name].params)

Inv == MacrosOK(macros) /\ FramesOK(frames)

(***************************************************************************)
(* What keeps a frame in order.                                            *)
(***************************************************************************)
LEMMA CoversFewer ==
  ASSUME NEW hs, NEW open, \A o \in open : o[2] \in Int, NEW k \in Int, NEW l \in Int,
         l <= k, Covers(hs, open, k)
  PROVE  Covers(hs, open, l)
BY DEF Covers

LEMMA NewFrame ==
  ASSUME NEW toks, IsSeq(toks), NEW open, \A o \in open : o[2] \in Int, Hidden(toks, open)
  PROVE  FrameOK(Frame(toks, open))
BY EmptyType DEF FrameOK, Frame

LEMMA PassedFrame ==
  ASSUME NEW f, FrameOK(f), f.todo # <<>>
  PROVE  FrameOK(Pass(f))
<1> DEFINE g == Pass(f)
           t == Tail(f.todo)
<1>1. /\ {"todo", "out", "open", "call"} \subseteq DOMAIN g
      /\ g.todo = t /\ g.out = Append(f.out, Head(f.todo))
      /\ g.open = f.open /\ g.call = NoCall
  BY DEF Pass, FrameOK
<1>2. /\ IsSeq(t) /\ Len(t) = Len(f.todo) - 1 /\ Len(f.todo) \in Nat /\ Len(t) \in Nat
      /\ \A n \in 1..Len(t) : t[n] = f.todo[n + 1]
  <2>1. IsSeq(f.todo)
    BY DEF FrameOK
  <2> QED
    BY <2>1, TailType, SeqFacts
<1>3. IsSeq(Append(f.out, Head(f.todo)))
  <2> DEFINE S == Range(f.out) \cup {Head(f.todo)}
  <2>1. f.out \in Seq(Range(f.out))
    BY DEF FrameOK, IsSeq
  <2>2. f.out \in Seq(S) /\ Head(f.todo) \in S
    BY <2>1, SeqMonotonic
  <2> HIDE DEF S
  <2>3. Append(f.out, Head(f.todo)) \in Seq(S)
    BY <2>2
  <2> QED
    BY <2>3, SeqType
<1>4. ASSUME NEW n \in 1..Len(t)
      PROVE  Covers(t[n].hs, f.open, Len(t) - n)
  <2>1. /\ n + 1 \in 1..Len(f.todo) /\ Len(t) - n = Len(f.todo) - (n + 1)
        /\ t[n] = f.todo[n + 1]
    BY <1>2
  <2> QED
    BY <2>1 DEF FrameOK, Hidden
<1> QED
  BY <1>1, <1>2, <1>3, <1>4 DEF FrameOK, Hidden

\* A replacement that hides its macro and all that the place lies in.
LEMMA RescannedFrame ==
  ASSUME NEW f, FrameOK(f), NEW name, NEW toks, IsSeq(toks), NEW rest, IsSeq(rest),
         Hidden(rest, f.open),
         \A n \in 1..Len(toks) : name \in toks[n].hs /\ Covers(toks[n].hs, f.open, Len(rest))
  PROVE  FrameOK(Rescan(f, name, toks, rest))
<1> DEFINE g == Rescan(f, name, toks, rest)
           t == toks \o rest
           own == <<name, Len(rest)>>
           open == OpenBefore(f, rest) \cup {own}
<1>1. /\ {"todo", "out", "open", "call"} \subseteq DOMAIN g
      /\ g.todo = t /\ g.out = f.out /\ g.open = open /\ g.call = NoCall
  BY DEF Rescan, FrameOK
<1>2. /\ IsSeq(t) /\ Len(t) = Len(toks) + Len(rest)
      /\ \A n \in 1..Len(toks) : t[n] = toks[n]
      /\ \A n \in 1..Len(rest) : t[Len(toks) + n] = rest[n]
  BY ConcatType
<1>3. Len(toks) \in Nat /\ Len(rest) \in Nat
  BY SeqFacts
<1>4. /\ \A o \in f.open : o[2] \in Int
      /\ \A o \in OpenBefore(f, rest) : o \in f.open /\ o[2] <= Len(rest)
      /\ own[1] = name /\ own[2] = Len(rest)
  BY DEF OpenBefore, FrameOK
<1> HIDE DEF own
<1>5. \A o \in open : o[2] \in Int
  BY <1>3, <1>4
<1>6. ASSUME NEW n \in 1..Len(t), NEW o \in open, o[2] <= Len(t) - n
      PROVE  o[1] \in t[n].hs
  <2>1. CASE n <= Len(toks)
    <3>1. n \in 1..Len(toks)
      BY <1>2, <1>3, <2>1
    <3>2. t[n] = toks[n] /\ name \in toks[n].hs /\ Covers(toks[n].hs, f.open, Len(rest))
      BY <1>2, <3>1
    <3> QED
      BY <1>4, <3>2 DEF Covers
  <2>2. CASE ~(n <= Len(toks))
    <3>1. PICK m : m = n - Len(toks)
      OBVIOUS
    <3>2. m \in 1..Len(rest) /\ Len(toks) + m = n /\ Len(t) - n = Len(rest) - m
      BY <1>2, <1>3, <2>2, <3>1
    <3>3. t[n] = rest[m] /\ Covers(rest[m].hs, f.open, Len(rest) - m)
      BY <1>2, <3>2 DEF Hidden
    <3>4. o # own
      BY <1>3, <1>4, <1>6, <3>2
    <3> QED
      BY <1>4, <1>6, <3>2, <3>3, <3>4 DEF Covers
  <2> QED
    BY <2>1, <2>2
<1>7. Hidden(t, open)
  BY <1>6 DEF Hidden, Covers
<1>8. IsSeq(f.out)
  BY DEF FrameOK
<1> QED
  BY <1>1, <1>2, <1>5, <1>7, <1>8 DEF FrameOK

WithCall(f, c) == [f EXCEPT !.call = c]

LEMMA WaitingFrame ==
  ASSUME NEW f, FrameOK(f), f.todo # <<>>, NEW c, CallOK(c, f.open)
  PROVE  FrameOK(WithCall(f, c)) /\ WithCall(f, c).call = c
BY DEF FrameOK, WithCall

WithTop(fs, f) == [fs EXCEPT ![1] = f]

LEMMA ReplacedTop ==
  ASSUME NEW fs, FramesOK(fs), NEW f, FrameOK(f)
  PROVE  FramesOK(WithTop(fs, f))
<1>1. fs \in Seq(Range(fs)) /\ Len(fs) \in Nat /\ Len(fs) > 0 /\ DOMAIN fs = 1..Len(fs)
  BY SeqFacts DEF FramesOK, IsSeq
<1> DEFINE gs == WithTop(fs, f)
<1>2. /\ gs = [n \in 1..Len(fs) |-> gs[n]] /\ gs[1] = f
      /\ \A n \in 2..Len(fs) : gs[n] = fs[n]
  <2>1. gs = [n \in 1..Len(fs) |-> IF n = 1 THEN f ELSE fs[n]]
    BY <1>1 DEF WithTop
  <2> HIDE DEF gs
  <2> QED
    BY <1>1, <2>1
<1> HIDE DEF gs
<1>3. IsSeq(gs) /\ Len(gs) = Len(fs)
  BY <1>1, <1>2, MappedType
<1>4. gs # <<>>
  BY <1>1, <1>3
<1>5. \A n \in 1..Len(fs) : n = 1 \/ n \in 2..Len(fs)
  BY <1>1
<1> QED
  BY <1>1, <1>2, <1>3, <1>4, <1>5 DEF FramesOK, gs

LEMMA PushedFrame ==
  ASSUME NEW fs, FramesOK(fs), fs[1].call # NoCall, fs[1].call.rest # <<>>,
         NEW f, FrameOK(f)
  PROVE  FramesOK(<<f>> \o fs)
<1> DEFINE gs == <<f>> \o fs
<1>1. IsSeq(fs) /\ Len(fs) \in Nat
  BY SeqFacts DEF FramesOK
<1>2. IsSeq(<<f>>) /\ Len(<<f>>) = 1 /\ <<f>>[1] = f
  BY SingleType
<1>3. /\ IsSeq(gs) /\ Len(gs) = 1 + Len(fs) /\ gs[1] = f
      /\ \A n \in 1..Len(fs) : gs[1 + n] = fs[n]
  BY <1>1, <1>2, ConcatType
<1> HIDE DEF gs
<1>4. gs # <<>>
  BY <1>1, <1>3
<1>5. ASSUME NEW n \in 2..Len(gs)
      PROVE  n - 1 \in 1..Len(fs) /\ gs[n] = fs[n - 1] /\ (n - 1 = 1 \/ n - 1 \in 2..Len(fs))
  <2>1. n - 1 \in 1..Len(fs) /\ 1 + (n - 1) = n /\ (n - 1 = 1 \/ n - 1 \in 2..Len(fs))
    BY <1>1, <1>3
  <2> QED
    BY <1>3, <2>1
<1>6. ASSUME NEW n \in 2..Len(gs)
      PROVE  FrameOK(gs[n]) /\ gs[n].call # NoCall /\ gs[n].call.rest # <<>>
  BY <1>5 DEF FramesOK
<1>7. \A n \in 1..Len(gs) : n = 1 \/ n \in 2..Len(gs)
  BY <1>1, <1>3
<1> QED
  BY <1>3, <1>4, <1>6, <1>7 DEF FramesOK, gs

LEMMA PoppedFrame ==
  ASSUME NEW fs, FramesOK(fs), Len(fs) > 1
  PROVE  FramesOK(Tail(fs)) /\ Tail(fs)[1] = fs[2]
<1> DEFINE gs == Tail(fs)
<1>1. IsSeq(fs) /\ Len(fs) \in Nat /\ fs # <<>>
  BY SeqFacts DEF FramesOK
<1>2. /\ IsSeq(gs) /\ Len(gs) = Len(fs) - 1
      /\ \A n \in 1..Len(gs) : gs[n] = fs[n + 1]
  BY <1>1, TailType
<1> HIDE DEF gs
<1>3. gs # <<>> /\ 1 \in 1..Len(gs)
  BY <1>1, <1>2
<1>4. ASSUME NEW n \in 1..Len(gs)
      PROVE  gs[n] = fs[n + 1] /\ n + 1 \in 2..Len(fs) /\ n + 1 \in 1..Len(fs)
  BY <1>1, <1>2
<1>5. ASSUME NEW n \in 1..Len(gs)
      PROVE  FrameOK(gs[n]) /\ gs[n].call # NoCall /\ gs[n].call.rest # <<>>
  BY <1>4 DEF FramesOK
<1>6. \A n \in 2..Len(gs) : n \in 1..Len(gs)
  BY <1>1, <1>2
<1>7. gs[1] = fs[2]
  BY <1>3, <1>4
<1> QED
  BY <1>2, <1>3, <1>5, <1>6, <1>7 DEF FramesOK, gs

(***************************************************************************)
(* The steps.                                                              *)
(***************************************************************************)
LEMMA InitInv == Init => Inv
<1> SUFFICES ASSUME Init PROVE Inv
  OBVIOUS
<1>1. PICK input \in Inputs : macros = input[1] /\ frames = <<Frame(Freshly(input[2]), {})>>
  BY DEF Init
<1>2. IsSeq(input[2]) /\ MacrosOK(macros)
  BY <1>1, InputsAssumption DEF MacrosOK
<1> DEFINE toks == Freshly(input[2])
<1>3. IsSeq(toks)
  BY <1>2, FreshlyType
<1> HIDE DEF toks
<1>4. Hidden(toks, {})
  BY DEF Hidden, Covers
<1>5. FrameOK(Frame(toks, {}))
  BY <1>3, <1>4, NewFrame
<1>6. IsSeq(<<Frame(toks, {})>>)
  BY SingleType
<1>7. FramesOK(<<Frame(toks, {})>>)
  BY <1>5, <1>6 DEF FramesOK
<1> QED
  BY <1>1, <1>2, <1>7 DEF Inv, toks

LEMMA TopFacts ==
  ASSUME Inv
  PROVE  /\ FramesOK(frames) /\ FrameOK(Top) /\ IsSeq(Top.todo)
         /\ \A name \in DOMAIN macros : IsSeq(macros[name].body) /\ IsSeq(macros[name].params)
<1>1. IsSeq(frames) /\ frames # <<>>
  BY DEF Inv, FramesOK
<1>2. 1 \in 1..Len(frames)
  BY <1>1, SeqFacts
<1> QED
  BY <1>2 DEF Inv, FramesOK, FrameOK, Top, MacrosOK

\* The token being read, those after it, and what it lies in.
LEMMA ScannedToken ==
  ASSUME Inv, Top.todo # <<>>
  PROVE  /\ IsSeq(After) /\ Len(After) \in Nat /\ Len(Top.todo) = Len(After) + 1
         /\ Covers(Tok.hs, Top.open, Len(After))
         /\ \A n \in 1..Len(After) : Covers(After[n].hs, Top.open, Len(After) - n)
         /\ \A o \in Top.open : o[2] \in Int
<1>1. FrameOK(Top) /\ IsSeq(Top.todo) /\ Len(Top.todo) \in Nat /\ Len(Top.todo) > 0
  BY TopFacts, SeqFacts
<1>2. /\ IsSeq(After) /\ Len(After) = Len(Top.todo) - 1
      /\ \A n \in 1..Len(After) : After[n] = Top.todo[n + 1]
  BY <1>1, TailType DEF After
<1>3. Len(After) \in Nat /\ Len(Top.todo) = Len(After) + 1
  BY <1>1, <1>2
<1>4. Tok = Top.todo[1]
  BY DEF Tok
<1>5. Covers(Tok.hs, Top.open, Len(After))
  <2>1. 1 \in 1..Len(Top.todo) /\ Len(Top.todo) - 1 = Len(After)
    BY <1>1, <1>2
  <2> QED
    BY <1>1, <1>4, <2>1 DEF FrameOK, Hidden
<1>6. ASSUME NEW n \in 1..Len(After)
      PROVE  Covers(After[n].hs, Top.open, Len(After) - n)
  <2>1. n + 1 \in 1..Len(Top.todo) /\ Len(Top.todo) - (n + 1) = Len(After) - n
    BY <1>3
  <2> QED
    BY <1>1, <1>2, <2>1 DEF FrameOK, Hidden
<1> QED
  BY <1>1, <1>2, <1>3, <1>5, <1>6 DEF FrameOK

LEMMA TopReplaced ==
  ASSUME Inv, NEW f, FrameOK(f), frames' = WithTop(frames, f), macros' = macros
  PROVE  Inv'
BY ReplacedTop DEF Inv

LEMMA EmitStep ==
  ASSUME Inv, Emit
  PROVE  Inv'
<1>1. FrameOK(Top) /\ Top.todo # <<>>
  BY TopFacts DEF Emit, Scanning
<1>2. FrameOK(Pass(Top))
  BY <1>1, PassedFrame
<1>3. frames' = WithTop(frames, Pass(Top)) /\ macros' = macros
  BY DEF Emit, WithTop, Top
<1> QED
  BY <1>2, <1>3, TopReplaced

LEMMA SubstFailsStep ==
  ASSUME Inv, SubstFails
  PROVE  Inv'
<1>1. FrameOK(Top) /\ Top.todo # <<>>
  BY TopFacts DEF SubstFails, FrameOK
<1>2. FrameOK(Pass(Top))
  BY <1>1, PassedFrame
<1>3. frames' = WithTop(frames, Pass(Top)) /\ macros' = macros
  BY DEF SubstFails, WithTop, Top
<1> QED
  BY <1>2, <1>3, TopReplaced

LEMMA ExpandObjlikeStep ==
  ASSUME Inv, ExpandObjlike
  PROVE  Inv'
<1> DEFINE hs == Tok.hs \cup {Tok.w}
           body == Freshly(MacroOf.body)
           toks == add_hideset(body, hs)
<1>1. Top.todo # <<>> /\ Tok.w \in DOMAIN macros
  BY DEF ExpandObjlike, Scanning, Expandable
<1>2. /\ IsSeq(After) /\ Len(After) \in Nat /\ Covers(Tok.hs, Top.open, Len(After))
      /\ \A n \in 1..Len(After) : Covers(After[n].hs, Top.open, Len(After) - n)
  BY <1>1, ScannedToken
<1>3. IsSeq(MacroOf.body)
  BY <1>1, TopFacts DEF MacroOf
<1>4. IsSeq(body)
  BY <1>3, FreshlyType
<1> HIDE DEF body
<1>5. IsSeq(toks) /\ \A n \in 1..Len(toks) : toks[n].hs = body[n].hs \cup hs
  BY <1>4, HidesetType
<1> HIDE DEF toks
<1>6. \A n \in 1..Len(toks) : Tok.w \in toks[n].hs /\ Covers(toks[n].hs, Top.open, Len(After))
  BY <1>2, <1>5 DEF Covers
<1>7. Hidden(After, Top.open)
  BY <1>2 DEF Hidden
<1>8. FrameOK(Rescan(Top, Tok.w, toks, After))
  BY <1>2, <1>5, <1>6, <1>7, TopFacts, RescannedFrame
<1>9. frames' = WithTop(frames, Rescan(Top, Tok.w, toks, After)) /\ macros' = macros
  BY DEF ExpandObjlike, WithTop, Top, toks, body
<1> QED
  BY <1>8, <1>9, TopReplaced

\* The call that subst starts on hides what it lies in up to its parenthesis.
LEMMA BeginCallStep ==
  ASSUME Inv, BeginCall
  PROVE  Inv'
<1> DEFINE toks == Tail(After)
           words == Words(toks)
           end == Closing(words)
           args == read_macro_args(MacroOf, toks)
           hs == (Tok.hs \cap Rparen.hs) \cup {Tok.w}
           after == SubSeq(toks, end + 1, Len(toks))
           c == Call(hs)
<1>1. /\ Top.todo # <<>> /\ Tok.w \in DOMAIN macros /\ After # <<>>
      /\ Readable(MacroOf, words)
      /\ frames' = [frames EXCEPT ![1].call = c] /\ macros' = macros
  BY DEF BeginCall, Scanning, Expandable
<1>2. Closings(words) # {}
  BY <1>1 DEF Readable
<1>3. /\ IsSeq(After) /\ Len(After) \in Nat /\ Covers(Tok.hs, Top.open, Len(After))
      /\ \A n \in 1..Len(After) : Covers(After[n].hs, Top.open, Len(After) - n)
      /\ \A o \in Top.open : o[2] \in Int
  BY <1>1, ScannedToken
<1>4. /\ IsSeq(toks) /\ Len(toks) = Len(After) - 1 /\ Len(toks) \in Nat
      /\ \A n \in 1..Len(toks) : toks[n] = After[n + 1]
  BY <1>1, <1>3, TailType, SeqFacts
<1>5. end \in 1..Len(toks)
  <2>1. IsSeq(words) /\ Len(words) = Len(toks)
    BY <1>4, WordsType
  <2> QED
    BY <1>2, <2>1, ClosingType
<1>6. IsSeq(MacroOf.body) /\ IsSeq(MacroOf.params)
  BY <1>1, TopFacts DEF MacroOf
<1>7. \A p \in DOMAIN args :
        /\ IsSeq(args[p])
        /\ \A n \in 1..Len(args[p]) : \E i \in 1..(end - 1) : args[p][n] = toks[i]
  <2>1. PICK m, t : m = MacroOf /\ t = toks
    OBVIOUS
  <2>2. IsSeq(m.params) /\ IsSeq(t) /\ Closings(Words(t)) # {}
    BY <1>2, <1>4, <1>6, <2>1
  <2>3. \A p \in DOMAIN read_macro_args(m, t) :
          /\ IsSeq(read_macro_args(m, t)[p])
          /\ \A n \in 1..Len(read_macro_args(m, t)[p]) :
               \E i \in 1..(Closing(Words(t)) - 1) : read_macro_args(m, t)[p][n] = t[i]
    BY <2>2, ArgsRead
  <2> QED
    BY <2>1, <2>3
<1>8. /\ CallFields \subseteq DOMAIN c
      /\ c.name = Tok.w /\ c.args = args /\ c.hs = hs /\ c.after = after
      /\ c.rest = MacroOf.body /\ c.built = <<>>
  BY DEF Call, CallFields
<1>9. Rparen = toks[end]
  BY DEF Rparen
<1> HIDE DEF toks, words, end, args, c
<1>10. ASSUME NEW n \in 1..Len(toks)
       PROVE  Covers(toks[n].hs, Top.open, Len(toks) - n)
  <2>1. n + 1 \in 1..Len(After) /\ Len(After) - (n + 1) = Len(toks) - n /\ toks[n] = After[n + 1]
    BY <1>3, <1>4
  <2> QED
    BY <1>3, <2>1
<1>11. /\ IsSeq(after) /\ Len(after) = Len(toks) - end /\ Len(after) \in Nat
       /\ \A n \in 1..Len(after) : /\ end + n \in 1..Len(toks) /\ after[n] = toks[end + n]
                                   /\ Len(after) - n = Len(toks) - (end + n)
  <2>1. end + 1 \in Int /\ Len(toks) \in Int /\ end + 1 >= 1 /\ Len(toks) <= Len(toks)
    BY <1>4, <1>5
  <2>2. /\ IsSeq(after)
        /\ Len(after) = IF end + 1 <= Len(toks) THEN Len(toks) - (end + 1) + 1 ELSE 0
        /\ \A n \in 1..Len(after) : /\ (end + 1) + n - 1 \in (end + 1)..Len(toks)
                                    /\ after[n] = toks[(end + 1) + n - 1]
    BY <1>4, <2>1, SubSeqType
  <2> HIDE DEF after
  <2>3. Len(after) = Len(toks) - end /\ Len(after) \in Nat
    BY <1>4, <1>5, <2>2
  <2>4. ASSUME NEW n \in 1..Len(after)
        PROVE  /\ end + n \in 1..Len(toks) /\ after[n] = toks[end + n]
               /\ Len(after) - n = Len(toks) - (end + n)
    <3>1. n \in Int /\ end \in Int /\ (end + 1) + n - 1 = end + n
      BY <1>5
    <3> QED
      BY <1>4, <1>5, <2>2, <2>3, <3>1
  <2> QED
    BY <2>2, <2>3, <2>4
<1> HIDE DEF after
<1>12. Hidden(after, Top.open)
  <2>1. ASSUME NEW n \in 1..Len(after)
        PROVE  Covers(after[n].hs, Top.open, Len(after) - n)
    BY <1>10, <1>11
  <2> QED
    BY <2>1 DEF Hidden
<1>13. ASSUME NEW i \in 1..end
       PROVE  Covers(toks[i].hs, Top.open, Len(after))
  <2>1. /\ i \in 1..Len(toks) /\ Len(after) <= Len(toks) - i
        /\ Len(after) \in Int /\ Len(toks) - i \in Int
    BY <1>4, <1>5, <1>11
  <2>2. Covers(toks[i].hs, Top.open, Len(toks) - i)
    BY <1>10, <2>1
  <2> QED
    BY <1>3, <2>1, <2>2, CoversFewer
<1>14. Covers(hs, Top.open, Len(after))
  <2>1. Covers(Rparen.hs, Top.open, Len(after))
    BY <1>5, <1>9, <1>13
  <2>2. Len(after) <= Len(After) /\ Len(after) \in Int /\ Len(After) \in Int
    BY <1>3, <1>4, <1>5, <1>11
  <2>3. Covers(Tok.hs, Top.open, Len(after))
    BY <1>3, <2>2, CoversFewer
  <2> QED
    BY <2>1, <2>3 DEF Covers
<1>15. ASSUME NEW p \in DOMAIN args
       PROVE  /\ IsSeq(args[p])
              /\ \A n \in 1..Len(args[p]) : Covers(args[p][n].hs, Top.open, Len(after))
  <2>1. ASSUME NEW n \in 1..Len(args[p])
        PROVE  Covers(args[p][n].hs, Top.open, Len(after))
    <3>1. PICK i \in 1..(end - 1) : args[p][n] = toks[i]
      BY <1>7
    <3>2. i \in 1..end
      BY <1>5
    <3> QED
      BY <1>13, <3>1, <3>2
  <2> QED
    BY <1>7, <2>1
<1>16. CallOK(c, Top.open)
  <2>1. IsSeq(c.after) /\ IsSeq(c.rest) /\ IsSeq(c.built)
    BY <1>6, <1>8, <1>11, EmptyType
  <2>2. Hidden(c.after, Top.open) /\ Covers(c.hs, Top.open, Len(c.after))
    BY <1>8, <1>12, <1>14
  <2>3. c.name \in c.hs
    BY <1>8
  <2> QED
    BY <1>8, <1>15, <2>1, <2>2, <2>3 DEF CallOK
<1>17. FrameOK(WithCall(Top, c))
  BY <1>1, <1>16, TopFacts, WaitingFrame
<1>18. frames' = WithTop(frames, WithCall(Top, c))
  BY <1>1 DEF WithTop, WithCall, Top
<1> QED
  BY <1>1, <1>17, <1>18, TopReplaced

(***************************************************************************)
(* The steps of subst.                                                     *)
(***************************************************************************)
LEMMA SubstFacts ==
  ASSUME Inv, Top.call # NoCall
  PROVE  /\ CallOK(Top.call, Top.open) /\ Top.todo # <<>> /\ FrameOK(Top)
         /\ IsSeq(Top.call.rest) /\ Len(Top.call.rest) \in Nat
         /\ IsSeq(Top.call.built)
<1>1. FrameOK(Top)
  BY TopFacts
<1>2. CallOK(Top.call, Top.open) /\ Top.todo # <<>>
  BY <1>1 DEF FrameOK
<1>3. IsSeq(Top.call.rest) /\ IsSeq(Top.call.built)
  BY <1>2 DEF CallOK
<1> QED
  BY <1>1, <1>2, <1>3, SeqFacts

\* The rest of the body and what is built may be any sequences.
Rebuilt(c, rest, built) == [c EXCEPT !.rest = rest, !.built = built]

LEMMA RebuiltCall ==
  ASSUME NEW c, NEW open, CallOK(c, open), NEW rest, IsSeq(rest), NEW built, IsSeq(built)
  PROVE  CallOK(Rebuilt(c, rest, built), open)
<1> DEFINE d == Rebuilt(c, rest, built)
<1>1. /\ CallFields \subseteq DOMAIN d
      /\ d.name = c.name /\ d.args = c.args /\ d.hs = c.hs /\ d.after = c.after
      /\ d.rest = rest /\ d.built = built
  BY DEF Rebuilt, CallOK, CallFields
<1> QED
  BY <1>1 DEF CallOK

LEMMA TurnStep ==
  ASSUME Inv, Top.call # NoCall, NEW n \in Nat, NEW built, IsSeq(built), Turn(n, built)
  PROVE  Inv'
<1> DEFINE rest == Top.call.rest
           left == SubSeq(rest, n + 1, Len(rest))
           c == Rebuilt(Top.call, left, built)
<1>1. IsSeq(left)
  <2>1. /\ IsSeq(rest) /\ n + 1 \in Int /\ Len(rest) \in Int
        /\ n + 1 >= 1 /\ Len(rest) <= Len(rest)
    BY SubstFacts
  <2> QED
    BY <2>1, SubSeqType
<1>2. CallOK(c, Top.open)
  <2> HIDE DEF left
  <2> QED
    BY <1>1, SubstFacts, RebuiltCall
<1>3. frames' = WithTop(frames, WithCall(Top, c)) /\ macros' = macros
  <2>1. [Top.call EXCEPT !.rest = SubSeq(@, n + 1, Len(@)), !.built = built] = c
    BY DEF Rebuilt
  <2> HIDE DEF c
  <2>2. frames' = [frames EXCEPT ![1].call = c] /\ macros' = macros
    BY <2>1 DEF Turn, Top
  <2> QED
    BY <2>2 DEF WithTop, WithCall, Top
<1> HIDE DEF c
<1>4. FrameOK(WithCall(Top, c))
  BY <1>2, SubstFacts, WaitingFrame
<1> QED
  BY <1>3, <1>4, TopReplaced

LEMMA AddStep ==
  ASSUME Inv, Top.call # NoCall, NEW n \in Nat, NEW toks, IsSeq(toks), Add(n, toks)
  PROVE  Inv'
<1>1. IsSeq(Top.call.built \o toks)
  BY SubstFacts, ConcatType
<1> QED
  BY <1>1, TurnStep DEF Add

LEMMA OperandType ==
  ASSUME NEW c, NEW open, CallOK(c, open), NEW n
  PROVE  IsSeq(Operand(c, n))
<1>1. CASE IsParam(c, n)
  BY <1>1 DEF Operand, CallOK, IsParam
<1>2. CASE ~IsParam(c, n)
  BY <1>2, SingleType DEF Operand
<1> QED
  BY <1>1, <1>2

LEMMA StringizeStep ==
  ASSUME Inv, Stringize
  PROVE  Inv'
<1>1. PICK t : t = Fresh(Quoted(Words(Top.call.args[Top.call.rest[2]])))
  OBVIOUS
<1>2. Add(2, <<t>>) /\ Top.call # NoCall
  BY <1>1 DEF Stringize, Substituting
<1>3. IsSeq(<<t>>)
  BY SingleType
<1> QED
  BY <1>2, <1>3, AddStep

LEMMA CopyWordStep ==
  ASSUME Inv, CopyWord
  PROVE  Inv'
<1>1. PICK t : t = Fresh(Head(Top.call.rest))
  OBVIOUS
<1>2. Add(1, <<t>>) /\ Top.call # NoCall
  BY <1>1 DEF CopyWord, Substituting
<1>3. IsSeq(<<t>>)
  BY SingleType
<1> QED
  BY <1>2, <1>3, AddStep

LEMMA VaCommaStep ==
  ASSUME Inv, VaComma
  PROVE  Inv'
<1>1. PICK t : t = Fresh(",")
  OBVIOUS
<1>2. (Add(2, <<t>>) \/ Add(3, <<>>)) /\ Top.call # NoCall
  BY <1>1 DEF VaComma, Substituting
<1>3. IsSeq(<<t>>) /\ IsSeq(<<>>)
  BY SingleType, EmptyType
<1> QED
  BY <1>2, <1>3, AddStep

LEMMA LeftOperandStep ==
  ASSUME Inv, LeftOperand
  PROVE  Inv'
<1>1. PICK c, arg, right : c = Top.call /\ arg = c.args[c.rest[1]] /\ right = Operand(c, 3)
  OBVIOUS
<1>2. /\ Add(3, right) \/ Add(1, arg)
      /\ IsParam(c, 1) /\ Top.call # NoCall
  BY <1>1 DEF LeftOperand, Substituting, AtOperand
<1>3. CallOK(c, Top.open)
  BY <1>1, <1>2, SubstFacts
<1>4. IsSeq(arg)
  BY <1>1, <1>2, <1>3 DEF CallOK, IsParam
<1>5. IsSeq(right)
  BY <1>1, <1>3, OperandType
<1> QED
  BY <1>2, <1>4, <1>5, AddStep

LEMMA PasteStep ==
  ASSUME Inv, Paste
  PROVE  Inv'
<1>1. PICK c, right, t, built :
        /\ c = Top.call /\ right = Operand(c, 2) /\ t = Fresh(Pasting(c))
        /\ built = Front(c.built) \o <<t>> \o Tail(right)
  OBVIOUS
<1>2. Top.call # NoCall /\ IsWord(c, 1, "##") /\ ~Fails(c)
  BY <1>1 DEF Paste, Substituting
<1>3. (right = <<>> /\ Add(2, <<>>)) \/ (right # <<>> /\ Turn(2, built))
  BY <1>1 DEF Paste
<1>4. CallOK(c, Top.open) /\ IsSeq(c.built)
  BY <1>1, <1>2, SubstFacts
<1>5. CASE right = <<>> /\ Add(2, <<>>)
  BY <1>2, <1>5, EmptyType, AddStep
<1>6. CASE right # <<>> /\ Turn(2, built)
  <2>1. c.built # <<>>
    BY <1>2 DEF Fails
  <2>2. IsSeq(Front(c.built))
    <3>1. Len(c.built) \in Nat
      BY <1>4, SeqFacts
    <3>2. 1 \in Int /\ 1 >= 1 /\ Len(c.built) - 1 \in Int /\ Len(c.built) - 1 <= Len(c.built)
      BY <3>1
    <3> QED
      BY <1>4, <3>2, SubSeqType DEF Front
  <2>3. IsSeq(<<t>>)
    BY SingleType
  <2>4. IsSeq(right)
    BY <1>1, <1>4, OperandType
  <2>5. IsSeq(Tail(right))
    BY <1>6, <2>4, TailType
  <2>6. IsSeq(Front(c.built) \o <<t>>)
    BY <2>2, <2>3, ConcatType
  <2>7. IsSeq(built)
    BY <1>1, <2>5, <2>6, ConcatType
  <2> QED
    BY <1>2, <1>6, <2>7, TurnStep
<1> QED
  BY <1>3, <1>5, <1>6

LEMMA VaOptStep ==
  ASSUME Inv, VaOpt
  PROVE  Inv'
<1>1. PICK c, text : c = Top.call /\ text = VaOptText(c)
  OBVIOUS
<1>2. PICK end, copied : end = Closing(text) /\ copied = Freshly(SubSeq(text, 1, end - 1))
  OBVIOUS
<1>3. /\ Top.call # NoCall /\ AtVaOpt(c) /\ ~Fails(c)
      /\ Add(end + 2, copied) \/ Add(end + 2, <<>>)
  BY <1>1, <1>2 DEF VaOpt, Substituting
<1>4. Closings(text) # {}
  BY <1>1, <1>3 DEF Fails
<1>5. IsSeq(text)
  <2>1. IsSeq(c.rest) /\ Len(c.rest) \in Nat
    BY <1>1, <1>3, SubstFacts
  <2>2. 3 \in Int /\ 3 >= 1 /\ Len(c.rest) \in Int /\ Len(c.rest) <= Len(c.rest)
    BY <2>1
  <2>3. IsSeq(SubSeq(c.rest, 3, Len(c.rest)))
    BY <2>1, <2>2, SubSeqType
  <2> QED
    BY <1>1, <2>3 DEF VaOptText
<1>6. end \in 1..Len(text) /\ Len(text) \in Nat
  BY <1>2, <1>4, <1>5, ClosingType, SeqFacts
<1>7. IsSeq(copied)
  <2>1. 1 \in Int /\ 1 >= 1 /\ end - 1 \in Int /\ end - 1 <= Len(text)
    BY <1>6
  <2>2. IsSeq(SubSeq(text, 1, end - 1))
    BY <1>5, <2>1, SubSeqType
  <2> QED
    BY <1>2, <2>2, FreshlyType
<1>8. end + 2 \in Nat
  BY <1>6
<1> QED
  BY <1>3, <1>7, <1>8, EmptyType, AddStep

\* An argument is expanded in a frame that knows what the call lies in.
LEMMA ExpandArgStep ==
  ASSUME Inv, ExpandArg
  PROVE  Inv'
<1>1. PICK c, arg, around, f :
        /\ c = Top.call /\ arg = c.args[c.rest[1]] /\ around = OpenAround(Top)
        /\ f = Frame(arg, around)
  OBVIOUS
<1>2. /\ Top.call # NoCall /\ IsParam(c, 1)
      /\ frames' = <<f>> \o frames /\ macros' = macros
  BY <1>1 DEF ExpandArg, Substituting, AtParam
<1>3. CallOK(c, Top.open) /\ IsSeq(c.rest) /\ Len(c.rest) \in Nat
  BY <1>1, <1>2, SubstFacts
<1>4. /\ IsSeq(arg)
      /\ \A n \in 1..Len(arg) : Covers(arg[n].hs, Top.open, Len(c.after))
  BY <1>1, <1>2, <1>3 DEF CallOK, IsParam
<1>5. \A o \in around : \E p \in Top.open : p[2] <= Len(c.after) /\ o[1] = p[1] /\ o[2] = -1
  BY <1>1 DEF OpenAround, OpenBefore
<1>6. \A o \in around : o[2] \in Int
  BY <1>5
<1>7. Hidden(arg, around)
  BY <1>4, <1>5 DEF Hidden, Covers
<1>8. FrameOK(f)
  BY <1>1, <1>4, <1>6, <1>7, NewFrame
<1>9. c.rest # <<>>
  BY <1>2, <1>3, SeqFacts DEF IsParam
<1>10. frames[1].call = c
  BY <1>1 DEF Top
<1>11. FramesOK(<<f>> \o frames)
  BY <1>1, <1>2, <1>8, <1>9, <1>10, TopFacts, PushedFrame
<1> QED
  BY <1>2, <1>11 DEF Inv

\* The call below the top frame with its argument expanded.
Answered(c, rest, built, full) == [c EXCEPT !.rest = rest, !.built = built, !.full = full]

LEMMA AnsweredCall ==
  ASSUME NEW c, NEW open, CallOK(c, open), NEW rest, IsSeq(rest), NEW built, IsSeq(built),
         NEW full
  PROVE  CallOK(Answered(c, rest, built, full), open)
<1> DEFINE d == Answered(c, rest, built, full)
<1>1. /\ CallFields \subseteq DOMAIN d
      /\ d.name = c.name /\ d.args = c.args /\ d.hs = c.hs /\ d.after = c.after
      /\ d.rest = rest /\ d.built = built
  BY DEF Answered, CallOK, CallFields
<1> QED
  BY <1>1 DEF CallOK

LEMMA ArgExpandedStep ==
  ASSUME Inv, ArgExpanded
  PROVE  Inv'
<1>1. PICK below, full, under :
        /\ below = frames[2].call /\ under = Tail(frames)
        /\ full = [below.full EXCEPT ![Head(below.rest)] = Words(Top.out)]
  OBVIOUS
<1>2. PICK rest, built : rest = Tail(below.rest) /\ built = below.built \o Top.out
  OBVIOUS
<1>3. PICK c : c = Answered(below, rest, built, full)
  OBVIOUS
<1>4. Len(frames) > 1 /\ macros' = macros /\ frames' = [under EXCEPT ![1].call = c]
  BY <1>1, <1>2, <1>3 DEF ArgExpanded, Answered
<1>5. IsSeq(frames) /\ Len(frames) \in Nat /\ FramesOK(frames)
  BY SeqFacts DEF Inv, FramesOK
<1>6. 2 \in 2..Len(frames) /\ 2 \in 1..Len(frames)
  BY <1>4, <1>5
<1>7. FrameOK(frames[2]) /\ below # NoCall /\ below.rest # <<>>
  BY <1>1, <1>5, <1>6 DEF FramesOK
<1>8. CallOK(below, frames[2].open) /\ frames[2].todo # <<>>
  BY <1>1, <1>7 DEF FrameOK
<1>9. IsSeq(below.rest) /\ IsSeq(below.built)
  BY <1>8 DEF CallOK
<1>10. IsSeq(Top.out)
  BY TopFacts DEF FrameOK
<1>11. IsSeq(rest) /\ IsSeq(built)
  BY <1>2, <1>7, <1>9, <1>10, TailType, ConcatType
<1>12. CallOK(c, frames[2].open)
  BY <1>3, <1>8, <1>11, AnsweredCall
<1>13. FrameOK(WithCall(frames[2], c))
  BY <1>7, <1>8, <1>12, WaitingFrame
<1>14. FramesOK(under) /\ under[1] = frames[2]
  BY <1>1, <1>4, <1>5, PoppedFrame
<1>15. frames' = WithTop(under, WithCall(under[1], c))
  BY <1>4 DEF WithTop, WithCall
<1>16. FramesOK(frames')
  BY <1>13, <1>14, <1>15, ReplacedTop
<1> QED
  BY <1>4, <1>16 DEF Inv

\* The replacement hides what its call hid.
LEMMA EndSubstStep ==
  ASSUME Inv, EndSubst
  PROVE  Inv'
<1>1. PICK c, toks : c = Top.call /\ toks = add_hideset(c.built, c.hs)
  OBVIOUS
<1>2. /\ Top.call # NoCall /\ macros' = macros
      /\ frames' = WithTop(frames, Rescan(Top, c.name, toks, c.after))
  BY <1>1 DEF EndSubst, Substituting, WithTop, Top
<1>3. CallOK(c, Top.open) /\ FrameOK(Top)
  BY <1>1, <1>2, SubstFacts
<1>4. /\ IsSeq(c.after) /\ IsSeq(c.built) /\ Hidden(c.after, Top.open)
      /\ c.name \in c.hs /\ Covers(c.hs, Top.open, Len(c.after))
  BY <1>3 DEF CallOK
<1>5. /\ IsSeq(toks) /\ \A n \in 1..Len(toks) : toks[n].hs = c.built[n].hs \cup c.hs
  BY <1>1, <1>4, HidesetType
<1>6. \A n \in 1..Len(toks) :
        c.name \in toks[n].hs /\ Covers(toks[n].hs, Top.open, Len(c.after))
  BY <1>4, <1>5 DEF Covers
<1>7. FrameOK(Rescan(Top, c.name, toks, c.after))
  BY <1>3, <1>4, <1>5, <1>6, RescannedFrame
<1> QED
  BY <1>2, <1>7, TopReplaced

LEMMA NextInv == Inv /\ [Next]_vars => Inv'
<1> SUFFICES ASSUME Inv, [Next]_vars PROVE Inv'
  OBVIOUS
<1>1. CASE UNCHANGED vars
  BY <1>1 DEF vars, Inv
<1>2. CASE SubstPanics
  BY <1>2 DEF SubstPanics, Inv
<1> QED
  BY <1>1, <1>2, EmitStep, ExpandObjlikeStep, BeginCallStep, StringizeStep, VaCommaStep,
     PasteStep, VaOptStep, LeftOperandStep, ExpandArgStep, ArgExpandedStep, CopyWordStep,
     SubstFailsStep, EndSubstStep
     DEF Next

(***************************************************************************)
(* The theorem.                                                            *)
(***************************************************************************)
\* No macro is expanded while its replacement is being read, whatever the
\* macros, however a call is spread over the ends of replacements: hidesets as
\* expand_macro intersects and adds them are enough.
THEOREM NeverReentered == Spec => []NotReentered
<1>1. Inv => NotReentered
  <2> SUFFICES ASSUME Inv, Scanning, Expandable, NEW o \in Top.open, o[1] = Tok.w,
                      ~(o[2] >= Len(Top.todo))
               PROVE  FALSE
    BY DEF NotReentered
  <2>1. Top.todo # <<>> /\ Tok.w \notin Tok.hs
    BY DEF Scanning, Expandable
  <2>2. /\ Len(Top.todo) = Len(After) + 1 /\ Len(After) \in Nat /\ o[2] \in Int
        /\ Covers(Tok.hs, Top.open, Len(After))
    BY <2>1, ScannedToken
  <2>3. o[2] <= Len(After)
    BY <2>2
  <2> QED
    BY <2>1, <2>2, <2>3 DEF Covers
<1> QED
  BY <1>1, InitInv, NextInv, PTL DEF Spec
=============================================================================
