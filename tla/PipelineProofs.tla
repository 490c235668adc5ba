--------------------------- MODULE PipelineProofs ---------------------------
(***************************************************************************)
(* Proofs about the pipeline of one file (Pipeline.tla), for files and     *)
(* flows of any length.                                                    *)
(***************************************************************************)
EXTENDS Pipeline, SequenceTheorems, WellFoundedInduction, TLAPS

Validators == {"empty", "delay", "custom"}

(***************************************************************************)
(* Sequences.                                                              *)
(***************************************************************************)
LEMMA SeqOfIsSeq ==
  ASSUME NEW S, NEW n \in Nat
  PROVE  SeqOf(S, n) \subseteq Seq(S)
  BY SeqDef DEF SeqOf

LEMMA ContainsConcat ==
  ASSUME NEW S, NEW s \in Seq(S), NEW t \in Seq(S), NEW e
  PROVE  Contains(s \o t, e) <=> Contains(s, e) \/ Contains(t, e)
<1> DEFINE n == Len(s) + Len(t)
<1>1. /\ Len(s \o t) = n /\ Len(s) \in Nat /\ Len(t) \in Nat
      /\ \A i \in 1 .. n : (s \o t)[i] = IF i <= Len(s) THEN s[i] ELSE t[i - Len(s)]
  BY ConcatProperties
<1>2. Contains(s, e) => Contains(s \o t, e)
  <2>1. ASSUME NEW i \in 1 .. Len(s), s[i] = e PROVE Contains(s \o t, e)
    <3>1. i \in 1 .. n /\ i <= Len(s)
      BY <1>1
    <3>2. (s \o t)[i] = e
      BY <1>1, <2>1, <3>1
    <3> QED
      BY <1>1, <3>1, <3>2 DEF Contains
  <2> QED
    BY <2>1 DEF Contains
<1>3. Contains(t, e) => Contains(s \o t, e)
  <2>1. ASSUME NEW i \in 1 .. Len(t), t[i] = e PROVE Contains(s \o t, e)
    <3>1. Len(s) + i \in 1 .. n /\ ~(Len(s) + i <= Len(s)) /\ Len(s) + i - Len(s) = i
      BY <1>1
    <3>2. (s \o t)[Len(s) + i] = e
      BY <1>1, <2>1, <3>1
    <3> QED
      BY <1>1, <3>1, <3>2 DEF Contains
  <2> QED
    BY <2>1 DEF Contains
<1>4. Contains(s \o t, e) => Contains(s, e) \/ Contains(t, e)
  <2>1. ASSUME NEW i \in 1 .. n, (s \o t)[i] = e PROVE Contains(s, e) \/ Contains(t, e)
    <3>1. CASE i <= Len(s)
      BY <1>1, <2>1, <3>1 DEF Contains
    <3>2. CASE ~(i <= Len(s))
      BY <1>1, <2>1, <3>2 DEF Contains
    <3> QED
      BY <3>1, <3>2
  <2> QED
    BY <1>1, <2>1 DEF Contains
<1> QED
  BY <1>2, <1>3, <1>4

(***************************************************************************)
(* Induction over the natural numbers, about a set of them, and with it    *)
(* the text after each mutator of a chain.                                 *)
(***************************************************************************)
Below == {s \in Nat \X Nat : s[1] < s[2]}

LEMMA LeastNumber ==
  ASSUME NEW T, T \subseteq Nat, T # {}
  PROVE  \E x \in T : \A y \in T : x <= y
<1>1. IsWellFoundedOn(Below, Nat)
  BY NatLessThanWellFounded DEF OpToRel, Below
<1>2. PICK x \in T : \A y \in T : <<y, x>> \notin Below
  BY <1>1, WFMin, Zenon
<1>3. ASSUME NEW y \in T PROVE x <= y
  <2>1. <<y, x>> \notin Below /\ x \in Nat /\ y \in Nat
    BY <1>2
  <2> QED
    BY <2>1 DEF Below
<1> QED
  BY <1>3

LEMMA Induction ==
  ASSUME NEW P, 0 \in P, \A n \in Nat : n \in P => n + 1 \in P
  PROVE  Nat \subseteq P
<1> SUFFICES ASSUME Nat \ P # {} PROVE FALSE
  OBVIOUS
<1>1. PICK n \in Nat \ P : \A m \in Nat \ P : n <= m
  BY LeastNumber
<1>2. n # 0 /\ n - 1 \in Nat
  OBVIOUS
<1>3. n - 1 \in P
  BY <1>1, <1>2
<1>4. n - 1 + 1 \in P
  BY <1>2, <1>3
<1> QED
  BY <1>1, <1>2, <1>4

(***************************************************************************)
(* The inductive invariant.                                                *)
(***************************************************************************)
Shape ==
    /\ {original, file, buf} \subseteq Seq(Tokens)
    /\ mutators \in Seq(Mutators) /\ validators \in Seq(Validators)
    /\ offset \in 0 .. Len(file)
    /\ {live, errs, invalid} \subseteq BOOLEAN
    /\ at \in Nat \ {0} /\ cut \subseteq {"mutate", "validate"}
    /\ place \in Places \cup Verdicts

\* Where the reader in hand begins, and how far the processors are.
Progress ==
    /\ place = "open" =>
          file = original /\ offset = 0 /\ buf = <<>> /\ live = FALSE /\ at = 1
    /\ place = "mutate" => at <= Len(mutators) + 1
    /\ place = "validate" => at <= Len(validators) + 1
    /\ at <= Len(mutators) + 1 \/ at <= Len(validators) + 1

BeenThere(m) == \E i \in 1 .. at - 1 : mutators[i] = m

\* Why Mustache would write nothing.
Unrenderable(text) == Contains(text, "badtag") \/ RendersToNothing(text)

\* No mutator makes a text unrenderable, or a template of something else; and Mustache
\* leaves one only in a text that is unrenderable.
TemplatesOK ==
    /\ place = "mutate" =>
          /\ Unrenderable(Input) => Unrenderable(original)
          /\ BeenThere("mustache") /\ Template(Input) => Unrenderable(original)
    /\ (place \in {"written", "validate", "passed"} /\ "mutate" \notin cut
          /\ Contains(mutators, "mustache") /\ Template(file))
       => Unrenderable(original)

\* An empty file is invalid from EmptyFile on.
Emptied ==
    /\ (place = "validate" /\ \E i \in 1 .. at - 1 : validators[i] = "empty")
          => invalid \/ file # <<>>
    /\ (place = "passed" /\ Contains(validators, "empty") /\ "validate" \notin cut)
          => file # <<>>

\* An EmptyFile that reads alone reads from the beginning.
Caused ==
    /\ place \in {"open", "mutate", "written"} => ~invalid
    /\ \A i \in DOMAIN validators : EmptyReadsAlone(i) =>
          /\ place = "validate" /\ at <= i => offset = 0 /\ ~invalid
          /\ place = "validate" /\ invalid => file = <<>> \/ errs
          /\ place = "rejected" => file = <<>>

IInv == Shape /\ Progress /\ TemplatesOK /\ Emptied /\ Caused

LEMMA InitIInv == Init => IInv
<1> SUFFICES ASSUME Init PROVE IInv
  OBVIOUS
<1>1. original \in Seq(Tokens)
  <2>1. PICK t \in SeqOf(Documents, MaxDocuments), e \in {<<>>, <<"eol">>} : original = t \o e
    BY DEF Init, Uploads
  <2>2. t \in Seq(Documents)
    BY <2>1, SeqOfIsSeq, PipelineAssumption
  <2>3. t \in Seq(Tokens)
    BY <2>2, SeqMonotonic, Documents \subseteq Tokens DEF Tokens
  <2>4. e \in Seq(Tokens)
    <3>1. "eol" \in Tokens
      BY DEF Tokens
    <3>2. <<>> \in Seq(Tokens)
      BY EmptySeq
    <3>3. <<"eol">> \in Seq(Tokens)
      BY <3>1
    <3> QED
      BY <2>1, <3>2, <3>3
  <2> QED
    BY <2>1, <2>3, <2>4, ConcatProperties
<1>2. mutators \in Seq(Mutators) /\ validators \in Seq(Validators)
  BY SeqOfIsSeq, PipelineAssumption DEF Init, Mutators, Validators
<1>3. Len(original) \in Nat /\ Len(mutators) \in Nat /\ Len(validators) \in Nat
  BY <1>1, <1>2, LenProperties
<1>4. DOMAIN validators = 1 .. Len(validators)
  BY <1>2, LenProperties
<1>5. Shape
  <2>1. {original, file, buf} \subseteq Seq(Tokens)
    BY <1>1, EmptySeq DEF Init
  <2>2. {live, errs, invalid} \subseteq BOOLEAN
    BY DEF Init
  <2>3. /\ offset \in 0 .. Len(file) /\ at \in Nat \ {0}
        /\ cut \subseteq {"mutate", "validate"} /\ place \in Places \cup Verdicts
    BY <1>3 DEF Init, Places
  <2> QED
    BY <1>2, <2>1, <2>2, <2>3 DEF Shape
<1>6. Progress
  BY <1>3 DEF Init, Progress
<1>7. TemplatesOK /\ Emptied /\ Caused
  BY DEF Init, TemplatesOK, Emptied, Caused
<1> QED
  BY <1>5, <1>6, <1>7 DEF IInv

(***************************************************************************)
(* The reader in hand.                                                     *)
(***************************************************************************)
Rest == IF live THEN SubSeq(file, offset + 1, Len(file)) ELSE <<>>

LEMMA Reading ==
  ASSUME Shape
  PROVE  /\ Rest \in Seq(Tokens) /\ Input = buf \o Rest /\ Input \in Seq(Tokens)
         /\ Len(Rest) = IF live THEN Len(file) - offset ELSE 0
         /\ Len(Input) = Len(buf) + Len(Rest)
         /\ ~live => Input = buf
<1>1. file \in Seq(Tokens) /\ buf \in Seq(Tokens) /\ offset \in 0 .. Len(file)
  BY DEF Shape
<1>2. Len(file) \in Nat /\ Len(buf) \in Nat /\ \A i \in 1 .. Len(file) : file[i] \in Tokens
  BY <1>1, LenProperties, ElementOfSeq
<1>3. SubSeq(file, offset + 1, Len(file)) \in Seq(Tokens)
  BY <1>1, <1>2, SubSeqProperties
<1>4. Len(SubSeq(file, offset + 1, Len(file))) = Len(file) - offset
  BY <1>1, <1>2, SubSeqProperties
<1>5. <<>> \in Seq(Tokens) /\ Len(<<>>) = 0
  BY EmptySeq
<1>6. Rest \in Seq(Tokens) /\ Len(Rest) = IF live THEN Len(file) - offset ELSE 0
  BY <1>3, <1>4, <1>5 DEF Rest
<1>7. Input = buf \o Rest
  BY DEF Input, Rest
<1>8. Input \in Seq(Tokens) /\ Len(Input) = Len(buf) + Len(Rest)
  BY <1>1, <1>6, <1>7, ConcatProperties
<1>9. ~live => Input = buf
  BY <1>1, <1>7, ConcatEmptySeq DEF Rest
<1> QED
  BY <1>6, <1>7, <1>8, <1>9

\* However much a mutator read, what is handed on yields the same text: the buffer of
\* what was read and the rest of the file are adjacent.
LEMMA HandOnKeeps ==
  ASSUME Shape, NEW n \in 0 .. Len(Input), HandOn(n), file' = file
  PROVE  /\ buf' \in Seq(Tokens) /\ live' = live /\ offset' \in 0 .. Len(file)
         /\ Input' = Input
<1> DEFINE k == FromFile(n)
           Taken == SubSeq(file, offset + 1, offset + k)
           Left  == SubSeq(file, offset + k + 1, Len(file))
<1>1. file \in Seq(Tokens) /\ buf \in Seq(Tokens) /\ offset \in 0 .. Len(file)
  BY DEF Shape
<1>2. Len(file) \in Nat /\ Len(buf) \in Nat /\ \A i \in 1 .. Len(file) : file[i] \in Tokens
  BY <1>1, LenProperties, ElementOfSeq
<1>3. /\ k \in Nat /\ offset + k \in offset .. Len(file)
      /\ ~live => k = 0
  BY <1>1, <1>2, Reading DEF FromFile
<1>4. buf' = buf \o Taken /\ offset' = offset + k /\ live' = live
  BY DEF HandOn
<1>5. Taken \in Seq(Tokens) /\ Left \in Seq(Tokens)
  BY <1>1, <1>2, <1>3, SubSeqProperties
<1>6. buf' \in Seq(Tokens)
  BY <1>1, <1>4, <1>5, ConcatProperties
<1>7. CASE live
  <2>1. Taken \o Left = SubSeq(file, offset + 1, Len(file))
    <3> DEFINE m == offset + 1
               j == offset + k
    <3>1. m \in 1 .. Len(file) + 1 /\ j \in m - 1 .. Len(file) /\ Len(file) \in j .. Len(file)
      BY <1>1, <1>2, <1>3
    <3>2. SubSeq(file, m, j) \o SubSeq(file, j + 1, Len(file)) = SubSeq(file, m, Len(file))
      <4> HIDE DEF m, j
      <4> QED
        BY <1>1, <3>1, ConcatAdjacentSubSeq
    <3> QED
      BY <3>2
  <2>2. Input' = (buf \o Taken) \o Left
    BY <1>4, <1>7 DEF Input
  <2>3. (buf \o Taken) \o Left = buf \o (Taken \o Left)
    <3> HIDE DEF Taken, Left
    <3> QED
      BY <1>1, <1>5, ConcatAssociative
  <2>4. Input = buf \o SubSeq(file, offset + 1, Len(file))
    BY <1>7 DEF Input
  <2>5. Input' = Input
    BY <2>1, <2>2, <2>3, <2>4
  <2>6. offset' \in 0 .. Len(file)
    BY <1>1, <1>2, <1>3, <1>4
  <2> QED
    BY <1>4, <1>6, <2>5, <2>6
<1>8. CASE ~live
  <2>1. Taken = <<>>
    <3>1. offset + 1 \in Int /\ offset + k \in Int /\ offset + k < offset + 1
      BY <1>1, <1>3, <1>8
    <3> HIDE DEF k
    <3> QED
      BY <3>1, SubSeqEmpty
  <2>2. buf' = buf
    BY <1>1, <1>4, <2>1, ConcatEmptySeq
  <2> QED
    BY <1>1, <1>2, <1>3, <1>4, <1>6, <1>8, <2>2 DEF Input
<1> QED
  BY <1>7, <1>8

LEMMA ReplaceGives ==
  ASSUME Shape, NEW text \in Seq(Tokens), Replace(text), file' = file
  PROVE  /\ buf' \in Seq(Tokens) /\ live' = FALSE /\ offset' \in 0 .. Len(file)
         /\ Input' = text
<1>1. buf' = text /\ live' = FALSE /\ offset' = offset
  BY DEF Replace
<1>2. Input' = text \o <<>>
  BY <1>1 DEF Input
<1> QED
  BY <1>1, <1>2, ConcatEmptySeq DEF Shape

(***************************************************************************)
(* The mutators.                                                           *)
(***************************************************************************)
LEMMA HelmText ==
  ASSUME NEW text \in Seq(Tokens)
  PROVE  /\ HelmWrites(text) \in Seq(Tokens)
         /\ ~Template(HelmWrites(text)) /\ ~Unrenderable(HelmWrites(text))
<1>1. CASE First(text) \in Annotated
  <2>1. HelmWrites(text) = <<"sync", "eol">>
    BY <1>1 DEF HelmWrites
  <2>2. "sync" \in Tokens /\ "eol" \in Tokens
    BY DEF Tokens, Documents, Annotated
  <2>3. \A i \in 1 .. Len(<<"sync", "eol">>) : <<"sync", "eol">>[i] \in {"sync", "eol"}
    OBVIOUS
  <2>4. \A d \in {"tag", "void", "badtag"} : ~Contains(<<"sync", "eol">>, d)
    BY <2>3 DEF Contains
  <2> QED
    BY <2>1, <2>2, <2>4 DEF Template, Unrenderable, RendersToNothing
<1>2. CASE First(text) \notin Annotated
  <2>1. HelmWrites(text) = <<>> /\ \A d : ~Contains(<<>>, d)
    BY <1>2 DEF HelmWrites, Contains
  <2> QED
    BY <2>1, EmptySeq DEF Template, Unrenderable, RendersToNothing
<1> QED
  BY <1>1, <1>2

\* What Mustache writes has no template left.
LEMMA MustacheText ==
  ASSUME NEW text \in Seq(Tokens)
  PROVE  /\ MustacheWrites(text) \in Seq(Tokens)
         /\ ~Template(MustacheWrites(text)) /\ ~Unrenderable(MustacheWrites(text))
         /\ MustacheWrites(text) = <<>> => text = <<>> \/ Unrenderable(text)
<1>1. DOMAIN text = 1 .. Len(text) /\ Len(text) \in Nat /\ \A i \in 1 .. Len(text) : text[i] \in Tokens
  BY LenProperties, ElementOfSeq
<1>2. CASE Unrenderable(text)
  <2>1. MustacheWrites(text) = <<>> /\ \A d : ~Contains(<<>>, d)
    BY <1>2 DEF MustacheWrites, Unrenderable, Contains
  <2> QED
    BY <1>2, <2>1, EmptySeq DEF Template, Unrenderable, RendersToNothing
<1>3. CASE ~Unrenderable(text)
  <2> DEFINE out == [i \in 1 .. Len(text) |->
                       IF text[i] \in {"tag", "void"} THEN "bare" ELSE text[i]]
  <2>1. MustacheWrites(text) = out
    BY <1>1, <1>3 DEF MustacheWrites, Unrenderable
  <2>2. "bare" \in Tokens
    BY DEF Tokens, Documents, Bare
  <2>3. out \in [1 .. Len(text) -> Tokens]
    BY <1>1, <2>2
  <2>4. out \in Seq(Tokens)
    BY <1>1, <2>3, SeqDef
  <2>5. Len(out) = Len(text)
    BY <1>1, <2>3, <2>4, LenProperties
  <2>6. \A i \in 1 .. Len(out) : out[i] \notin {"tag", "void", "badtag"}
    BY <1>3, <2>5 DEF Unrenderable, Contains
  <2>7. out = <<>> => text = <<>>
    BY <1>1, <2>5, EmptySeq
  <2> HIDE DEF out
  <2>8. \A d \in {"tag", "void", "badtag"} : ~Contains(out, d)
    BY <2>6 DEF Contains
  <2> QED
    BY <2>1, <2>4, <2>7, <2>8 DEF Template, Unrenderable, RendersToNothing
<1> QED
  BY <1>2, <1>3

LEMMA NewLineText ==
  ASSUME NEW text \in Seq(Tokens)
  PROVE  /\ NewLineWrites(text) \in Seq(Tokens)
         /\ Template(NewLineWrites(text)) => Template(text)
         /\ Unrenderable(NewLineWrites(text)) => Unrenderable(text)
<1>1. CASE NewLineWrites(text) = <<>>
  <2>1. \A d : ~Contains(<<>>, d)
    BY DEF Contains
  <2> QED
    BY <1>1, <2>1, EmptySeq DEF Template, Unrenderable, RendersToNothing
<1>2. CASE NewLineWrites(text) # <<>>
  <2> DEFINE out == Append(text, "eol")
  <2>1. NewLineWrites(text) = out
    BY <1>2 DEF NewLineWrites
  <2>2. "eol" \in Tokens
    BY DEF Tokens
  <2>3. /\ out \in Seq(Tokens) /\ Len(out) = Len(text) + 1 /\ Len(text) \in Nat
        /\ \A i \in 1 .. Len(text) : out[i] = text[i]
        /\ out[Len(text) + 1] = "eol"
        /\ DOMAIN out = 1 .. Len(text) + 1 /\ DOMAIN text = 1 .. Len(text)
    BY <2>2
  <2> HIDE DEF out
  <2>4. \A d \in {"tag", "void", "badtag"} : Contains(out, d) => Contains(text, d)
    BY <2>3 DEF Contains
  <2>5. RendersToNothing(out) => RendersToNothing(text)
    BY <2>3, <2>4 DEF RendersToNothing
  <2> QED
    BY <2>1, <2>3, <2>4, <2>5 DEF Template, Unrenderable
<1> QED
  BY <1>1, <1>2

\* A mutator writes a text, makes no templates and none unrenderable, and Mustache leaves
\* templates only in a text that it cannot render.
LEMMA MutatedText ==
  ASSUME NEW text \in Seq(Tokens), NEW m \in Mutators
  PROVE  /\ Writes(m, text) \in Seq(Tokens) /\ Mutated(text, m) \in Seq(Tokens)
         /\ Unrenderable(Mutated(text, m)) => Unrenderable(text)
         /\ Template(Mutated(text, m)) => Template(text)
         /\ m = "mustache" /\ Template(Mutated(text, m)) => Unrenderable(text)
<1>1. CASE m = "helm"
  BY <1>1, HelmText DEF Mutated, Writes
<1>2. CASE m = "mustache"
  <2>1. Writes(m, text) = MustacheWrites(text)
    BY <1>2 DEF Writes
  <2>2. ~Template(<<>>)
    BY DEF Template, Contains
  <2> QED
    BY <1>2, <2>1, <2>2, MustacheText DEF Mutated
<1>3. CASE m = "newline"
  BY <1>3, NewLineText DEF Mutated, Writes
<1>4. CASE m \in {"silent", "failing"}
  <2>1. Writes(m, text) = <<>>
    BY <1>4 DEF Writes
  <2> QED
    BY <1>4, <2>1, EmptySeq DEF Mutated
<1> QED
  BY <1>1, <1>2, <1>3, <1>4 DEF Mutators

\* The text after each mutator of a chain exists, and is what its definition says.
LEMMA MutationsAre ==
  ASSUME NEW text \in Seq(Tokens), NEW chain \in Seq(Mutators)
  PROVE  /\ Mutations(text, chain)[0] = text
         /\ \A n \in 1 .. Len(chain) :
              Mutations(text, chain)[n] = Mutated(Mutations(text, chain)[n - 1], chain[n])
<1> DEFINE After(g, n) == IF n = 0 THEN text ELSE Mutated(g[n - 1], chain[n])
           Upto(g, m) == \A n \in 0 .. m : g[n] = After(g, n)
           Exists(m) == m <= Len(chain) => \E g \in [0 .. m -> Seq(Tokens)] : Upto(g, m)
           P == {m \in Nat : Exists(m)}
<1>1. Len(chain) \in Nat /\ \A n \in 1 .. Len(chain) : chain[n] \in Mutators
  BY LenProperties, ElementOfSeq
<1>2. Exists(0)
  <2> DEFINE g == [n \in 0 .. 0 |-> text]
  <2>1. g \in [0 .. 0 -> Seq(Tokens)] /\ Upto(g, 0)
    OBVIOUS
  <2> QED
    BY <2>1
<1>3. ASSUME NEW m \in Nat, Exists(m) PROVE Exists(m + 1)
  <2> SUFFICES ASSUME m + 1 <= Len(chain)
               PROVE  \E g \in [0 .. m + 1 -> Seq(Tokens)] : Upto(g, m + 1)
    OBVIOUS
  <2>0. m <= Len(chain)
    BY <1>1
  <2>1. PICK g \in [0 .. m -> Seq(Tokens)] : Upto(g, m)
    <3> HIDE DEF Upto
    <3> QED
      BY <1>3, <2>0
  <2> DEFINE next == Mutated(g[m], chain[m + 1])
             h == [n \in 0 .. m + 1 |-> IF n = m + 1 THEN next ELSE g[n]]
  <2>2. next \in Seq(Tokens)
    <3>1. g[m] \in Seq(Tokens) /\ chain[m + 1] \in Mutators
      BY <1>1
    <3> QED
      BY <3>1, MutatedText
  <2>3. h \in [0 .. m + 1 -> Seq(Tokens)]
    <3> HIDE DEF next
    <3> QED
      BY <2>2
  <2>4. ASSUME NEW n \in 0 .. m + 1 PROVE h[n] = After(h, n)
    <3>1. CASE n = m + 1
      <4>1. m \in 0 .. m + 1 /\ m # m + 1 /\ n # 0 /\ n - 1 = m
        BY <3>1
      <4>2. h[n] = Mutated(g[m], chain[n]) /\ h[m] = g[m]
        BY <3>1, <4>1
      <4> QED
        BY <4>1, <4>2
    <3>2. CASE n \in 1 .. m
      <4>1. /\ n \in 0 .. m /\ n # 0 /\ n # m + 1 /\ n - 1 # m + 1
            /\ n - 1 \in 0 .. m /\ n - 1 \in 0 .. m + 1
        BY <3>2
      <4>2. h[n] = g[n] /\ h[n - 1] = g[n - 1] /\ g[n] = After(g, n)
        BY <2>1, <4>1
      <4> HIDE DEF h
      <4> QED
        BY <4>1, <4>2
    <3>3. CASE n = 0
      <4>1. g[0] = text
        BY <2>1
      <4> QED
        BY <3>3, <4>1
    <3> QED
      BY <3>1, <3>2, <3>3
  <2> HIDE DEF h, Upto
  <2>5. Upto(h, m + 1)
    BY <2>4 DEF Upto
  <2> QED
    BY <2>3, <2>5
<1>4. \E g \in [0 .. Len(chain) -> Seq(Tokens)] : Upto(g, Len(chain))
  <2> HIDE DEF Exists
  <2>1. 0 \in P /\ \A m \in Nat : m \in P => m + 1 \in P
    BY <1>2, <1>3
  <2>2. Nat \subseteq P
    <3> HIDE DEF P
    <3> QED
      BY <2>1, Induction
  <2>3. Exists(Len(chain))
    BY <1>1, <2>2
  <2> QED
    BY <1>1, <2>3 DEF Exists
<1> DEFINE IsAfter(g) == g = [n \in 0 .. Len(chain) |-> After(g, n)]
<1>5. \E g : IsAfter(g)
  <2>1. PICK g \in [0 .. Len(chain) -> Seq(Tokens)] : Upto(g, Len(chain))
    BY <1>4
  <2>2. g = [n \in 0 .. Len(chain) |-> g[n]]
    OBVIOUS
  <2>3. IsAfter(g)
    <3> HIDE DEF After
    <3> QED
      BY <2>1, <2>2
  <2> HIDE DEF IsAfter
  <2> QED
    BY <2>3
<1>6. IsAfter(Mutations(text, chain))
  BY <1>5, Zenon DEF Mutations
<1> DEFINE f == Mutations(text, chain)
<1> HIDE DEF f
<1>7. \A n \in 0 .. Len(chain) : f[n] = After(f, n)
  <2> HIDE DEF After
  <2> QED
    BY <1>6 DEF f
<1>8. 0 \in 0 .. Len(chain) /\ \A n \in 1 .. Len(chain) : n \in 0 .. Len(chain) /\ n # 0
  BY <1>1
<1> QED
  BY <1>7, <1>8 DEF f

MutatorStep ==
    \/ HelmPasses \/ HelmConverts
    \/ Mustache \/ NewLineEOF \/ StaysSilent \/ MutatorFails

Ran ==
    /\ place = "mutate" /\ at <= Len(mutators)
    /\ buf' \in Seq(Tokens) /\ offset' \in 0 .. Len(file)
    /\ live' \in BOOLEAN /\ errs' \in BOOLEAN
    /\ Input' = Mutated(Input, mutators[at])
    /\ at' = at + 1
    /\ UNCHANGED <<flowVars, file, invalid, cut, place>>

\* The next mutator, or the file, is handed what this one wrote, or what it was handed
\* itself if it wrote nothing - however much of it was read, and whether or not it failed.
LEMMA EachRuns == ASSUME Shape, MutatorStep PROVE Ran
<1>1. Input \in Seq(Tokens) /\ Len(Input) \in Nat
  BY Reading, LenProperties
<1>2. live \in BOOLEAN /\ errs \in BOOLEAN
  BY DEF Shape
<1>3. ASSUME Advance PROVE at' = at + 1 /\ UNCHANGED <<flowVars, file, invalid, cut, place>>
  BY <1>3 DEF Advance
<1>4. ASSUME NEW n \in 0 .. Len(Input), HandOn(n), Advance, NEW m, Mutating(m),
             Writes(m, Input) = <<>>, errs' \in BOOLEAN
      PROVE  Ran
  BY <1>2, <1>3, <1>4, HandOnKeeps DEF Ran, Mutating, Mutated
<1>5. ASSUME NEW text \in Seq(Tokens), Replace(text), Advance, NEW m, Mutating(m),
             Writes(m, Input) = text, text # <<>>, errs' \in BOOLEAN
      PROVE  Ran
  BY <1>2, <1>3, <1>5, ReplaceGives DEF Ran, Mutating, Mutated
<1>6. CASE HelmPasses
  <2>1. First(Input) \notin Annotated /\ Mutating("helm") /\ Advance
    BY <1>6 DEF HelmPasses, Bare, Annotated
  <2>2. Writes("helm", Input) = <<>>
    BY <2>1 DEF Writes, HelmWrites
  <2>3. PICK n \in Decoded : HandOn(n)
    BY <1>6 DEF HelmPasses
  <2>4. n \in 0 .. Len(Input)
    BY <1>1 DEF Decoded
  <2>5. errs' \in BOOLEAN
    BY <1>6 DEF HelmPasses
  <2> QED
    BY <1>4, <2>1, <2>2, <2>3, <2>4, <2>5
<1>7. CASE HelmConverts
  <2>1. /\ Writes("helm", Input) = HelmWrites(Input) /\ HelmWrites(Input) # <<>>
        /\ Replace(HelmWrites(Input)) /\ Advance /\ Mutating("helm") /\ errs' = errs
    BY <1>7 DEF HelmConverts, Writes
  <2> QED
    BY <1>1, <1>2, <1>5, <2>1, HelmText
<1>8. ASSUME NEW m \in {"mustache", "newline"}, Mutating(m), WritesOrPasses(Writes(m, Input))
      PROVE  Ran
  <2>1. Writes(m, Input) \in Seq(Tokens)
    BY <1>1, MutatedText DEF Mutators
  <2>2. Advance /\ errs' = errs
    BY <1>8 DEF WritesOrPasses
  <2>3. CASE Writes(m, Input) = <<>>
    BY <1>1, <1>2, <1>4, <1>8, <2>2, <2>3 DEF WritesOrPasses
  <2>4. CASE Writes(m, Input) # <<>>
    BY <1>2, <1>5, <1>8, <2>1, <2>2, <2>4 DEF WritesOrPasses
  <2> QED
    BY <2>3, <2>4
<1>9. CASE Mustache
  BY <1>8, <1>9 DEF Mustache, Writes
<1>10. CASE NewLineEOF
  BY <1>8, <1>10 DEF NewLineEOF, Writes
<1>11. CASE StaysSilent \/ MutatorFails
  <2>1. PICK m \in {"silent", "failing"} : Mutating(m)
    BY <1>11 DEF StaysSilent, MutatorFails
  <2>2. Writes(m, Input) = <<>>
    BY DEF Writes
  <2>3. PICK n \in 0 .. Len(Input) : HandOn(n)
    BY <1>11 DEF StaysSilent, MutatorFails
  <2>4. errs' \in BOOLEAN /\ Advance
    BY <1>2, <1>11 DEF StaysSilent, MutatorFails
  <2> QED
    BY <1>4, <2>1, <2>2, <2>3, <2>4
<1> QED
  BY <1>6, <1>7, <1>9, <1>10, <1>11 DEF MutatorStep

LEMMA MutatorKeeps == ASSUME IInv, MutatorStep PROVE IInv'
<1>1. Ran
  BY EachRuns DEF IInv
<1>2. Input \in Seq(Tokens) /\ Len(mutators) \in Nat /\ mutators[at] \in Mutators /\ at \in Nat \ {0}
  BY <1>1, Reading, LenProperties, ElementOfSeq DEF IInv, Shape, Ran
<1>3. Shape'
  BY <1>1, <1>2 DEF IInv, Shape, Ran, flowVars
<1>4. Progress'
  BY <1>1, <1>2 DEF IInv, Progress, Ran, flowVars
<1>5. TemplatesOK'
  <2>1. Unrenderable(Input') => Unrenderable(original)
    BY <1>1, <1>2, MutatedText DEF IInv, TemplatesOK, Ran
  <2>2. ASSUME BeenThere("mustache")', Template(Input') PROVE Unrenderable(original)
    <3>1. Template(Input)
      BY <1>1, <1>2, <2>2, MutatedText DEF Ran
    <3>2. CASE mutators[at] = "mustache"
      BY <1>1, <1>2, <2>2, <3>2, MutatedText DEF IInv, TemplatesOK, Ran
    <3>3. CASE mutators[at] # "mustache"
      <4>1. BeenThere("mustache")
        BY <1>1, <1>2, <2>2, <3>3 DEF BeenThere, Ran, flowVars
      <4> QED
        BY <1>1, <3>1, <4>1 DEF IInv, TemplatesOK, Ran
    <3> QED
      BY <3>2, <3>3
  <2> QED
    BY <1>1, <2>1, <2>2 DEF TemplatesOK, Ran, flowVars
<1>6. Emptied' /\ Caused'
  BY <1>1 DEF IInv, Emptied, Caused, EmptyReadsAlone, Ran, flowVars
<1> QED
  BY <1>3, <1>4, <1>5, <1>6 DEF IInv

(***************************************************************************)
(* The other steps of the manager before the validators.                   *)
(***************************************************************************)
LEMMA OpenKeeps == ASSUME IInv, Open \/ NoMutators \/ HelmPanics PROVE IInv'
<1> USE DEF IInv, flowVars, readerVars
<1>1. Len(mutators) \in Nat /\ Len(file) \in Nat
  BY LenProperties DEF Shape
<1>2. Shape'
  BY DEF Shape, Open, NoMutators, HelmPanics, Mutating, Places, Verdicts
<1>3. Progress'
  BY <1>1 DEF Progress, Open, NoMutators, HelmPanics, Mutating
<1>4. TemplatesOK'
  <2>1. CASE Open
    <3>1. CASE place' = "mutate"
      <4>1. Input' = original
        <5>1. Input' = <<>> \o SubSeq(file, 1, Len(file))
          BY <2>1, <3>1 DEF Open, Progress, Input
        <5> QED
          BY <2>1, <5>1, SubSeqFull, ConcatEmptySeq DEF Shape, Progress, Open
      <4>2. ~BeenThere("mustache")'
        BY <2>1 DEF Open, Progress, BeenThere
      <4> QED
        BY <2>1, <3>1, <4>1, <4>2 DEF Open, TemplatesOK
    <3>2. CASE place' # "mutate"
      BY <2>1, <3>2 DEF Open, TemplatesOK
    <3> QED
      BY <3>1, <3>2
  <2>2. CASE NoMutators
    <3>1. ~Contains(mutators, "mustache")
      BY <2>2 DEF NoMutators, Contains
    <3> QED
      BY <2>2, <3>1 DEF NoMutators, TemplatesOK
  <2>3. CASE HelmPanics
    BY <2>3 DEF HelmPanics, TemplatesOK
  <2> QED
    BY <2>1, <2>2, <2>3
<1>5. Emptied' /\ Caused'
  BY DEF Emptied, Caused, EmptyReadsAlone, Open, NoMutators, HelmPanics, Mutating
<1> QED
  BY <1>2, <1>3, <1>4, <1>5

LEMMA WriteKeeps == ASSUME IInv, WriteBack \/ WriteBackFails PROVE IInv'
<1> USE DEF IInv, flowVars
<1>1. /\ place = "mutate" /\ at > Len(mutators) /\ place' = "written"
      /\ live' = FALSE /\ buf' = <<>> /\ offset' = 0
      /\ UNCHANGED <<flowVars, at, errs, invalid>>
      /\ (cut' = cut /\ file' = buf) \/ cut' = {"mutate"}
  BY DEF WriteBack, WriteBackFails, Written
<1>2. Len(mutators) \in Nat /\ Len(buf) \in Nat /\ at \in Nat \ {0}
  BY LenProperties DEF Shape
<1>3. file' \in Seq(Tokens)
  <2>1. \A n \in 0 .. Len(buf) : SubSeq(buf, 1, n) \in Seq(Tokens)
    <3>1. \A i \in 1 .. Len(buf) : buf[i] \in Tokens
      BY ElementOfSeq DEF Shape
    <3> QED
      BY <1>2, <3>1, SubSeqProperties
  <2> QED
    BY <2>1 DEF WriteBack, WriteBackFails, Shape
<1>4. Shape'
  <2>1. Len(file') \in Nat
    BY <1>3, LenProperties
  <2>2. <<>> \in Seq(Tokens)
    BY EmptySeq
  <2>3. {original', file', buf'} \subseteq Seq(Tokens)
    BY <1>1, <1>3, <2>2 DEF Shape
  <2>4. {live', errs', invalid'} \subseteq BOOLEAN
    BY <1>1 DEF Shape
  <2>5. offset' \in 0 .. Len(file') /\ place' \in Places
    BY <1>1, <2>1 DEF Places
  <2>6. cut' \subseteq {"mutate", "validate"}
    BY <1>1 DEF Shape
  <2> QED
    BY <1>1, <2>3, <2>4, <2>5, <2>6 DEF Shape
<1>5. Progress'
  BY <1>1 DEF Progress
<1>6. TemplatesOK'
  <2>1. ASSUME "mutate" \notin cut', Contains(mutators, "mustache"), Template(file')
        PROVE  Unrenderable(original)
    <3>1. Template(buf)
      BY <1>1, <2>1
    <3>2. Template(Input)
      <4>1. buf \in Seq(Tokens) /\ Rest \in Seq(Tokens) /\ Input = buf \o Rest
        BY Reading DEF Shape
      <4> QED
        BY <3>1, <4>1, ContainsConcat DEF Template
    <3>3. BeenThere("mustache")
      BY <1>1, <1>2, <2>1 DEF BeenThere, Contains, Progress
    <3> QED
      BY <1>1, <3>2, <3>3 DEF TemplatesOK
  <2> QED
    BY <1>1, <2>1 DEF TemplatesOK
<1>7. Emptied' /\ Caused'
  BY <1>1 DEF Emptied, Caused, EmptyReadsAlone
<1> QED
  BY <1>4, <1>5, <1>6, <1>7

(***************************************************************************)
(* The validators.                                                         *)
(***************************************************************************)
LEMMA BetweenKeeps ==
  ASSUME IInv, MutatorsFailed \/ Reopen \/ ReopenFails \/ Judge
  PROVE  IInv'
<1> USE DEF IInv, flowVars, readerVars
<1>1. /\ Len(validators) \in Nat /\ Len(mutators) \in Nat /\ Len(file) \in Nat
      /\ DOMAIN validators = 1 .. Len(validators) /\ at \in Nat \ {0}
  BY LenProperties DEF Shape
<1>2. Shape'
  <2>1. offset' \in 0 .. Len(file) /\ at' \in Nat \ {0}
    BY <1>1 DEF Shape, MutatorsFailed, Reopen, ReopenFails, Judge
  <2>2. place' \in Places \cup Verdicts
    BY DEF MutatorsFailed, Reopen, ReopenFails, Judge, Places, Verdicts
  <2>3. UNCHANGED <<flowVars, file, readerVars, errs, invalid>>
    BY DEF MutatorsFailed, Reopen, ReopenFails, Judge
  <2>4. cut' \in {cut, cut \cup {"validate"}} /\ cut \subseteq {"mutate", "validate"}
    BY DEF Shape, MutatorsFailed, Reopen, ReopenFails, Judge
  <2> QED
    BY <2>1, <2>2, <2>3, <2>4 DEF Shape
<1>3. Progress'
  BY <1>1 DEF Progress, MutatorsFailed, Reopen, ReopenFails, Judge
<1>4. TemplatesOK'
  BY DEF TemplatesOK, MutatorsFailed, Reopen, ReopenFails, Judge
<1>5. Emptied'
  <2>1. CASE Judge
    <3>1. ASSUME place' = "passed", Contains(validators, "empty") PROVE file # <<>>
      <4>1. \E i \in 1 .. at - 1 : validators[i] = "empty"
        BY <1>1, <2>1, <3>1 DEF Contains, Judge
      <4> QED
        BY <2>1, <3>1, <4>1 DEF Judge, Emptied
    <3> QED
      BY <2>1, <3>1 DEF Judge, Emptied
  <2>2. CASE MutatorsFailed \/ Reopen \/ ReopenFails
    BY <2>2 DEF Emptied, MutatorsFailed, Reopen, ReopenFails
  <2> QED
    BY <2>1, <2>2
<1>6. Caused'
  <2>1. CASE MutatorsFailed
    BY <2>1 DEF Caused, EmptyReadsAlone, MutatorsFailed
  <2>2. CASE Reopen
    <3>1. ~invalid
      BY <2>2 DEF Caused, Reopen
    <3> QED
      BY <2>2, <3>1 DEF Caused, EmptyReadsAlone, Reopen
  <2>3. CASE ReopenFails
    BY <2>3 DEF Caused, EmptyReadsAlone, ReopenFails
  <2>4. CASE Judge
    <3>1. place' = "rejected" => invalid /\ ~errs
      BY <2>4 DEF Judge
    <3> QED
      BY <2>4, <3>1 DEF Caused, EmptyReadsAlone, Judge
  <2> QED
    BY <2>1, <2>2, <2>3, <2>4
<1> QED
  BY <1>2, <1>3, <1>4, <1>5, <1>6

LEMMA ValidatorKeeps ==
  ASSUME IInv, EmptyFile \/ EmptyFileFails \/ Delay \/ Custom \/ CustomFails
  PROVE  IInv'
<1> USE DEF IInv, flowVars, readerVars
<1>1. /\ Len(validators) \in Nat /\ Len(file) \in Nat /\ at \in Nat \ {0}
      /\ DOMAIN validators = 1 .. Len(validators)
  BY LenProperties DEF Shape
<1>2. PICK v \in Validators :
        /\ place = "validate" /\ at <= Len(validators) /\ validators[at] = v /\ at' = at + 1
        /\ UNCHANGED <<flowVars, file, readerVars, cut>>
        /\ v = "empty" => EmptyFile \/ EmptyFileFails
        /\ v # "empty" => Delay \/ Custom \/ CustomFails
  BY DEF Validators, EmptyFile, EmptyFileFails, Delay, Custom, CustomFails, Validating
<1>3. /\ offset' \in 0 .. Len(file) /\ invalid' \in BOOLEAN /\ errs' \in BOOLEAN
      /\ place' \in {"validate", "panicked"} /\ (invalid => invalid') /\ (errs => errs')
  <2>1. offset \in 0 .. Len(file) /\ invalid \in BOOLEAN /\ errs \in BOOLEAN
    BY DEF Shape
  <2>2. CASE EmptyFile
    <3>1. offset' \in 0 .. Len(file)
      BY <1>1, <2>1, <2>2 DEF EmptyFile
    <3>2. (invalid' = TRUE \/ invalid' = invalid) /\ errs' = errs /\ place' = place
      BY <2>2 DEF EmptyFile
    <3> QED
      BY <1>2, <2>1, <3>1, <3>2
  <2>3. CASE EmptyFileFails
    BY <1>2, <2>1, <2>3 DEF EmptyFileFails
  <2>4. CASE Delay \/ Custom \/ CustomFails
    <3>1. offset' = offset \/ offset' \in offset .. Len(file)
      BY <2>4 DEF Delay, Custom, CustomFails
    <3>2. (invalid' = TRUE \/ invalid' = invalid) /\ (errs' = TRUE \/ errs' = errs)
      BY <2>4 DEF Delay, Custom, CustomFails
    <3>3. place' = place \/ place' = "panicked"
      BY <2>4 DEF Delay, Custom, CustomFails
    <3>4. offset' \in 0 .. Len(file)
      BY <1>1, <2>1, <3>1
    <3>5. invalid \in BOOLEAN /\ errs \in BOOLEAN
      BY <2>1
    <3>6. invalid' \in BOOLEAN /\ (invalid => invalid')
      BY <3>2, <3>5
    <3>7. errs' \in BOOLEAN /\ (errs => errs')
      BY <3>2, <3>5
    <3>8. place' \in {"validate", "panicked"}
      BY <1>2, <3>3
    <3> QED
      BY <3>4, <3>6, <3>7, <3>8
  <2> QED
    BY <2>2, <2>3, <2>4
<1>4. Shape'
  <2>1. {live', errs', invalid'} \subseteq BOOLEAN
    BY <1>2, <1>3 DEF Shape
  <2> QED
    BY <1>1, <1>2, <1>3, <2>1 DEF Shape, Places, Verdicts
<1>5. Progress' /\ TemplatesOK'
  BY <1>1, <1>2, <1>3 DEF Progress, TemplatesOK
<1>6. Emptied'
  <2>1. ASSUME NEW i \in 1 .. at, validators[i] = "empty" PROVE invalid' \/ file # <<>>
    <3>1. CASE i = at
      <4>1. CASE EmptyFile
        <5>1. offset = Len(file) => invalid'
          BY <4>1 DEF EmptyFile
        <5>2. offset # Len(file) => file # <<>>
          BY <1>1, EmptySeq DEF Shape
        <5> QED
          BY <5>1, <5>2
      <4>2. CASE EmptyFileFails
        BY <4>2 DEF EmptyFileFails
      <4> QED
        BY <1>2, <2>1, <3>1, <4>1, <4>2
    <3>2. CASE i # at
      BY <1>1, <1>2, <1>3, <2>1, <3>2 DEF Emptied
    <3> QED
      BY <3>1, <3>2
  <2> QED
    BY <1>1, <1>2, <1>3, <2>1 DEF Emptied
<1>7. Caused'
  <2>1. ASSUME NEW i \in DOMAIN validators, EmptyReadsAlone(i)
        PROVE  /\ at + 1 <= i => offset' = 0 /\ ~invalid'
               /\ invalid' => file = <<>> \/ errs'
    <3>1. v = IF at = i THEN "empty" ELSE "delay"
      BY <1>1, <1>2, <2>1 DEF EmptyReadsAlone
    <3>2. CASE at # i
      <4>1. Delay
        BY <1>1, <1>2, <3>1, <3>2 DEF Custom, CustomFails, Validating
      <4>2. offset' = offset /\ invalid' = invalid /\ errs' = errs
        BY <4>1 DEF Delay
      <4> QED
        BY <1>1, <1>2, <2>1, <4>2 DEF Caused
    <3>3. CASE at = i
      <4>1. offset = 0 /\ ~invalid
        BY <1>1, <1>2, <2>1, <3>3 DEF Caused
      <4>2. CASE EmptyFile
        <5>1. invalid' => Len(file) = 0
          BY <4>1, <4>2 DEF EmptyFile
        <5> QED
          BY <1>1, <3>3, <5>1, EmptySeq DEF Shape
      <4>3. CASE EmptyFileFails
        BY <1>1, <3>3, <4>3 DEF EmptyFileFails
      <4> QED
        BY <1>2, <3>1, <3>3, <4>2, <4>3
    <3> QED
      BY <3>2, <3>3
  <2> QED
    BY <1>1, <1>2, <1>3, <2>1 DEF Caused, EmptyReadsAlone
<1> QED
  BY <1>4, <1>5, <1>6, <1>7

LEMMA IInvStep == IInv /\ [Next]_vars => IInv'
<1> SUFFICES ASSUME IInv, [Next]_vars PROVE IInv'
  OBVIOUS
<1>1. CASE MutatorStep
  BY <1>1, MutatorKeeps
<1>2. CASE Open \/ NoMutators \/ HelmPanics
  BY <1>2, OpenKeeps
<1>3. CASE WriteBack \/ WriteBackFails
  BY <1>3, WriteKeeps
<1>4. CASE MutatorsFailed \/ Reopen \/ ReopenFails \/ Judge
  BY <1>4, BetweenKeeps
<1>5. CASE EmptyFile \/ EmptyFileFails \/ Delay \/ Custom \/ CustomFails
  BY <1>5, ValidatorKeeps
<1>6. CASE UNCHANGED vars
  BY <1>6 DEF vars, flowVars, readerVars, IInv, Shape, Progress, TemplatesOK, Emptied, Caused,
              BeenThere, EmptyReadsAlone, Input
<1> QED
  BY <1>1, <1>2, <1>3, <1>4, <1>5, <1>6 DEF Next, Judged, MutatorStep

LEMMA Invariance == Spec => []IInv
<1>1. Init => IInv
  BY InitIInv
<1>2. IInv /\ [Next]_vars => IInv'
  BY IInvStep
<1> QED
  BY <1>1, <1>2, PTL DEF Spec

(***************************************************************************)
(* What is promised of the whole chain.  The manager copies back what is   *)
(* in memory of the last reader: that is all of it as soon as one mutator  *)
(* reads its input to its end or replaces it.                              *)
(***************************************************************************)
ReadWhole(n) == \E i \in 1 .. n : mutators[i] \notin PartReaders

Handed ==
    /\ place \in {"open", "mutate"} => file = original
    /\ place = "mutate" =>
          /\ Input = Promised(at - 1)
          /\ ReadWhole(at - 1) => Rest = <<>>
    /\ (place \in {"written", "validate", "passed"} /\ "mutate" \notin cut
          /\ mutators \notin Seq(PartReaders))
       => file = Promised(Len(mutators))
    /\ DiskIsExplained

LEMMA PromisedIs ==
  ASSUME Shape
  PROVE  /\ Promised(0) = original
         /\ \A n \in 1 .. Len(mutators) : Promised(n) = Mutated(Promised(n - 1), mutators[n])
  BY MutationsAre DEF Shape, Promised

LEMMA PrefixOfConcat ==
  ASSUME NEW S, NEW s \in Seq(S), NEW t \in Seq(S), NEW n \in 0 .. Len(s)
  PROVE  IsPrefix(SubSeq(s, 1, n), s \o t)
<1> DEFINE p == SubSeq(s, 1, n)
           u == s \o t
<1>1. /\ Len(s) \in Nat /\ Len(t) \in Nat /\ Len(u) = Len(s) + Len(t) /\ u \in Seq(S)
      /\ \A i \in 1 .. Len(s) : u[i] = s[i] /\ s[i] \in S
      /\ \A i \in 1 .. Len(u) : u[i] \in S
  BY ConcatProperties, LenProperties, ElementOfSeq
<1>2. p \in Seq(S) /\ Len(p) = n /\ \A i \in 1 .. n : p[i] = s[i]
  BY <1>1, SubSeqProperties
<1>3. SubSeq(u, 1, n) \in Seq(S) /\ Len(SubSeq(u, 1, n)) = n
      /\ \A i \in 1 .. n : SubSeq(u, 1, n)[i] = u[i]
  BY <1>1, SubSeqProperties
<1>4. SubSeq(u, 1, n) = p
  BY <1>1, <1>2, <1>3, SeqEqual
<1>5. SubSeq(p, 1, n) = p
  BY <1>2, SubSeqFull
<1>6. n <= Len(u)
  BY <1>1
<1> HIDE DEF p, u
<1> QED
  BY <1>2, <1>4, <1>5, <1>6 DEF IsPrefix, p, u

\* Those that read their input to its end leave nothing in the file, and none reads from
\* the file when nothing is left.
LEMMA RestGoes ==
  ASSUME Shape, MutatorStep, mutators[at] \notin PartReaders \/ Rest = <<>>
  PROVE  Rest' = <<>>
<1>1. /\ file \in Seq(Tokens) /\ buf \in Seq(Tokens) /\ offset \in 0 .. Len(file)
      /\ Len(file) \in Nat /\ Len(buf) \in Nat
  BY LenProperties DEF Shape
<1>2. /\ Len(Input) = Len(buf) + Len(Rest) /\ Len(<<>>) = 0
      /\ Len(Rest) = IF live THEN Len(file) - offset ELSE 0
  BY Reading, EmptySeq
<1>3. file' = file
  BY EachRuns DEF Ran
<1>4. ASSUME NEW n \in 0 .. Len(Input), HandOn(n), n = Len(Input) \/ Rest = <<>>
      PROVE  Rest' = <<>>
  <2>1. live' = live /\ offset' = offset + FromFile(n)
    BY <1>4 DEF HandOn
  <2>2. CASE live
    <3>1. offset + FromFile(n) = Len(file)
      BY <1>1, <1>2, <1>4, <2>2 DEF FromFile
    <3>2. SubSeq(file, Len(file) + 1, Len(file)) = <<>>
      BY <1>1, SubSeqEmpty
    <3> QED
      BY <1>3, <2>1, <2>2, <3>1, <3>2 DEF Rest
  <2>3. CASE ~live
    BY <2>1, <2>3 DEF Rest
  <2> QED
    BY <2>2, <2>3
<1>5. ASSUME NEW text, Replace(text) PROVE Rest' = <<>>
  BY <1>5 DEF Replace, Rest
<1>6. Len(Input) \in 0 .. Len(Input)
  BY <1>1, <1>2
<1>7. CASE HelmPasses
  <2>1. PICK n \in Decoded : HandOn(n)
    BY <1>7 DEF HelmPasses
  <2>2. n \in 0 .. Len(Input)
    BY <1>6 DEF Decoded
  <2>3. Rest = <<>>
    BY <1>7 DEF HelmPasses, Mutating, PartReaders
  <2> QED
    BY <1>4, <2>1, <2>2, <2>3
<1>8. CASE HelmConverts
  BY <1>5, <1>8 DEF HelmConverts
<1>9. CASE Mustache \/ NewLineEOF
  BY <1>4, <1>5, <1>6, <1>9 DEF Mustache, NewLineEOF, WritesOrPasses
<1>10. CASE StaysSilent \/ MutatorFails
  <2>1. PICK n \in 0 .. Len(Input) : HandOn(n)
    BY <1>10 DEF StaysSilent, MutatorFails
  <2>2. Rest = <<>>
    BY <1>10 DEF StaysSilent, MutatorFails, Mutating, PartReaders
  <2> QED
    BY <1>4, <2>1, <2>2
<1> QED
  BY <1>7, <1>8, <1>9, <1>10 DEF MutatorStep

LEMMA HandedStep == IInv /\ Handed /\ [Next]_vars => Handed'
<1> SUFFICES ASSUME IInv, Handed, [Next]_vars PROVE Handed'
  OBVIOUS
<1>1. Shape /\ Progress
  BY DEF IInv
<1>2. /\ Len(mutators) \in Nat /\ DOMAIN mutators = 1 .. Len(mutators) /\ at \in Nat \ {0}
      /\ \A i \in 1 .. Len(mutators) : mutators[i] \in Mutators
  BY <1>1, LenProperties, ElementOfSeq DEF Shape
<1>3. ASSUME flowVars' = flowVars, file' = file, cut' = cut,
             place' \in {"mutate", "written", "validate", "passed"} => place' = place,
             place' = "open" => place = "open", place' # "mutate"
      PROVE  Handed'
  BY <1>3 DEF Handed, DiskIsExplained, Promised, flowVars
<1>4. CASE MutatorStep
  <2>1. Ran
    BY <1>1, <1>4, EachRuns
  <2>2. Input' = Promised(at)
    BY <1>1, <1>2, <2>1, PromisedIs DEF Ran, Handed
  <2>3. ReadWhole(at) => Rest' = <<>>
    <3>1. ASSUME ReadWhole(at - 1) PROVE Rest = <<>>
      BY <2>1, <3>1 DEF Handed, Ran
    <3>2. ASSUME ReadWhole(at) PROVE mutators[at] \notin PartReaders \/ ReadWhole(at - 1)
      BY <1>2, <3>2 DEF ReadWhole
    <3> QED
      BY <1>1, <1>4, <3>1, <3>2, RestGoes
  <2>4. /\ at' - 1 = at /\ original' = original /\ mutators' = mutators
        /\ place' = place /\ file' = file /\ cut' = cut /\ place = "mutate"
    BY <1>2, <2>1 DEF Ran, flowVars
  <2>5. Input' = Promised(at - 1)'
    BY <2>2, <2>4 DEF Promised
  <2>6. ReadWhole(at - 1)' => Rest' = <<>>
    BY <2>3, <2>4 DEF ReadWhole
  <2>7. DiskIsExplained'
    BY <2>4 DEF Handed, DiskIsExplained, Promised
  <2> QED
    BY <2>4, <2>5, <2>6, <2>7 DEF Handed
<1>5. CASE Open
  <2>1. /\ flowVars' = flowVars /\ file' = file /\ file = original /\ buf' = <<>>
        /\ offset' = 0 /\ at' = 1
        /\ place' = "mutate" => live' = TRUE
        /\ place' # "mutate" => place' = "written" /\ "mutate" \in cut'
    BY <1>1, <1>5 DEF Open, Progress
  <2>2. CASE place' = "mutate"
    <3>1. Input' = <<>> \o SubSeq(file, 1, Len(file))
      BY <2>1, <2>2 DEF Input
    <3>2. Input' = original
      BY <1>1, <2>1, <3>1, SubSeqFull, ConcatEmptySeq DEF Shape
    <3>3. Promised(0) = original
      BY <1>1, PromisedIs
    <3>4. ~ReadWhole(at - 1)'
      BY <2>1 DEF ReadWhole
    <3>5. Promised(at - 1)' = Promised(0)
      BY <2>1 DEF Promised, flowVars
    <3> QED
      BY <2>1, <2>2, <3>2, <3>3, <3>4, <3>5 DEF Handed, DiskIsExplained, flowVars
  <2>3. CASE place' # "mutate"
    BY <2>1, <2>3 DEF Handed, DiskIsExplained, flowVars
  <2> QED
    BY <2>2, <2>3
<1>6. CASE NoMutators
  <2>1. mutators' \in Seq(PartReaders)
    BY <1>6, EmptySeq DEF NoMutators, flowVars
  <2> QED
    BY <1>1, <1>6, <2>1 DEF NoMutators, Handed, Progress, DiskIsExplained, flowVars
<1>7. CASE WriteBack \/ WriteBackFails
  <2>1. /\ place = "mutate" /\ at > Len(mutators) /\ flowVars' = flowVars /\ place' = "written"
        /\ \/ cut' = cut /\ file' = buf
           \/ cut' = {"mutate"} /\ file' = file
           \/ cut' = {"mutate"} /\ \E n \in 0 .. Len(buf) : file' = SubSeq(buf, 1, n)
    BY <1>7 DEF WriteBack, WriteBackFails, Written
  <2>2. at - 1 = Len(mutators)
    BY <1>1, <1>2, <2>1 DEF Progress
  <2>3. Input = Promised(Len(mutators))
    BY <2>1, <2>2 DEF Handed
  <2>4. buf \in Seq(Tokens) /\ Rest \in Seq(Tokens) /\ Input = buf \o Rest /\ Len(buf) \in Nat
    BY <1>1, Reading, LenProperties DEF Shape
  <2>5. file' = file \/ IsPrefix(file', Promised(Len(mutators)))
    <3>1. \A n \in 0 .. Len(buf) : IsPrefix(SubSeq(buf, 1, n), Input)
      BY <2>4, PrefixOfConcat
    <3>2. buf = SubSeq(buf, 1, Len(buf)) /\ Len(buf) \in 0 .. Len(buf)
      BY <2>4, SubSeqFull
    <3> QED
      BY <2>1, <2>3, <3>1, <3>2
  <2>6. ASSUME "mutate" \notin cut', mutators \notin Seq(PartReaders)
        PROVE  file' = Promised(Len(mutators))
    <3>1. ReadWhole(at - 1)
      <4>1. ASSUME \A i \in 1 .. Len(mutators) : mutators[i] \in PartReaders PROVE FALSE
        <5>1. mutators \in [1 .. Len(mutators) -> PartReaders]
          BY <1>1, <1>2, <4>1, LenProperties DEF Shape
        <5> QED
          BY <1>2, <2>6, <5>1, SeqDef
      <4> QED
        BY <2>2, <4>1 DEF ReadWhole
    <3>2. Input = buf
      BY <2>1, <2>4, <3>1, ConcatEmptySeq DEF Handed
    <3> QED
      BY <2>1, <2>3, <2>6, <3>2
  <2> QED
    BY <2>1, <2>5, <2>6 DEF Handed, DiskIsExplained, Promised, flowVars
<1>8. CASE HelmPanics \/ MutatorsFailed
  BY <1>3, <1>8 DEF HelmPanics, MutatorsFailed
<1>9. CASE Reopen \/ ReopenFails \/ Judge
  BY <1>9 DEF Reopen, ReopenFails, Judge, Handed, DiskIsExplained, Promised, flowVars
<1>10. CASE EmptyFile \/ EmptyFileFails \/ Delay \/ Custom \/ CustomFails
  <2>1. /\ place = "validate" /\ flowVars' = flowVars /\ file' = file /\ cut' = cut
        /\ place' \in {"validate", "panicked"}
    BY <1>10 DEF EmptyFile, EmptyFileFails, Delay, Custom, CustomFails, Validating
  <2> QED
    BY <2>1 DEF Handed, DiskIsExplained, Promised, flowVars
<1>11. CASE UNCHANGED vars
  BY <1>11 DEF vars, flowVars, readerVars, Handed, DiskIsExplained, Promised, Input, Rest, ReadWhole
<1> QED
  BY <1>4, <1>5, <1>6, <1>7, <1>8, <1>9, <1>10, <1>11 DEF Next, Judged, MutatorStep

LEMMA HandedInvariance == Spec => []Handed
<1>1. Init => Handed
  BY DEF Init, Handed, DiskIsExplained
<1>2. IInv /\ Handed /\ [Next]_vars => Handed'
  BY HandedStep
<1> QED
  BY <1>1, <1>2, Invariance, PTL DEF Spec

(***************************************************************************)
(* Theorems.                                                               *)
(***************************************************************************)
HandsOn == place = "mutate" /\ at' = at + 1 => Input' = Mutated(Input, mutators[at])

\* Every mutator hands on what the documentation promises of it: what it wrote in place
\* of what it was handed, or all of that, whatever it read of it, failed or not.
THEOREM EachIsMutated == Spec => [][HandsOn]_vars
<1>1. IInv /\ [Next]_vars => [HandsOn]_vars
  <2> SUFFICES ASSUME IInv, Next, place = "mutate", at' = at + 1
               PROVE  Input' = Mutated(Input, mutators[at])
    BY DEF HandsOn
  <2>1. CASE MutatorStep
    BY <2>1, EachRuns DEF IInv, Ran
  <2>2. CASE ~MutatorStep
    <3>1. at' # at
      BY DEF IInv, Shape
    <3> QED
      BY <2>2, <3>1 DEF Next, MutatorStep, HelmPanics, Open, NoMutators, WriteBack, WriteBackFails,
          MutatorsFailed, Reopen, ReopenFails, Judge, Judged, EmptyFile, EmptyFileFails, Delay,
          Custom, CustomFails, Validating, vars
  <2> QED
    BY <2>1, <2>2
<1> QED
  BY <1>1, Invariance, PTL DEF Spec

\* The variables keep their types: the handle never gets past the end of the file.
THEOREM Types == Spec => []TypeOK
<1>1. IInv => TypeOK
  <2> SUFFICES ASSUME IInv PROVE TypeOK
    OBVIOUS
  <2>1. Len(mutators) \in Nat /\ Len(validators) \in Nat
    BY LenProperties DEF IInv, Shape
  <2>2. /\ Max({Len(mutators), Len(validators)}) \in Nat
        /\ Max({Len(mutators), Len(validators)}) >= Len(mutators)
        /\ Max({Len(mutators), Len(validators)}) >= Len(validators)
    <3>1. \E x \in {Len(mutators), Len(validators)} :
             \A y \in {Len(mutators), Len(validators)} : x >= y
      BY <2>1
    <3> QED
      BY <2>1, <3>1 DEF Max
  <2>3. at \in 1 .. Max({Len(mutators), Len(validators)}) + 1
    BY <2>1, <2>2 DEF IInv, Shape, Progress
  <2>4. {live, errs, invalid} \subseteq BOOLEAN
    BY DEF IInv, Shape
  <2> QED
    BY <2>3, <2>4 DEF IInv, Shape, TypeOK
<1> QED
  BY <1>1, Invariance, PTL

\* With EmptyFile in the flow no empty file gets past the validators.
THEOREM EmptyCaught == Spec => []EmptyIsCaught
<1>1. IInv => EmptyIsCaught
  BY DEF IInv, Emptied, EmptyIsCaught
<1> QED
  BY <1>1, Invariance, PTL

\* EmptyFile refuses only empty files, if no other validator reads before it.
THEOREM RejectedRightly == Spec => []RejectedForCause
<1>1. IInv => RejectedForCause
  BY DEF IInv, Caused, RejectedForCause
<1> QED
  BY <1>1, Invariance, PTL

\* A template passes unrendered only if a malformed one was uploaded beside it, or if it
\* was uploaded in a file that renders to nothing.
THEOREM UnrenderedExplained == Spec => []UnrenderedForCause
<1>1. IInv => UnrenderedForCause
  BY DEF IInv, TemplatesOK, Unrenderable, UnrenderedForCause
<1> QED
  BY <1>1, Invariance, PTL

\* Whatever the mutators before it read, wrote or refused, a mutator is handed the text
\* that the documentation promises of them.
THEOREM ReceivesWhole == Spec => []NextReceivesWhole
<1>1. Handed => NextReceivesWhole
  BY DEF Handed, NextReceivesWhole
<1> QED
  BY <1>1, HandedInvariance, PTL

\* A file that passes is what the documentation promises of its mutators, unless its walk
\* was cut short or no mutator is bound to read its input to the end.
THEOREM PassesMutated == Spec => []PassedIsMutated
<1>1. Handed => PassedIsMutated
  BY DEF Handed, PassedIsMutated
<1> QED
  BY <1>1, HandedInvariance, PTL

\* At any moment, and after any failure, the disk has the upload or the beginning of its
\* mutated text.
THEOREM DiskExplained == Spec => []DiskIsExplained
<1>1. Handed => DiskIsExplained
  BY DEF Handed
<1> QED
  BY <1>1, HandedInvariance, PTL
=============================================================================
