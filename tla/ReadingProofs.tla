---------------------------- MODULE ReadingProofs ----------------------------
(***************************************************************************)
(* What read_config makes of legible files, whatever is in them, is what   *)
(* they say (ConfigText), and it rejects them exactly if a line is wrong.  *)
(*                                                                         *)
(* The invariant is Follows or Rejects (ConfigReading).  Follows: the      *)
(* entries of the files are those that have been read and those left to    *)
(* the readers on the stack.  A step reads a line: peek_token finds the    *)
(* line that is the next in ConfigText (PeekLine) and the words of it one  *)
(* by one (NextWord), so the value that is read is the one of the entry    *)
(* (the lemmas ...Read), which is the first of what was left (UnreadMoves) *)
(* and comes to what the settings mean (MeansStep).  One lemma for each    *)
(* action (...Follows) puts these together.                                *)
(*                                                                         *)
(* At a line that is wrong, the entry that is the first of what is left is *)
(* wrong too (BlockedIs), and a step fails, or what it reads ends inside   *)
(* the line (...Dooms), where no section, include or end is found: the     *)
(* section ends there, and the file is rejected (DoomedStep).              *)
(***************************************************************************)
EXTENDS ConfigProofs

-----------------------------------------------------------------------------
(* The recursive definitions of ConfigText.                                *)

\* The words from a place: the equations of the recursion.
WordsOf(text, words) ==
  /\ words \in [1 .. Len(text) + 1 -> Seq(Range(text))]
  /\ words[Len(text) + 1] = <<>>
  /\ \A p \in 1 .. Len(text) :
       words[p] = IF text[p] \in {"nl", "#"} THEN <<>>
                  ELSE IF text[p] = "ws" THEN words[p + 1]
                  ELSE <<text[p]>> \o words[p + 1]

\* Words is a solution of them, as the recursion goes forward in the text.
LEMMA WordsAre ==
  ASSUME NEW text, IsText(text)
  PROVE  WordsOf(text, Words(text))
<1> DEFINE n == Len(text)
           V == Seq(Range(text))
           op == [x \in (1 .. n) \X V |->
                    IF text[x[1]] \in {"nl", "#"} THEN <<>>
                    ELSE IF text[x[1]] = "ws" THEN x[2]
                    ELSE <<text[x[1]]>> \o x[2]]
           Is(f) == f = [p \in 1 .. n + 1 |->
                           IF p > n \/ text[p] \in {"nl", "#"} THEN <<>>
                           ELSE IF text[p] = "ws" THEN f[p + 1]
                           ELSE <<text[p]>> \o f[p + 1]]
<1>1. n \in Nat /\ DOMAIN text = 1 .. n
  BY TextIs
<1>2. \A p \in 1 .. n : text[p] \in Range(text)
  BY <1>1 DEF Range
<1>3. op \in [(1 .. n) \X V -> V] /\ <<>> \in V
  <2>1. ASSUME NEW p \in 1 .. n, NEW v \in V PROVE <<text[p]>> \o v \in V
    <3>1. <<text[p]>> \in V
      BY <1>2
    <3>2. QED
      BY <3>1, ConcatProperties
  <2>2. <<>> \in V
    OBVIOUS
  <2> HIDE DEF V
  <2>3. QED
    BY <2>1, <2>2
<1>4. \A p \in 1 .. n, v \in V :
        op[<<p, v>>] = IF text[p] \in {"nl", "#"} THEN <<>>
                       ELSE IF text[p] = "ws" THEN v ELSE <<text[p]>> \o v
  OBVIOUS
<1>5. PICK f : DescendsTo(V, <<>>, n, op, f)
  <2> HIDE DEF op, V, n
  <2>1. Steps(V, <<>>, n, op)
    BY <1>1, <1>3 DEF Steps
  <2>2. QED
    BY <2>1, Downwards
<1> HIDE DEF op
<1>6. /\ f \in [1 .. n + 1 -> V] /\ f[n + 1] = <<>>
      /\ \A p \in 1 .. n : f[p] = op[<<p, f[p + 1]>>]
  BY <1>5 DEF DescendsTo
<1>7. \A p \in 1 .. n : p + 1 \in 1 .. n + 1 /\ p \in 1 .. n + 1 /\ ~(p > n)
  BY <1>1
<1>8. \A p \in 1 .. n :
        f[p] = IF text[p] \in {"nl", "#"} THEN <<>>
               ELSE IF text[p] = "ws" THEN f[p + 1] ELSE <<text[p]>> \o f[p + 1]
  <2> HIDE DEF V
  <2>1. QED
    BY <1>4, <1>6, <1>7
<1>9. Is(f)
  <2> HIDE DEF V
  <2>1. \A p \in 1 .. n + 1 : p > n <=> p = n + 1
    BY <1>1
  <2>2. \A p \in 1 .. n + 1 :
          f[p] = IF p > n \/ text[p] \in {"nl", "#"} THEN <<>>
                 ELSE IF text[p] = "ws" THEN f[p + 1]
                 ELSE <<text[p]>> \o f[p + 1]
    <3>1. SUFFICES ASSUME NEW p \in 1 .. n + 1
                   PROVE  f[p] = IF p > n \/ text[p] \in {"nl", "#"} THEN <<>>
                                 ELSE IF text[p] = "ws" THEN f[p + 1]
                                 ELSE <<text[p]>> \o f[p + 1]
      OBVIOUS
    <3>2. CASE p > n
      BY <1>6, <2>1, <3>2
    <3>3. CASE ~(p > n)
      <4>1. p \in 1 .. n
        BY <1>1, <3>3
      <4>2. QED
        BY <1>8, <3>3, <4>1
    <3>4. QED
      BY <3>2, <3>3
  <2>3. QED
    BY <1>6, <2>2
<1>10. Words(text) = CHOOSE g : Is(g)
  BY DEF Words
<1>11. ASSUME NEW g, Is(g) PROVE WordsOf(text, g)
  <2>1. /\ DOMAIN g = 1 .. n + 1 /\ g[n + 1] = <<>>
        /\ \A p \in 1 .. n :
             g[p] = IF text[p] \in {"nl", "#"} THEN <<>>
                    ELSE IF text[p] = "ws" THEN g[p + 1]
                    ELSE <<text[p]>> \o g[p + 1]
    <3>1. DOMAIN g = 1 .. n + 1
      BY <1>11
    <3>2. \A p \in 1 .. n + 1 :
            g[p] = IF p > n \/ text[p] \in {"nl", "#"} THEN <<>>
                   ELSE IF text[p] = "ws" THEN g[p + 1]
                   ELSE <<text[p]>> \o g[p + 1]
      BY <1>11
    <3>3. n + 1 \in 1 .. n + 1 /\ n + 1 > n
      BY <1>1
    <3> HIDE DEF Is
    <3>4. g[n + 1] = <<>>
      BY <3>2, <3>3
    <3>5. QED
      BY <1>7, <3>1, <3>2, <3>4
  <2> DEFINE T == {p \in 1 .. n + 1 : g[p] \in V}
  <2> HIDE DEF V
  <2>2. n + 1 \in T
    BY <1>1, <1>3, <2>1
  <2>3. ASSUME NEW p \in 1 .. n, p + 1 \in T PROVE p \in T
    <3>1. <<text[p]>> \o g[p + 1] \in V
      <4>1. <<text[p]>> \in V
        BY <1>2 DEF V
      <4>2. QED
        BY <2>3, <4>1, ConcatProperties DEF V
    <3>2. QED
      BY <1>3, <1>7, <2>1, <2>3, <3>1
  <2>4. 1 .. n + 1 \subseteq T
    <3> HIDE DEF T
    <3>1. QED
      BY <1>1, <2>2, <2>3, FromTheEnd
  <2>5. g \in [1 .. n + 1 -> V]
    <3>1. g = [p \in 1 .. n + 1 |-> g[p]]
      BY <1>11
    <3>2. QED
      BY <2>4, <3>1
  <2>6. QED
    BY <2>1, <2>5 DEF WordsOf, V
<1>12. QED
  <2> HIDE DEF Is
  <2>1. Is(Words(text))
    BY <1>9, <1>10
  <2>2. QED
    BY <1>11, <2>1

\* A line with words begins at p.
StartAt(text, p) == p \in Starts(text)

\* The entries from a place: the equations of the recursion.
EntriesOf(contents, text, S, after) ==
  /\ after \in [1 .. Len(text) + 1 -> Seq(S)]
  /\ after[Len(text) + 1] = <<>>
  /\ \A p \in 1 .. Len(text) :
       after[p] = IF ~StartAt(text, p) THEN after[p + 1]
                  ELSE Expansion(contents, EntryAt(text, p)) \o after[p + 1]

\* The entries of a text are in S.
HasEntries(text, S) == Wrong \in S /\ \A p \in Starts(text) : EntryAt(text, p) \in S

\* The contents of what a text includes.
Supplies(contents, F, text, S) ==
  /\ DOMAIN contents = F
  /\ \A f \in F : f \in IncludedBy(text) => contents[f] \in Seq(S)

\* What an entry stands for are entries.
LEMMA ExpansionIs ==
  ASSUME NEW text, NEW S, HasEntries(text, S), NEW p, StartAt(text, p),
         NEW F, NEW contents, Supplies(contents, F, text, S)
  PROVE  Expansion(contents, EntryAt(text, p)) \in Seq(S)
<1> DEFINE e == EntryAt(text, p)
<1>1. e \in S /\ Wrong \in S
  BY DEF HasEntries, StartAt
<1>2. e.key = "include" => e.value \in IncludedBy(text)
  BY DEF IncludedBy, StartAt
<1> HIDE DEF e
<1>3. <<e>> \in Seq(S) /\ <<Wrong>> \in Seq(S)
  BY <1>1
<1>4. Expansion(contents, e) \in Seq(S)
  BY <1>2, <1>3 DEF Expansion, Supplies
<1>5. QED
  BY <1>4 DEF e

\* EntriesFrom is a solution of the equations.
LEMMA EntriesAre ==
  ASSUME NEW text, IsText(text), NEW S, HasEntries(text, S),
         NEW F, NEW contents, Supplies(contents, F, text, S)
  PROVE  EntriesOf(contents, text, S, EntriesFrom(contents, text))
<1> DEFINE n == Len(text)
           V == Seq(S)
           At1(p) == Expansion(contents, EntryAt(text, p))
           op == [x \in (1 .. n) \X V |->
                    IF ~StartAt(text, x[1]) THEN x[2] ELSE At1(x[1]) \o x[2]]
           Is(f) == f = [p \in 1 .. n + 1 |->
                           IF p > n THEN <<>>
                           ELSE IF p \notin Starts(text) THEN f[p + 1]
                           ELSE At1(p) \o f[p + 1]]
<1>1. n \in Nat
  BY TextIs
<1>2. <<>> \in V /\ \A p \in 1 .. n : StartAt(text, p) => At1(p) \in V
  BY ExpansionIs
<1>3. \A p \in 1 .. n, v \in V : StartAt(text, p) => At1(p) \o v \in V
  BY <1>2, ConcatProperties
<1>4. \A p \in 1 .. n, v \in V :
        op[<<p, v>>] = IF ~StartAt(text, p) THEN v ELSE At1(p) \o v
  <2> HIDE DEF At1, V
  <2>1. QED
    OBVIOUS
<1> HIDE DEF V
<1>5. op \in [(1 .. n) \X V -> V]
  <2> HIDE DEF At1
  <2>1. QED
    BY <1>3
<1>6. PICK f : DescendsTo(V, <<>>, n, op, f)
  <2> HIDE DEF op, V, n
  <2>1. Steps(V, <<>>, n, op)
    BY <1>1, <1>2, <1>5 DEF Steps
  <2>2. QED
    BY <2>1, Downwards
<1> HIDE DEF op, At1
<1>7. /\ f \in [1 .. n + 1 -> V] /\ f[n + 1] = <<>>
      /\ \A p \in 1 .. n : f[p] = op[<<p, f[p + 1]>>]
  BY <1>6 DEF DescendsTo
<1>8. \A p \in 1 .. n : p + 1 \in 1 .. n + 1 /\ p \in 1 .. n + 1 /\ ~(p > n)
  BY <1>1
<1>9. \A p \in 1 .. n :
        f[p] = IF ~StartAt(text, p) THEN f[p + 1] ELSE At1(p) \o f[p + 1]
  BY <1>4, <1>7, <1>8
<1>10. Is(f)
  <2>1. \A p \in 1 .. n + 1 : p > n <=> p = n + 1
    BY <1>1
  <2>2. ASSUME NEW p \in 1 .. n + 1
        PROVE  f[p] = IF p > n THEN <<>>
                      ELSE IF p \notin Starts(text) THEN f[p + 1]
                      ELSE At1(p) \o f[p + 1]
    <3>2. CASE p > n
      BY <1>7, <2>1, <3>2
    <3>3. CASE ~(p > n)
      <4>1. p \in 1 .. n
        BY <1>1, <3>3
      <4>2. QED
        BY <1>9, <3>3, <4>1 DEF StartAt
    <3>4. QED
      BY <3>2, <3>3
  <2>3. QED
    BY <1>7, <2>2
<1>11. EntriesFrom(contents, text) = CHOOSE g : Is(g)
  BY DEF EntriesFrom, At1
<1>12. ASSUME NEW g, Is(g) PROVE EntriesOf(contents, text, S, g)
  <2>0. DOMAIN g = 1 .. n + 1
    BY <1>12
  <2>1. \A p \in 1 .. n + 1 :
          g[p] = IF p > n THEN <<>>
                 ELSE IF p \notin Starts(text) THEN g[p + 1]
                 ELSE At1(p) \o g[p + 1]
    BY <1>12
  <2>2. n + 1 \in 1 .. n + 1 /\ n + 1 > n
    BY <1>1
  <2>3. g[n + 1] = <<>>
    <3> HIDE DEF Is
    <3>1. QED
      BY <2>1, <2>2
  <2>4. \A p \in 1 .. n :
          g[p] = IF ~StartAt(text, p) THEN g[p + 1] ELSE At1(p) \o g[p + 1]
    <3> HIDE DEF Is
    <3>1. QED
      BY <1>8, <2>1 DEF StartAt
  <2> DEFINE T == {p \in 1 .. n + 1 : g[p] \in V}
  <2>5. n + 1 \in T
    BY <1>2, <2>2, <2>3
  <2>6. ASSUME NEW p \in 1 .. n, p + 1 \in T PROVE p \in T
    <3>1. StartAt(text, p) => At1(p) \o g[p + 1] \in V
      BY <1>3, <2>6
    <3>2. QED
      BY <1>8, <2>4, <2>6, <3>1
  <2>7. 1 .. n + 1 \subseteq T
    <3> HIDE DEF T
    <3>1. QED
      BY <1>1, <2>5, <2>6, FromTheEnd
  <2>8. g \in [1 .. n + 1 -> V]
    <3>1. g = [p \in 1 .. n + 1 |-> g[p]]
      BY <1>12
    <3>2. QED
      BY <2>7, <3>1
  <2>9. QED
    BY <2>3, <2>4, <2>8 DEF EntriesOf, V, At1
<1>13. QED
  <2> HIDE DEF Is
  <2>1. Is(EntriesFrom(contents, text))
    BY <1>10, <1>11
  <2>2. QED
    BY <1>12, <2>1

\* They depend on the contents of the files that are included.
LEMMA EntriesDepend ==
  ASSUME NEW text, IsText(text), NEW S, HasEntries(text, S),
         NEW F, NEW g, Supplies(g, F, text, S), NEW h, Supplies(h, F, text, S),
         \A f \in F : f \in IncludedBy(text) => g[f] = h[f]
  PROVE  EntriesFrom(g, text)[1] = EntriesFrom(h, text)[1]
<1> DEFINE n == Len(text)
           a == EntriesFrom(g, text)
           b == EntriesFrom(h, text)
           T == {p \in 1 .. n + 1 : a[p] = b[p]}
<1>1. n \in Nat
  BY TextIs
<1>2. EntriesOf(g, text, S, a) /\ EntriesOf(h, text, S, b)
  BY EntriesAre
<1> HIDE DEF a, b
<1>3. n + 1 \in T
  BY <1>1, <1>2 DEF EntriesOf
<1>4. ASSUME NEW p \in 1 .. n, StartAt(text, p)
      PROVE  Expansion(g, EntryAt(text, p)) = Expansion(h, EntryAt(text, p))
  <2> DEFINE e == EntryAt(text, p)
  <2>1. e.key = "include" => e.value \in IncludedBy(text)
    BY <1>4 DEF IncludedBy, StartAt
  <2>2. DOMAIN g = F /\ DOMAIN h = F
    BY DEF Supplies
  <2> HIDE DEF e
  <2>3. Expansion(g, e) = Expansion(h, e)
    BY <2>1, <2>2 DEF Expansion
  <2>4. QED
    BY <2>3 DEF e
<1>5. ASSUME NEW p \in 1 .. n, p + 1 \in T PROVE p \in T
  BY <1>1, <1>2, <1>4, <1>5 DEF EntriesOf
<1>6. 1 .. n + 1 \subseteq T
  <2> HIDE DEF T, n
  <2>1. QED
    BY <1>1, <1>3, <1>5, FromTheEnd
<1>7. 1 \in 1 .. n + 1
  BY <1>1
<1>8. QED
  BY <1>6, <1>7 DEF a, b

\* A finite relation without cycles goes down a rank.
RankOf(X, R, n, rank) ==
  /\ rank \in [X -> 0 .. n]
  /\ \A f, g \in X : <<f, g>> \in R => rank[g] < rank[f]

\* Every finite relation without cycles has a rank: one without a successor
\* is put below the others, which have one by induction.
LEMMA Ranks ==
  ASSUME NEW D, IsFiniteSet(D), NEW R,
         \A some \in SUBSET D :
           some # {} => \E f \in some : \A g \in some : <<f, g>> \notin R
  PROVE  \E n \in Nat : \E rank : RankOf(D, R, n, rank)
<1> DEFINE Good(n) == \A X \in SUBSET D :
                        Cardinality(X) = n => \E rank : RankOf(X, R, n, rank)
           T == {n \in Nat : Good(n)}
<1>1. \A X \in SUBSET D : IsFiniteSet(X) /\ Cardinality(X) \in Nat
  BY FS_Subset, FS_CardinalityType
<1>2. 0 \in T
  <2>1. ASSUME NEW X \in SUBSET D, Cardinality(X) = 0
        PROVE  \E rank : RankOf(X, R, 0, rank)
    <3>1. X = {}
      BY <1>1, <2>1, FS_EmptySet
    <3>2. RankOf(X, R, 0, [x \in {} |-> 0])
      BY <3>1 DEF RankOf
    <3>3. QED
      BY <3>2
  <2>2. QED
    BY <2>1
<1>3. ASSUME NEW n \in Nat, n \in T PROVE n + 1 \in T
  <2>1. ASSUME NEW X \in SUBSET D, Cardinality(X) = n + 1
        PROVE  \E rank : RankOf(X, R, n + 1, rank)
    <3>1. X # {}
      BY <2>1, FS_EmptySet
    <3>2. PICK f \in X : \A g \in X : <<f, g>> \notin R
      BY <3>1
    <3> DEFINE Y == X \ {f}
    <3>3. Y \in SUBSET D /\ Cardinality(Y) = n
      <4>1. Cardinality(Y) = Cardinality(X) - 1
        BY <1>1, FS_RemoveElement
      <4>2. QED
        BY <2>1, <4>1
    <3>4. PICK r : RankOf(Y, R, n, r)
      BY <1>3, <3>3
    <3> DEFINE rank == [x \in X |-> IF x = f THEN 0 ELSE r[x] + 1]
    <3>5. r \in [Y -> 0 .. n] /\ \A a, b \in Y : <<a, b>> \in R => r[b] < r[a]
      BY <3>4 DEF RankOf
    <3>6. rank \in [X -> 0 .. n + 1]
      BY <3>5
    <3>7. ASSUME NEW a \in X, NEW b \in X, <<a, b>> \in R
          PROVE  rank[b] < rank[a]
      <4>1. a # f /\ a \in Y /\ rank[a] = r[a] + 1 /\ r[a] \in 0 .. n
        BY <3>2, <3>5, <3>7
      <4>2. CASE b = f
        BY <4>1, <4>2
      <4>3. CASE b # f
        <5>1. b \in Y /\ rank[b] = r[b] + 1 /\ r[b] \in 0 .. n
          BY <3>5, <4>3
        <5>2. r[b] < r[a]
          BY <3>5, <3>7, <4>1, <5>1
        <5> HIDE DEF rank
        <5>3. QED
          BY <4>1, <5>1, <5>2
      <4>4. QED
        BY <4>2, <4>3
    <3> HIDE DEF rank
    <3>8. RankOf(X, R, n + 1, rank)
      BY <3>6, <3>7 DEF RankOf
    <3>9. QED
      BY <3>8
  <2>2. QED
    BY <2>1
<1>4. Nat \subseteq T
  <2> HIDE DEF T
  <2>1. QED
    BY <1>2, <1>3, Induction
<1>5. Cardinality(D) \in T
  BY <1>1, <1>4
<1>6. QED
  BY <1>5

\* All entries of the files of a disk.
AllEntries(files) ==
  {Wrong} \cup UNION {{EntryAt(files[f], p) : p \in Starts(files[f])} :
                        f \in DOMAIN files}

\* Those of a file are among them.
LEMMA EntriesThere ==
  ASSUME NEW files, NEW f \in DOMAIN files
  PROVE  HasEntries(files[f], AllEntries(files))
BY DEF HasEntries, AllEntries

\* The contents of the files: the equations of the recursion.
ContentsOf(files, contents) ==
  /\ contents \in [DOMAIN files -> Seq(AllEntries(files))]
  /\ \A f \in DOMAIN files : contents[f] = EntriesFrom(contents, files[f])[1]

\* Contents is a solution of them, as no file includes itself.
LEMMA ContentsAre ==
  ASSUME NEW files, IsFiniteSet(DOMAIN files), Acyclic(files),
         \A f \in DOMAIN files : IsText(files[f])
  PROVE  ContentsOf(files, Contents(files))
<1> DEFINE D == DOMAIN files
           S == AllEntries(files)
           V == Seq(S)
           R == UNION {{f} \X IncludedBy(files[f]) : f \in DOMAIN files}
           H == [x \in D \X [D -> V] |-> EntriesFrom(x[2], files[x[1]])[1]]
           Is(c) == c = [f \in D |-> EntriesFrom(c, files[f])[1]]
<1>1. \A f \in D : IsText(files[f]) /\ HasEntries(files[f], S)
  BY EntriesThere
<1> HIDE DEF S
<1>x. \A c \in [D -> V] : \A f \in D : Supplies(c, D, files[f], S)
  BY DEF Supplies
<1>2. ASSUME NEW f \in D, NEW c \in [D -> V]
      PROVE  EntriesFrom(c, files[f])[1] \in V
  <2>1. EntriesOf(c, files[f], S, EntriesFrom(c, files[f]))
    BY <1>1, <1>x, EntriesAre
  <2>2. 1 \in 1 .. Len(files[f]) + 1
    BY <1>1, TextIs
  <2>3. QED
    BY <2>1, <2>2 DEF EntriesOf
<1>3. PICK n \in Nat : \E rank : RankOf(D, R, n, rank)
  <2>1. \A some \in SUBSET D :
          some # {} => \E f \in some : \A g \in some : <<f, g>> \notin R
    BY DEF Acyclic
  <2> HIDE DEF R, D
  <2>2. IsFiniteSet(D)
    BY DEF D
  <2>3. QED
    BY <2>1, <2>2, Ranks
<1>4. PICK rank : RankOf(D, R, n, rank)
  BY <1>3
<1>5. \A f, g \in D : g \in IncludedBy(files[f]) => rank[g] < rank[f]
  <2>1. \A f, g \in D : g \in IncludedBy(files[f]) => <<f, g>> \in R
    OBVIOUS
  <2>2. QED
    BY <1>4, <2>1 DEF RankOf
<1> HIDE DEF R, D, V
<1>6. \A x \in D : \A f \in [D -> V] : H[<<x, f>>] = EntriesFrom(f, files[x])[1]
  OBVIOUS
<1>7. Solvable(D, V, H)
  <2>1. V # {}
    <3>1. <<>> \in V
      BY DEF V
    <3>2. QED
      BY <3>1
  <2>2. H \in [D \X [D -> V] -> V]
    BY <1>2
  <2> HIDE DEF H
  <2>3. ASSUME NEW x \in D, NEW f \in [D -> V], NEW g \in [D -> V],
               \A y \in D : rank[y] < rank[x] => f[y] = g[y]
        PROVE  H[<<x, f>>] = H[<<x, g>>]
    <3>1. \A y \in D : y \in IncludedBy(files[x]) => f[y] = g[y]
      BY <1>5, <2>3
    <3>2. EntriesFrom(f, files[x])[1] = EntriesFrom(g, files[x])[1]
      BY <1>1, <1>x, <3>1, EntriesDepend
    <3>3. QED
      BY <1>6, <3>2
  <2>4. rank \in [D -> 0 .. n]
    BY <1>4 DEF RankOf
  <2>5. Descends(D, V, n, rank, H)
    BY <2>1, <2>2, <2>3, <2>4 DEF Descends
  <2>6. QED
    BY <2>5, RecursionDefines
<1> HIDE DEF H
<1>8. PICK c \in [D -> V] : \A f \in D : c[f] = EntriesFrom(c, files[f])[1]
  <2>1. PICK c \in [D -> V] : \A f \in D : c[f] = H[<<f, c>>]
    BY <1>7 DEF Solvable
  <2>2. QED
    BY <1>6, <2>1
<1>9. Is(c)
  BY <1>8
<1>10. Contents(files) = CHOOSE g : Is(g)
  BY DEF Contents, D
<1>11. ASSUME NEW g, Is(g) PROVE g = c
  <2>1. DOMAIN g = D /\ \A f \in D : g[f] = EntriesFrom(g, files[f])[1]
    BY <1>11
  <2> DEFINE T == {k \in Nat : \A f \in D : rank[f] < k => g[f] = c[f]}
  <2>2. 0 \in T
    BY <1>4 DEF RankOf
  <2>3. ASSUME NEW k \in Nat, k \in T PROVE k + 1 \in T
    <3>1. ASSUME NEW f \in D, rank[f] < k + 1 PROVE g[f] = c[f]
      <4>1. \A h \in D : rank[h] < rank[f] => rank[h] < k
        <5>1. \A h \in D : rank[h] \in 0 .. n
          BY <1>4 DEF RankOf
        <5>2. QED
          BY <2>3, <3>1, <5>1
      <4>2. \A h \in D : h \in IncludedBy(files[f]) => g[h] = c[h]
        BY <1>5, <2>3, <4>1
      <4>3. Supplies(c, D, files[f], S)
        BY <1>x
      <4>4. Supplies(g, D, files[f], S)
        BY <2>1, <4>2, <4>3 DEF Supplies
      <4>5. EntriesFrom(g, files[f])[1] = EntriesFrom(c, files[f])[1]
        BY <1>1, <4>2, <4>3, <4>4, EntriesDepend
      <4>6. QED
        BY <1>8, <2>1, <4>5
    <3>2. QED
      BY <3>1
  <2>4. n + 1 \in T
    <3> HIDE DEF T
    <3>1. QED
      BY <2>2, <2>3, Induction
  <2>5. \A f \in D : rank[f] < n + 1
    BY <1>4 DEF RankOf
  <2>6. QED
    BY <1>8, <1>11, <2>1, <2>4, <2>5
<1>12. Contents(files) = c
  <2> HIDE DEF Is
  <2>1. Is(Contents(files))
    BY <1>9, <1>10
  <2>2. QED
    BY <1>11, <2>1
<1>13. QED
  BY <1>8, <1>12 DEF ContentsOf, D, V, S

-----------------------------------------------------------------------------
(* Words.                                                                  *)

\* The layout, place by place.
LEMMA TidyIs ==
  ASSUME NEW text, IsText(text), Tidy(text)
  PROVE  /\ \A i \in 1 .. Len(text) : text[i] # ""
         /\ Len(text) > 0 => text[Len(text)] = "nl"
         /\ \A i \in 1 .. Len(text) : text[i] = "ws" =>
              /\ i + 1 \in 1 .. Len(text) /\ text[i + 1] # "ws"
              /\ text[i + 1] = "nl" => i = 1 \/ text[i - 1] = "nl"
<1>1. Len(text) \in Nat /\ DOMAIN text = 1 .. Len(text)
  BY TextIs
<1>2. \A i \in 1 .. Len(text) : text[i] # ""
  BY <1>1 DEF Tidy, Range
<1>3. Len(text) > 0 => text[Len(text)] = "nl"
  <2>1. Len(text) > 0 => text # <<>>
    OBVIOUS
  <2>2. QED
    BY <2>1 DEF Tidy
<1>4. ASSUME NEW i \in 1 .. Len(text), text[i] = "ws"
      PROVE  i \in 1 .. Len(text) - 1 /\ i + 1 \in 1 .. Len(text)
  BY <1>1, <1>3, <1>4
<1>5. QED
  BY <1>2, <1>3, <1>4 DEF Tidy

\* A line ends at the first line end there is.
LEMMA UptoFirst ==
  ASSUME NEW text, IsText(text), Tidy(text), NEW from \in 1 .. Len(text)
  PROVE  /\ upto(text, from) \in from + 1 .. Len(text) + 1
         /\ text[upto(text, from) - 1] = "nl"
         /\ \A i \in from .. upto(text, from) - 2 : text[i] # "nl"
<1> DEFINE I == {i \in from .. Len(text) : text[i] = "nl"}
           nl == IF I # {} THEN Min(I) ELSE 0
<1>1. Len(text) \in Nat
  BY TextIs
<1>2. upto(text, from) = IF nl = 0 THEN 0 ELSE nl + 1
  BY DEF upto, SelectInSubSeq
<1>3. I # {}
  <2>1. Len(text) > 0 /\ Len(text) \in from .. Len(text)
    BY <1>1
  <2>2. text[Len(text)] = "nl"
    BY <2>1, TidyIs
  <2>3. QED
    BY <2>1, <2>2
<1>4. I \in SUBSET Nat
  BY <1>1
<1> HIDE DEF I
<1>5. \E n \in I : \A m \in I : n <= m
  BY <1>3, <1>4, LeastOf
<1>6. Min(I) \in I /\ \A m \in I : Min(I) <= m
  BY <1>5 DEF Min
<1>7. nl = Min(I) /\ nl \in from .. Len(text) /\ text[nl] = "nl"
  BY <1>3, <1>6 DEF I
<1>8. \A i \in from .. nl - 1 : text[i] # "nl"
  <2>1. ASSUME NEW i \in from .. nl - 1, text[i] = "nl" PROVE FALSE
    <3>1. i \in I
      BY <1>1, <1>7, <2>1 DEF I
    <3>2. nl <= i
      BY <1>6, <1>7, <3>1
    <3>3. QED
      BY <1>1, <1>7, <3>2
  <2>2. QED
    BY <2>1
<1> HIDE DEF nl
<1>9. upto(text, from) = nl + 1
  BY <1>2, <1>7, <1>1
<1>10. QED
  BY <1>1, <1>7, <1>8, <1>9

\* A word at q, after blanks or none, becomes a token.
IsWord(text, q, tok) ==
  tok.type = TypeOf(text[q]) /\ tok.word = text[q] /\ tok.end = q + 1

\* get_string makes of a word what TypeOf says.
LEMMA StringIs ==
  ASSUME NEW text, IsText(text), NEW q \in 1 .. Len(text),
         text[q] # "nl", text[q] \notin Marks
  PROVE  get_string(text, q) = Token(TypeOf(text[q]), text[q], q + 1)
<1>1. ~(q > Len(text))
  BY TextIs
<1>2. CASE text[q] \in Keyword
  BY <1>1, <1>2 DEF get_string, TypeOf
<1>3. CASE text[q] \notin Keyword
  BY <1>1, <1>3 DEF get_string, TypeOf
<1>4. QED
  BY <1>2, <1>3

\* The loop of peek_token ends at a word.
LEMMA TurnAtWord ==
  ASSUME NEW text, IsText(text), NEW p \in 1 .. Len(text), NEW b \in BOOLEAN,
         NEW q \in 1 .. Len(text), q = Swallowed(text, p),
         text[q] \notin {"nl", "ws", "#"}, q = p \/ ~b
  PROVE  \A loop : IsWord(text, q, Turn(text, p, b, loop))
<1> DEFINE end == Len(text) + 1
           at == IF q = end THEN "" ELSE text[q]
           indented == q # p /\ b /\ q # end
           comment == at = "#" /\ ~indented
<1>1. Len(text) \in Nat /\ p # end /\ q # end
  BY TextIs
<1>2. text[p] # "nl"
  BY DEF Swallowed
<1>3. \A loop : Turn(text, p, b, loop) =
        CASE p = end -> Token("END", "", end)
          [] p # end /\ text[p] = "nl" -> loop[<<p + 1, TRUE>>]
          [] indented /\ at \in {"nl", "#"} -> loop[<<q, TRUE>>]
          [] indented /\ at \notin {"nl", "#"} -> Token("INDENT", "", q)
          [] comment /\ upto(text, q) = 0 -> Token("END", "", end)
          [] comment /\ upto(text, q) # 0 -> loop[<<upto(text, q), TRUE>>]
          [] ~indented /\ at \in {"[", "]", "="} -> Token(at, at, q + 1)
          [] OTHER -> get_string(text, q)
  BY DEF Turn
<1>4. ~indented /\ ~comment /\ at = text[q]
  BY <1>1
<1> HIDE DEF indented, comment, at
<1>5. CASE text[q] \in Marks
  <2>1. at \in {"[", "]", "="}
    BY <1>4, <1>5 DEF Marks
  <2>2. \A loop : Turn(text, p, b, loop) = Token(text[q], text[q], q + 1)
    BY <1>1, <1>2, <1>3, <1>4, <2>1
  <2>3. TypeOf(text[q]) = text[q]
    BY <1>5 DEF TypeOf
  <2>4. IsWord(text, q, Token(text[q], text[q], q + 1))
    BY <2>3 DEF IsWord, Token
  <2>5. QED
    BY <2>2, <2>4
<1>6. CASE text[q] \notin Marks
  <2>1. at \notin {"[", "]", "="}
    BY <1>4, <1>6 DEF Marks
  <2>2. \A loop : Turn(text, p, b, loop) = get_string(text, q)
    BY <1>1, <1>2, <1>3, <1>4, <2>1
  <2>3. get_string(text, q) = Token(TypeOf(text[q]), text[q], q + 1)
    BY <1>6, StringIs
  <2>4. IsWord(text, q, Token(TypeOf(text[q]), text[q], q + 1))
    BY DEF IsWord, Token
  <2>5. QED
    BY <2>2, <2>3, <2>4
<1>7. QED
  BY <1>5, <1>6

\* The words from a place are the next one and those behind it.
LEMMA WordsFrom ==
  ASSUME NEW text, IsText(text), Tidy(text), NEW p \in 1 .. Len(text) + 1,
         Words(text)[p] # <<>>
  PROVE  LET q == Swallowed(text, p)
         IN /\ p \in 1 .. Len(text) /\ q \in p .. Len(text)
            /\ q = p \/ (q = p + 1 /\ text[p] = "ws")
            /\ text[q] \notin {"nl", "ws", "#"}
            /\ Words(text)[p] = <<text[q]>> \o Words(text)[q + 1]
            /\ Words(text)[p] = Words(text)[q]
<1> DEFINE W == Words(text)
<1>1. Len(text) \in Nat
  BY TextIs
<1>2. /\ W[Len(text) + 1] = <<>>
      /\ \A i \in 1 .. Len(text) :
           W[i] = IF text[i] \in {"nl", "#"} THEN <<>>
                  ELSE IF text[i] = "ws" THEN W[i + 1]
                  ELSE <<text[i]>> \o W[i + 1]
  BY WordsAre DEF WordsOf
<1> HIDE DEF W
<1>3. W[p] # <<>>
  BY DEF W
<1>4. p \in 1 .. Len(text)
  BY <1>1, <1>2, <1>3
<1>5. CASE text[p] # "ws"
  <2>1. Swallowed(text, p) = p
    BY <1>5 DEF Swallowed
  <2>2. text[p] \notin {"nl", "#"} /\ W[p] = <<text[p]>> \o W[p + 1]
    BY <1>2, <1>3, <1>4, <1>5
  <2>3. QED
    BY <1>1, <1>4, <1>5, <2>1, <2>2 DEF W
<1>6. CASE text[p] = "ws"
  <2>1. Swallowed(text, p) = p + 1
    BY <1>1, <1>4, <1>6 DEF Swallowed
  <2>2. p + 1 \in 1 .. Len(text) /\ text[p + 1] # "ws"
    BY <1>4, <1>6, TidyIs
  <2>3. W[p] = W[p + 1]
    BY <1>2, <1>4, <1>6
  <2>4. /\ text[p + 1] \notin {"nl", "#"}
        /\ W[p + 1] = <<text[p + 1]>> \o W[(p + 1) + 1]
    BY <1>2, <1>3, <2>2, <2>3
  <2>5. QED
    BY <1>1, <1>4, <1>6, <2>1, <2>2, <2>3, <2>4 DEF W
<1>7. QED
  BY <1>5, <1>6

\* In a line, peek_token finds the next word.
LEMMA PeekWord ==
  ASSUME NEW text, IsText(text), Tidy(text), NEW p \in 2 .. Len(text) + 1,
         Words(text)[p] # <<>>
  PROVE  IsWord(text, Swallowed(text, p), peek_token(text, p))
<1> DEFINE q == Swallowed(text, p)
<1>1. Len(text) \in Nat
  BY TextIs
<1>2. p \in 1 .. Len(text) + 1
  BY <1>1
<1>w. /\ p \in 1 .. Len(text) /\ q \in p .. Len(text)
      /\ text[q] \notin {"nl", "ws", "#"}
  BY <1>2, WordsFrom
<1>3. /\ p \in 1 .. Len(text) /\ q \in 1 .. Len(text)
      /\ text[q] \notin {"nl", "ws", "#"}
  <2> HIDE DEF q
  <2>1. QED
    BY <1>1, <1>w
<1>4. PICK loop : LoopOf(text, loop)
  BY LoopIs
<1>5. peek_token(text, p) = loop[<<p, FALSE>>]
  <2>1. (p = 1) = FALSE
    BY <1>1
  <2>2. QED
    BY <1>2, <1>4, <2>1 DEF LoopOf
<1>6. loop[<<p, FALSE>>] = Turn(text, p, FALSE, loop)
  BY <1>2, <1>4 DEF LoopOf
<1>7. IsWord(text, q, Turn(text, p, FALSE, loop))
  <2> HIDE DEF q
  <2>1. q = Swallowed(text, p)
    BY DEF q
  <2>2. QED
    BY <1>3, <2>1, TurnAtWord
<1>8. QED
  BY <1>5, <1>6, <1>7

-----------------------------------------------------------------------------
(* Lines.                                                                  *)

\* The lines with words from a place on, and the first of them.
LEMMA AheadIs ==
  ASSUME NEW text, IsText(text), NEW p \in 1 .. Len(text) + 1
  PROVE  LET A == Ahead(text, p)
         IN /\ A \subseteq p .. Len(text) /\ A \subseteq Starts(text)
            /\ A # {} => Min(A) \in A /\ \A m \in A : Min(A) <= m
<1> DEFINE A == Ahead(text, p)
<1>1. Len(text) \in Nat
  BY TextIs
<1>2. A \subseteq p .. Len(text) /\ A \subseteq Starts(text)
  BY <1>1 DEF Ahead, Starts
<1>3. ASSUME A # {} PROVE Min(A) \in A /\ \A m \in A : Min(A) <= m
  <2>1. A \in SUBSET Nat
    BY <1>1, <1>2
  <2> HIDE DEF A
  <2>2. \E n \in A : \A m \in A : n <= m
    BY <1>3, <2>1, LeastOf
  <2>3. QED
    BY <2>2 DEF Min
<1>4. QED
  BY <1>2, <1>3

\* They are the same from a place further on if no line begins between.
LEMMA AheadSkips ==
  ASSUME NEW text, IsText(text), NEW p \in 1 .. Len(text) + 1,
         NEW q \in p .. Len(text) + 1,
         \A i \in p .. q - 1 : i \notin Starts(text)
  PROVE  Ahead(text, p) = Ahead(text, q)
<1>1. Len(text) \in Nat /\ Starts(text) \subseteq 1 .. Len(text)
  BY TextIs DEF Starts
<1>2. \A i \in Starts(text) : i >= p <=> i >= q
  BY <1>1
<1>3. QED
  BY <1>2 DEF Ahead

\* The first one from the beginning of a line on is that line.
LEMMA AheadStart ==
  ASSUME NEW text, IsText(text), NEW p \in Starts(text)
  PROVE  Ahead(text, p) # {} /\ Min(Ahead(text, p)) = p
<1>1. Len(text) \in Nat /\ p \in 1 .. Len(text) /\ p \in 1 .. Len(text) + 1
  BY TextIs DEF Starts
<1>2. p \in Ahead(text, p)
  BY <1>1 DEF Ahead
<1>3. Min(Ahead(text, p)) \in Ahead(text, p) /\ Min(Ahead(text, p)) <= p
  BY <1>1, <1>2, AheadIs
<1>4. Min(Ahead(text, p)) >= p /\ Min(Ahead(text, p)) \in Nat
  BY <1>1, <1>3 DEF Ahead, Starts
<1>5. QED
  BY <1>1, <1>2, <1>3, <1>4

\* What a text has at a place: the line begins there, or it has no words.
LineStart(text, p) == p = 1 \/ text[p - 1] = "nl"

\* Where no line begins, and where a line has no words.
LEMMA NoStart ==
  ASSUME NEW text, NEW p, ~LineStart(text, p) \/ Words(text)[p] = <<>>
  PROVE  p \notin Starts(text)
BY DEF Starts, LineStart

\* The token at the first line with words.
Found(text, p, tok) ==
  LET A == Ahead(text, p)
      s == Min(A)
  IN IF A = {} THEN tok.type = "END"
     ELSE /\ tok.end = s + 1
          /\ text[s] = "ws" => tok.type = "INDENT"
          /\ text[s] # "ws" => tok.type = TypeOf(text[s]) /\ tok.word = text[s]

\* From where, before a line or behind one, it is looked for.
Before(text, p, b) ==
  IF b THEN LineStart(text, p) \/ Words(text)[p] = <<>>
  ELSE ~LineStart(text, p) /\ Words(text)[p] = <<>>

\* What is found at the beginning of a line is its first token.
LEMMA FoundHere ==
  ASSUME NEW text, IsText(text), NEW p \in Starts(text), NEW tok
  PROVE  /\ text[p] = "ws" /\ tok.type = "INDENT" /\ tok.end = p + 1
              => Found(text, p, tok)
         /\ text[p] # "ws" /\ IsWord(text, p, tok) => Found(text, p, tok)
BY AheadStart DEF Found, IsWord

\* From before it the same token is found.
LEMMA FoundBehind ==
  ASSUME NEW text, IsText(text), NEW p \in 1 .. Len(text) + 1,
         NEW q \in p .. Len(text) + 1,
         \A i \in p .. q - 1 : i \notin Starts(text),
         NEW tok, Found(text, q, tok)
  PROVE  Found(text, p, tok)
<1>1. Ahead(text, p) = Ahead(text, q)
  BY AheadSkips
<1>2. QED
  BY <1>1 DEF Found

\* A turn of the loop at a place.
LEMMA TurnAt ==
  ASSUME NEW text, IsText(text), NEW p \in 1 .. Len(text), NEW b \in BOOLEAN
  PROVE  /\ text[p] = "nl" => \A f : Turn(text, p, b, f) = f[<<p + 1, TRUE>>]
         /\ \A q \in p + 1 .. Len(text) : text[p] = "ws" /\ q = p + 1 /\ b =>
              /\ text[q] \in {"nl", "#"} =>
                   \A f : Turn(text, p, b, f) = f[<<q, TRUE>>]
              /\ text[q] \notin {"nl", "#"} =>
                   \A f : Turn(text, p, b, f) = Token("INDENT", "", q)
         /\ \A q \in p .. Len(text) :
              /\ q = Swallowed(text, p) /\ (q = p \/ ~b) /\ text[q] = "#"
              /\ upto(text, q) # 0
              => \A f : Turn(text, p, b, f) = f[<<upto(text, q), TRUE>>]
<1> DEFINE end == Len(text) + 1
<1>1. Len(text) \in Nat /\ p # end
  BY TextIs
<1>2. ASSUME text[p] = "nl", NEW f
      PROVE  Turn(text, p, b, f) = f[<<p + 1, TRUE>>]
  <2>1. Swallowed(text, p) = p
    BY <1>2 DEF Swallowed
  <2>2. QED
    BY <1>1, <1>2, <2>1 DEF Turn
<1>3. ASSUME NEW q \in p + 1 .. Len(text), text[p] = "ws", q = p + 1, b, NEW f
      PROVE  /\ text[q] \in {"nl", "#"} => Turn(text, p, b, f) = f[<<q, TRUE>>]
             /\ text[q] \notin {"nl", "#"} =>
                  Turn(text, p, b, f) = Token("INDENT", "", q)
  <2>1. Swallowed(text, p) = q /\ q # p /\ q # end /\ text[p] # "nl"
    BY <1>1, <1>3 DEF Swallowed
  <2>2. CASE text[q] \in {"nl", "#"}
    BY <1>1, <1>3, <2>1, <2>2 DEF Turn
  <2>3. CASE text[q] \notin {"nl", "#"}
    BY <1>1, <1>3, <2>1, <2>3 DEF Turn
  <2>4. QED
    BY <2>2, <2>3
<1>4. ASSUME NEW q \in p .. Len(text), q = Swallowed(text, p), q = p \/ ~b,
             text[q] = "#", upto(text, q) # 0, NEW f
      PROVE  Turn(text, p, b, f) = f[<<upto(text, q), TRUE>>]
  <2>1. q # end /\ text[p] # "nl"
    BY <1>1, <1>4 DEF Swallowed
  <2>2. QED
    BY <1>1, <1>4, <2>1 DEF Turn
<1>5. QED
  BY <1>2, <1>3, <1>4

\* The words from a place on, by what stands there.
LEMMA WordsAt ==
  ASSUME NEW text, IsText(text), NEW i \in 1 .. Len(text)
  PROVE  LET v == Words(text)[i]
             w == Words(text)[i + 1]
         IN /\ text[i] \in {"nl", "#"} => v = <<>>
            /\ text[i] = "ws" => v = w
            /\ text[i] \notin {"nl", "#", "ws"} =>
                 /\ v # <<>> /\ Len(v) = Len(w) + 1 /\ v[1] = text[i]
                 /\ \A j \in 1 .. Len(w) : v[j + 1] = w[j]
<1> DEFINE W == Words(text)
           S == Range(text)
           w == W[i + 1]
<1>1. Len(text) \in Nat /\ i + 1 \in 1 .. Len(text) + 1 /\ text[i] \in S
  BY TextIs DEF Range
<1>2. /\ W[i + 1] \in Seq(S)
      /\ W[i] = IF text[i] \in {"nl", "#"} THEN <<>>
                ELSE IF text[i] = "ws" THEN w ELSE <<text[i]>> \o w
  BY <1>1, WordsAre DEF WordsOf
<1> HIDE DEF W, S
<1>3. /\ Len(<<text[i]>> \o w) = Len(w) + 1 /\ (<<text[i]>> \o w)[1] = text[i]
      /\ \A j \in 1 .. Len(w) : (<<text[i]>> \o w)[j + 1] = w[j]
  <2>1. /\ <<text[i]>> \in Seq(S) /\ Len(<<text[i]>>) = 1
        /\ <<text[i]>>[1] = text[i] /\ Len(w) \in Nat
    BY <1>1, <1>2
  <2>2. QED
    BY <1>2, <2>1
<1>4. <<text[i]>> \o w # <<>>
  BY <1>2, <1>3
<1>5. QED
  BY <1>2, <1>3, <1>4 DEF W

\* The words from a place are a sequence.
LEMMA WordsAreSeq ==
  ASSUME NEW text, IsText(text), NEW p \in 1 .. Len(text) + 1
  PROVE  LET w == Words(text)[p]
         IN /\ w \in Seq(Range(text)) /\ Len(w) \in Nat /\ DOMAIN w = 1 .. Len(w)
            /\ w = <<>> <=> Len(w) = 0
<1> DEFINE w == Words(text)[p]
<1>1. w \in Seq(Range(text))
  BY WordsAre DEF WordsOf
<1> HIDE DEF w
<1>2. Len(w) \in Nat /\ DOMAIN w = 1 .. Len(w)
  BY <1>1, LenProperties
<1>3. w = <<>> <=> Len(w) = 0
  BY <1>1, EmptySeq
<1>4. QED
  BY <1>1, <1>2, <1>3 DEF w

\* A comment is skipped with its line.
LEMMA FoundComment ==
  ASSUME NEW text, IsText(text), Tidy(text), NEW p \in 1 .. Len(text),
         NEW b \in BOOLEAN, NEW q \in p .. Len(text), q = Swallowed(text, p),
         q = p \/ (q = p + 1 /\ text[p] = "ws" /\ ~b), text[q] = "#",
         NEW loop, \A n \in p + 1 .. Len(text) + 1 :
           Before(text, n, TRUE) => Found(text, n, loop[<<n, TRUE>>])
  PROVE  Found(text, p, Turn(text, p, b, loop))
<1> DEFINE n == upto(text, q)
<1>1. Len(text) \in Nat /\ q \in 1 .. Len(text)
  BY TextIs
<1>2. n \in q + 1 .. Len(text) + 1 /\ text[n - 1] = "nl"
  <2> HIDE DEF n
  <2>1. upto(text, q) \in q + 1 .. Len(text) + 1 /\ text[upto(text, q) - 1] = "nl"
    BY <1>1, UptoFirst
  <2>2. QED
    BY <2>1 DEF n
<1>3. \A i \in q .. n - 2 : text[i] # "nl"
  BY <1>1, UptoFirst
<1> HIDE DEF n
<1>4. Turn(text, p, b, loop) = loop[<<n, TRUE>>]
  <2>1. upto(text, q) # 0
    BY <1>1, <1>2 DEF n
  <2>2. q = p \/ ~b
    OBVIOUS
  <2>3. QED
    BY <2>1, <2>2, TurnAt DEF n
<1>5. Before(text, n, TRUE) /\ n \in p + 1 .. Len(text) + 1
  BY <1>1, <1>2 DEF Before, LineStart
<1>6. Found(text, n, loop[<<n, TRUE>>])
  BY <1>5
<1>7. ASSUME NEW i \in p .. n - 1 PROVE i \notin Starts(text)
  <2>1. Words(text)[q] = <<>>
    BY <1>1, WordsAt
  <2>2. CASE i = p
    <3>1. Words(text)[p] = <<>>
      BY <1>1, <2>1, WordsAt
    <3>2. QED
      BY <2>2, <3>1, NoStart
  <2>3. CASE i = q
    BY <2>1, <2>3, NoStart
  <2>4. CASE i # p /\ i # q
    <3>1. i # 1 /\ i - 1 \in q .. n - 2
      BY <1>1, <1>2, <2>4
    <3>2. QED
      BY <1>3, <3>1, NoStart DEF LineStart
  <2>5. QED
    BY <2>2, <2>3, <2>4
<1>8. n \in p .. Len(text) + 1 /\ p \in 1 .. Len(text) + 1
  BY <1>1, <1>2
<1>9. QED
  BY <1>4, <1>6, <1>7, <1>8, FoundBehind

\* One turn of the loop finds the next line, or goes on from where it will be
\* found.
LEMMA FoundTurn ==
  ASSUME NEW text, IsText(text), Tidy(text), NEW p \in 1 .. Len(text),
         NEW b \in BOOLEAN, Before(text, p, b),
         NEW loop, \A n \in p + 1 .. Len(text) + 1 :
           Before(text, n, TRUE) => Found(text, n, loop[<<n, TRUE>>])
  PROVE  Found(text, p, Turn(text, p, b, loop))
<1> DEFINE W == Words(text)
           tok == Turn(text, p, b, loop)
<1>1. /\ Len(text) \in Nat /\ p + 1 \in p + 1 .. Len(text) + 1
      /\ p + 1 \in p .. Len(text) + 1 /\ p .. (p + 1) - 1 = {p}
      /\ p \in 1 .. Len(text) + 1 /\ (p + 1) - 1 = p
  BY TextIs
<1>2. CASE text[p] = "nl"
  <2>1. tok = loop[<<p + 1, TRUE>>]
    BY <1>2, TurnAt
  <2>2. Before(text, p + 1, TRUE)
    BY <1>1, <1>2 DEF Before, LineStart
  <2>3. \A i \in p .. (p + 1) - 1 : i \notin Starts(text)
    BY <1>1, <1>2, WordsAt, NoStart
  <2>4. Found(text, p + 1, tok)
    BY <1>1, <2>1, <2>2
  <2> HIDE DEF tok
  <2>5. Found(text, p, tok)
    BY <1>1, <2>3, <2>4, FoundBehind
  <2>6. QED
    BY <2>5 DEF tok
<1>3. CASE text[p] = "ws"
  <2>1. p + 1 \in 1 .. Len(text) /\ text[p + 1] # "ws" /\ p + 1 \in p + 1 .. Len(text)
    <3>1. p + 1 \in 1 .. Len(text) /\ text[p + 1] # "ws"
      BY <1>3, TidyIs
    <3>2. QED
      BY <1>1, <3>1
  <2>2. W[p] = W[p + 1]
    BY <1>3, WordsAt
  <2>3. CASE text[p + 1] \in {"nl", "#"}
    <3>1. W[p + 1] = <<>>
      BY <2>1, <2>3, WordsAt
    <3>2. p \notin Starts(text)
      BY <2>2, <3>1, NoStart
    <3>3. CASE b
      <4>1. tok = loop[<<p + 1, TRUE>>]
        <5> DEFINE q == p + 1
        <5>1. q \in p + 1 .. Len(text) /\ q = p + 1
          BY <2>1
        <5> HIDE DEF q
        <5>2. text[q] \in {"nl", "#"}
          BY <2>3, <5>1
        <5>3. \A f : Turn(text, p, b, f) = f[<<q, TRUE>>]
          BY <1>3, <3>3, <5>1, <5>2, TurnAt
        <5>4. QED
          BY <5>1, <5>3
      <4>2. Before(text, p + 1, TRUE)
        BY <3>1 DEF Before
      <4>3. \A i \in p .. (p + 1) - 1 : i \notin Starts(text)
        BY <1>1, <3>2
      <4>4. Found(text, p + 1, tok)
        BY <1>1, <4>1, <4>2
      <4> HIDE DEF tok
      <4>5. Found(text, p, tok)
        BY <1>1, <4>3, <4>4, FoundBehind
      <4>6. QED
        BY <4>5 DEF tok
    <3>4. CASE ~b
      <4>1. text[p + 1] = "#"
        <5>1. p # 1 /\ text[p - 1] # "nl"
          BY <3>4 DEF Before, LineStart
        <5>2. text[p + 1] # "nl"
          BY <1>3, <5>1, TidyIs
        <5>3. QED
          BY <2>3, <5>2
      <4>2. p + 1 = Swallowed(text, p) /\ p + 1 \in p .. Len(text)
        BY <1>1, <1>3, <2>1 DEF Swallowed
      <4>3. QED
        BY <1>3, <3>4, <4>1, <4>2, FoundComment
    <3>5. QED
      BY <3>3, <3>4
  <2>4. CASE text[p + 1] \notin {"nl", "#"}
    <3>1. W[p] # <<>>
      BY <2>1, <2>2, <2>4, WordsAt
    <3>2. b /\ LineStart(text, p)
      BY <3>1 DEF Before
    <3>3. p \in Starts(text)
      BY <3>1, <3>2 DEF Starts, LineStart
    <3>4. tok = Token("INDENT", "", p + 1)
      BY <1>3, <2>1, <2>4, <3>2, TurnAt
    <3> HIDE DEF tok
    <3>5. tok.type = "INDENT" /\ tok.end = p + 1
      BY <3>4 DEF Token
    <3>6. Found(text, p, tok)
      BY <1>3, <3>3, <3>5, FoundHere
    <3>7. QED
      BY <3>6 DEF tok
  <2>5. QED
    BY <2>3, <2>4
<1>4. CASE text[p] = "#"
  <2>1. p = Swallowed(text, p) /\ p \in p .. Len(text)
    BY <1>1, <1>4 DEF Swallowed
  <2>2. QED
    BY <1>4, <2>1, FoundComment
<1>5. CASE text[p] \notin {"nl", "ws", "#"}
  <2>1. W[p] # <<>>
    BY <1>5, WordsAt
  <2>2. b /\ LineStart(text, p)
    BY <2>1 DEF Before
  <2>3. p \in Starts(text)
    BY <2>1, <2>2 DEF Starts, LineStart
  <2>4. p = Swallowed(text, p)
    BY <1>5 DEF Swallowed
  <2>5. IsWord(text, p, tok)
    <3> HIDE DEF tok
    <3>1. IsWord(text, p, Turn(text, p, b, loop))
      BY <1>5, <2>4, TurnAtWord
    <3>2. QED
      BY <3>1 DEF tok
  <2>6. QED
    BY <1>5, <2>3, <2>5, FoundHere
<1>6. QED
  BY <1>2, <1>3, <1>4, <1>5

\* peek_token finds the next line, from the beginning and from behind a line.
LEMMA PeekLine ==
  ASSUME NEW text, IsText(text), Tidy(text), NEW p \in 1 .. Len(text) + 1,
         Between(text, p)
  PROVE  Found(text, p, peek_token(text, p))
<1> DEFINE N == Len(text)
<1>1. N \in Nat
  BY TextIs
<1>2. PICK loop : LoopOf(text, loop)
  BY LoopIs
<1>3. peek_token(text, p) = loop[<<p, p = 1>>]
  BY <1>2 DEF LoopOf
<1>4. \A i \in 1 .. N + 1, b \in BOOLEAN : loop[<<i, b>>] = Turn(text, i, b, loop)
  BY <1>2 DEF LoopOf
<1> DEFINE Good(i) == \A b \in BOOLEAN :
                        Before(text, i, b) => Found(text, i, loop[<<i, b>>])
           T == {i \in 1 .. N + 1 : \A j \in i .. N + 1 : Good(j)}
<1>5. N + 1 \in T
  <2>1. Ahead(text, N + 1) = {}
    BY <1>1 DEF Ahead, Starts
  <2>2. \A b \in BOOLEAN : Turn(text, N + 1, b, loop) = Token("END", "", N + 1)
    <3>1. Swallowed(text, N + 1) = N + 1
      BY <1>1 DEF Swallowed
    <3>2. QED
      BY <1>1, <3>1 DEF Turn
  <2>3. Token("END", "", N + 1).type = "END"
    BY DEF Token
  <2>4. N + 1 \in 1 .. N + 1
    BY <1>1
  <2>5. ASSUME NEW b \in BOOLEAN PROVE Found(text, N + 1, loop[<<N + 1, b>>])
    <3>1. loop[<<N + 1, b>>] = Token("END", "", N + 1)
      BY <1>4, <2>2, <2>4
    <3>2. QED
      BY <2>1, <2>3, <3>1 DEF Found
  <2>6. Good(N + 1)
    BY <2>5
  <2> HIDE DEF Good
  <2>7. \A j \in N + 1 .. N + 1 : Good(j)
    <3>1. \A j \in N + 1 .. N + 1 : j = N + 1
      BY <1>1
    <3>2. QED
      BY <2>6, <3>1
  <2>8. QED
    BY <2>4, <2>7
<1>6. ASSUME NEW i \in 1 .. N, i + 1 \in T PROVE i \in T
  <2>1. \A j \in i + 1 .. N + 1 : Good(j)
    BY <1>6
  <2>2. Good(i)
    <3>1. SUFFICES ASSUME NEW b \in BOOLEAN, Before(text, i, b)
                   PROVE  Found(text, i, loop[<<i, b>>])
      OBVIOUS
    <3>2. i \in 1 .. N + 1
      BY <1>1
    <3>3. loop[<<i, b>>] = Turn(text, i, b, loop)
      BY <1>4, <3>2
    <3>4. \A n \in i + 1 .. N + 1 :
            Before(text, n, TRUE) => Found(text, n, loop[<<n, TRUE>>])
      BY <2>1
    <3>5. Found(text, i, Turn(text, i, b, loop))
      BY <3>1, <3>4, FoundTurn
    <3>6. QED
      BY <3>3, <3>5
  <2> HIDE DEF Good
  <2>3. \A j \in i .. N + 1 : j = i \/ j \in i + 1 .. N + 1
    BY <1>1
  <2>4. i \in 1 .. N + 1
    BY <1>1
  <2>5. QED
    BY <2>1, <2>2, <2>3, <2>4
<1>7. 1 .. N + 1 \subseteq T
  <2> HIDE DEF T, Good
  <2>1. QED
    BY <1>1, <1>5, <1>6, FromTheEnd
<1>8. Good(p)
  <2> HIDE DEF Good
  <2>1. p \in p .. N + 1
    BY <1>1
  <2>2. QED
    BY <1>7, <2>1
<1>9. (p = 1) \in BOOLEAN /\ Before(text, p, p = 1)
  BY DEF Between, Before, LineStart
<1>10. QED
  BY <1>3, <1>8, <1>9

\* The place p lies behind the first k words of the line that begins at s.
Behind(text, s, p, k) ==
  LET w == Words(text)[s]
      v == Words(text)[p]
  IN /\ p \in s + 1 .. Len(text) + 1 /\ k \in 0 .. Len(w)
     /\ Len(v) = Len(w) - k /\ \A j \in 1 .. Len(v) : v[j] = w[k + j]
     /\ \A i \in s .. p - 1 :
          /\ text[i] # "nl"
          /\ text[i] = "ws" \/ \E j \in 1 .. k : text[i] = w[j]

\* The line that begins at a place has words.
LEMMA StartIs ==
  ASSUME NEW text, IsText(text), NEW s \in Starts(text)
  PROVE  /\ s \in 1 .. Len(text) /\ s \in 1 .. Len(text) + 1
         /\ s + 1 \in s + 1 .. Len(text) + 1 /\ s + 1 \in 1 .. Len(text) + 1
         /\ text[s] \notin {"nl", "#"} /\ Words(text)[s] # <<>>
         /\ Len(Words(text)[s]) \in Nat \ {0}
<1>1. Len(text) \in Nat
  BY TextIs
<1>2. s \in 1 .. Len(text) /\ Words(text)[s] # <<>>
  BY DEF Starts
<1>3. s \in 1 .. Len(text) + 1
  BY <1>1, <1>2
<1>4. text[s] \notin {"nl", "#"}
  BY <1>2, WordsAt
<1>5. Len(Words(text)[s]) \in Nat \ {0}
  BY <1>2, <1>3, WordsAreSeq
<1>6. QED
  BY <1>1, <1>2, <1>3, <1>4, <1>5

\* Behind its first lexeme none or one of its words has been read.
LEMMA LineBegins ==
  ASSUME NEW text, IsText(text), NEW s \in Starts(text)
  PROVE  /\ text[s] = "ws" => Behind(text, s, s + 1, 0)
         /\ text[s] # "ws" =>
              text[s] = Words(text)[s][1] /\ Behind(text, s, s + 1, 1)
<1> DEFINE w == Words(text)[s]
           v == Words(text)[s + 1]
<1>1. /\ s \in 1 .. Len(text) /\ s + 1 \in s + 1 .. Len(text) + 1
      /\ s + 1 \in 1 .. Len(text) + 1
      /\ text[s] \notin {"nl", "#"} /\ Len(w) \in Nat \ {0}
  BY StartIs
<1>2. Len(v) \in Nat
  BY <1>1, WordsAreSeq
<1>3. \A i \in s .. (s + 1) - 1 : i = s
  BY <1>1
<1>4. ASSUME text[s] = "ws" PROVE Behind(text, s, s + 1, 0)
  <2>1. w = v
    BY <1>1, <1>4, WordsAt
  <2> HIDE DEF w, v
  <2>2. /\ 0 \in 0 .. Len(w) /\ Len(v) = Len(w) - 0
        /\ \A j \in 1 .. Len(v) : v[j] = w[0 + j]
    BY <1>1, <2>1
  <2>3. \A i \in s .. (s + 1) - 1 : text[i] # "nl" /\ text[i] = "ws"
    BY <1>3, <1>4
  <2>4. QED
    BY <1>1, <2>2, <2>3 DEF Behind, w, v
<1>5. ASSUME text[s] # "ws"
      PROVE  text[s] = w[1] /\ Behind(text, s, s + 1, 1)
  <2>1. /\ Len(w) = Len(v) + 1 /\ w[1] = text[s]
        /\ \A j \in 1 .. Len(v) : w[j + 1] = v[j]
    BY <1>1, <1>5, WordsAt
  <2> HIDE DEF w, v
  <2>2. /\ 1 \in 0 .. Len(w) /\ Len(v) = Len(w) - 1
        /\ \A j \in 1 .. Len(v) : v[j] = w[1 + j]
    BY <1>1, <1>2, <2>1
  <2>3. \A i \in s .. (s + 1) - 1 : text[i] # "nl" /\ \E j \in 1 .. 1 : text[i] = w[j]
    BY <1>1, <1>3, <2>1
  <2>4. QED
    BY <1>1, <2>1, <2>2, <2>3 DEF Behind, w, v
<1>6. QED
  BY <1>4, <1>5

\* The next word of a line is read as a token.
LEMMA NextWord ==
  ASSUME NEW text, IsText(text), Tidy(text), NEW s \in Starts(text),
         NEW p, NEW k, Behind(text, s, p, k), k < Len(Words(text)[s])
  PROVE  LET w == Words(text)[s]
             tok == peek_token(text, p)
         IN /\ tok.type = TypeOf(w[k + 1]) /\ tok.word = w[k + 1]
            /\ Behind(text, s, tok.end, k + 1)
            /\ text[tok.end - 1] = w[k + 1] /\ tok.end \in p + 1 .. Len(text) + 1
<1> DEFINE w == Words(text)[s]
           v == Words(text)[p]
           q == Swallowed(text, p)
           u == Words(text)[q + 1]
           tok == peek_token(text, p)
<1>1. /\ Len(text) \in Nat /\ s \in 1 .. Len(text) /\ Len(w) \in Nat \ {0}
  BY TextIs, StartIs
<1>2. /\ p \in s + 1 .. Len(text) + 1 /\ k \in 0 .. Len(w)
      /\ Len(v) = Len(w) - k /\ \A j \in 1 .. Len(v) : v[j] = w[k + j]
      /\ \A i \in s .. p - 1 :
           /\ text[i] # "nl"
           /\ text[i] = "ws" \/ \E j \in 1 .. k : text[i] = w[j]
  BY DEF Behind
<1>3. k < Len(w)
  OBVIOUS
<1>4. p \in 2 .. Len(text) + 1 /\ p \in 1 .. Len(text) + 1
  BY <1>1, <1>2
<1>5. v # <<>>
  <2>1. Len(v) # 0
    <3> HIDE DEF v, w
    <3>1. QED
      BY <1>1, <1>2, <1>3
  <2>2. QED
    BY <1>4, <2>1, WordsAreSeq
<1>6. /\ p \in 1 .. Len(text) /\ q \in p .. Len(text)
      /\ q = p \/ (q = p + 1 /\ text[p] = "ws")
      /\ text[q] \notin {"nl", "ws", "#"} /\ v = Words(text)[q]
  BY <1>4, <1>5, WordsFrom
<1> HIDE DEF q
<1>7. q \in 1 .. Len(text) /\ q + 1 \in 1 .. Len(text) + 1
  BY <1>1, <1>6
<1>8. /\ Len(v) = Len(u) + 1 /\ v[1] = text[q]
      /\ \A j \in 1 .. Len(u) : v[j + 1] = u[j]
  BY <1>6, <1>7, WordsAt
<1>9. Len(u) \in Nat
  BY <1>7, WordsAreSeq
<1>10. IsWord(text, q, tok)
  BY <1>4, <1>5, PeekWord DEF q
<1> HIDE DEF v, w, u, tok
<1>11. text[q] = w[k + 1]
  <2>1. 1 \in 1 .. Len(v) /\ k \in Nat
    BY <1>1, <1>2, <1>3
  <2>2. QED
    BY <1>2, <1>8, <2>1
<1>12. tok.type = TypeOf(w[k + 1]) /\ tok.word = w[k + 1] /\ tok.end = q + 1
  BY <1>10, <1>11 DEF IsWord
<1>13. Behind(text, s, q + 1, k + 1)
  <2>1. q + 1 \in s + 1 .. Len(text) + 1 /\ k + 1 \in 0 .. Len(w)
    BY <1>1, <1>2, <1>3, <1>6
  <2>2. Len(u) = Len(w) - (k + 1)
    <3>1. Len(v) = Len(w) - k
      BY <1>2
    <3>2. Len(v) = Len(u) + 1
      BY <1>8
    <3>3. k \in Nat /\ Len(w) \in Nat
      BY <1>1, <1>2
    <3>4. Len(u) \in Nat
      BY <1>9
    <3>5. QED
      BY <3>1, <3>2, <3>3, <3>4
  <2>3. ASSUME NEW j \in 1 .. Len(u) PROVE u[j] = w[(k + 1) + j]
    <3>1. j + 1 \in 1 .. Len(v) /\ k + (j + 1) = (k + 1) + j
      BY <1>2, <1>8, <1>9
    <3>2. u[j] = v[j + 1] /\ v[j + 1] = w[k + (j + 1)]
      BY <1>2, <1>8, <3>1
    <3>3. QED
      BY <3>1, <3>2
  <2>4. ASSUME NEW i \in s .. (q + 1) - 1
        PROVE  /\ text[i] # "nl"
               /\ text[i] = "ws" \/ \E j \in 1 .. k + 1 : text[i] = w[j]
    <3>1. i \in s .. p - 1 \/ i = q \/ (i = p /\ text[p] = "ws")
      BY <1>1, <1>2, <1>6, <1>7
    <3>2. 1 .. k \subseteq 1 .. k + 1 /\ k + 1 \in 1 .. k + 1
      BY <1>1, <1>2
    <3>3. CASE i \in s .. p - 1
      BY <1>2, <3>2, <3>3
    <3>4. CASE i = q
      BY <1>6, <1>11, <3>2, <3>4
    <3>5. CASE i = p /\ text[p] = "ws"
      BY <3>5
    <3>6. QED
      BY <3>1, <3>3, <3>4, <3>5
  <2>5. QED
    BY <2>1, <2>2, <2>3, <2>4 DEF Behind, w, u
<1>14. (q + 1) - 1 = q /\ q + 1 \in p + 1 .. Len(text) + 1
  BY <1>1, <1>4, <1>6, <1>7
<1>15. QED
  BY <1>11, <1>12, <1>13, <1>14 DEF w, tok

\* A line that has been read: p lies behind its last word, or its comment.
LineRead(text, s, p) ==
  /\ p \in s + 1 .. Len(text) + 1 /\ Words(text)[p] = <<>>
  /\ \A i \in s .. p - 1 : text[i] # "nl"

\* Behind all words of a line it has been read.
LEMMA LineIsRead ==
  ASSUME NEW text, IsText(text), NEW s \in Starts(text), NEW p,
         Behind(text, s, p, Len(Words(text)[s]))
  PROVE  LineRead(text, s, p)
<1> DEFINE w == Words(text)[s]
           v == Words(text)[p]
<1>1. Len(text) \in Nat /\ s \in 1 .. Len(text) /\ Len(w) \in Nat \ {0}
  BY TextIs, StartIs
<1>2. /\ p \in s + 1 .. Len(text) + 1 /\ Len(v) = Len(w) - Len(w)
      /\ \A i \in s .. p - 1 : text[i] # "nl"
  BY DEF Behind
<1>3. p \in 1 .. Len(text) + 1
  BY <1>1, <1>2
<1>4. v = <<>>
  <2>1. Len(v) = 0
    <3> HIDE DEF v, w
    <3>1. QED
      BY <1>1, <1>2
  <2>2. QED
    BY <1>3, <2>1, WordsAreSeq
<1>5. QED
  BY <1>2, <1>4 DEF LineRead

\* Behind it the other lines are ahead.
LEMMA AfterLine ==
  ASSUME NEW text, IsText(text), NEW s \in Starts(text), NEW p,
         LineRead(text, s, p)
  PROVE  /\ p \in 1 .. Len(text) + 1 /\ p > s /\ p \in s + 1 .. Len(text) + 1
         /\ Between(text, p)
         /\ \A i \in s + 1 .. p - 1 : i \notin Starts(text)
         /\ Ahead(text, p) = Ahead(text, s + 1)
<1>1. Len(text) \in Nat /\ s \in 1 .. Len(text) /\ s + 1 \in 1 .. Len(text) + 1
  BY TextIs, StartIs
<1>2. /\ p \in s + 1 .. Len(text) + 1 /\ Words(text)[p] = <<>>
      /\ \A i \in s .. p - 1 : text[i] # "nl"
  BY DEF LineRead
<1>3. p \in 1 .. Len(text) + 1 /\ p > s /\ p - 1 \in s .. p - 1
  BY <1>1, <1>2
<1>4. Between(text, p)
  BY <1>2, <1>3 DEF Between
<1>5. ASSUME NEW i \in s + 1 .. p - 1 PROVE i \notin Starts(text)
  <2>1. i # 1 /\ i - 1 \in s .. p - 1
    BY <1>1, <1>3
  <2>2. QED
    BY <1>2, <2>1, NoStart DEF LineStart
<1>6. Ahead(text, s + 1) = Ahead(text, p)
  BY <1>1, <1>2, <1>5, AheadSkips
<1>7. QED
  BY <1>2, <1>3, <1>4, <1>5, <1>6

-----------------------------------------------------------------------------
(* The values of a line that is right.                                     *)

\* The type of a word.
LEMMA TypeIs ==
  ASSUME NEW word
  PROVE  /\ word \in Marks \cup Keyword => TypeOf(word) = word
         /\ TypeOf(word) \in Marks \cup Keyword => TypeOf(word) = word
         /\ TypeOf(word) = "NUMBER" => word \in DOMAIN Integer
         /\ TypeOf(word) \in Marks \cup Keyword \cup {"NUMBER", "STRING"}
<1>1. "NUMBER" \notin Marks \cup Keyword /\ "STRING" \notin Marks \cup Keyword
  BY DEF Marks, Keyword, Names, Tools, Hosts
<1>2. QED
  BY <1>1 DEF TypeOf

\* A read that succeeds, with what it yields, and leaves the line that begins
\* at s behind.
Yields(text, s, read, value) ==
  read.ok /\ read.value = value /\ LineRead(text, s, read.end)

\* The result of a read that succeeds.
LEMMA YieldsRead ==
  ASSUME NEW text, NEW s, NEW end, LineRead(text, s, end), NEW value
  PROVE  Yields(text, s, Read(TRUE, value, end), value)
<1>1. /\ Read(TRUE, value, end).ok = TRUE /\ Read(TRUE, value, end).value = value
      /\ Read(TRUE, value, end).end = end
  BY DEF Read
<1>2. QED
  BY <1>1 DEF Yields

\* get_value reads the word behind the "=".
LEMMA ValueRead ==
  ASSUME NEW text, IsText(text), Tidy(text), NEW s \in Starts(text),
         NEW p, NEW k \in Nat, Behind(text, s, p, k),
         Len(Words(text)[s]) = k + 2, Words(text)[s][k + 1] = "="
  PROVE  LET w == Words(text)[s]
             tok == get_value(text, p)
         IN /\ tok.type = TypeOf(w[Len(w)]) /\ tok.word = w[Len(w)]
            /\ LineRead(text, s, tok.end)
<1> DEFINE w == Words(text)[s]
           tok == peek_token(text, p)
           next == peek_token(text, tok.end)
<1>1. tok.type = TypeOf("=") /\ Behind(text, s, tok.end, k + 1)
  BY NextWord
<1>2. TypeOf("=") = "="
  BY TypeIs DEF Marks
<1>3. get_value(text, p) = next
  BY <1>1, <1>2 DEF get_value
<1> HIDE DEF tok
<1>4. k + 1 < Len(w) /\ (k + 1) + 1 = Len(w)
  OBVIOUS
<1>5. /\ next.type = TypeOf(w[(k + 1) + 1]) /\ next.word = w[(k + 1) + 1]
      /\ Behind(text, s, next.end, (k + 1) + 1)
  BY <1>1, <1>4, NextWord
<1> HIDE DEF next
<1>6. Behind(text, s, next.end, Len(w))
  BY <1>4, <1>5
<1>7. LineRead(text, s, next.end)
  BY <1>6, LineIsRead
<1>8. QED
  BY <1>3, <1>4, <1>5, <1>7

\* get_path yields the path that such a word stands for.
LEMMA PathRead ==
  ASSUME NEW text, IsText(text), Tidy(text), NEW s \in Starts(text),
         NEW p, NEW k \in Nat, Behind(text, s, p, k),
         Len(Words(text)[s]) = k + 2, Words(text)[s][k + 1] = "=",
         NEW word, word = Words(text)[s][Len(Words(text)[s])],
         TypeOf(word) = "STRING"
  PROVE  Yields(text, s, get_path(text, p), {Expanded(word)})
<1> DEFINE tok == get_value(text, p)
<1>1. tok.type = "STRING" /\ tok.word = word /\ LineRead(text, s, tok.end)
  BY ValueRead
<1>2. get_path(text, p) = Read(TRUE, {Expanded(word)}, tok.end)
  BY <1>1 DEF get_path
<1> HIDE DEF tok
<1>3. QED
  BY <1>1, <1>2, YieldsRead

\* So does get_optional_path.
LEMMA OptionalPathRead ==
  ASSUME NEW text, IsText(text), Tidy(text), NEW s \in Starts(text),
         NEW p, NEW k \in Nat, Behind(text, s, p, k),
         Len(Words(text)[s]) = k + 2, Words(text)[s][k + 1] = "=",
         NEW word, word = Words(text)[s][Len(Words(text)[s])],
         TypeOf(word) = "STRING"
  PROVE  Yields(text, s, get_optional_path(text, p), {Expanded(word)})
<1> DEFINE tok == peek_token(text, p)
<1>1. tok.type = TypeOf("=")
  BY NextWord
<1>2. TypeOf("=") = "="
  BY TypeIs DEF Marks
<1>3. get_optional_path(text, p) = get_path(text, p)
  BY <1>1, <1>2 DEF get_optional_path
<1>4. QED
  BY <1>3, PathRead

\* to_int yields the number that it is.
LEMMA NumberRead ==
  ASSUME NEW text, IsText(text), Tidy(text), NEW s \in Starts(text),
         NEW p, NEW k \in Nat, Behind(text, s, p, k),
         Len(Words(text)[s]) = k + 2, Words(text)[s][k + 1] = "=",
         NEW word, word = Words(text)[s][Len(Words(text)[s])],
         TypeOf(word) = "NUMBER", NEW min, NEW max, Integer[word] \in min .. max
  PROVE  Yields(text, s, to_int(get_value(text, p), min, max), Integer[word])
<1> DEFINE tok == get_value(text, p)
<1>1. tok.type = "NUMBER" /\ tok.word = word /\ LineRead(text, s, tok.end)
  BY ValueRead
<1>2. to_int(tok, min, max) = Read(TRUE, Integer[word], tok.end)
  BY <1>1 DEF to_int
<1> HIDE DEF tok
<1>3. QED
  BY <1>1, <1>2, YieldsRead DEF tok

\* get_optional_path and get_to_eol read "disable".
LEMMA DisableRead ==
  ASSUME NEW text, IsText(text), Tidy(text), NEW s \in Starts(text),
         NEW p, NEW k \in Nat, Behind(text, s, p, k),
         Len(Words(text)[s]) = k + 1, Words(text)[s][k + 1] = "disable"
  PROVE  /\ Yields(text, s, get_optional_path(text, p), {})
         /\ Yields(text, s, get_to_eol(text, p), {})
<1> DEFINE tok == peek_token(text, p)
<1>1. tok.type = TypeOf("disable") /\ Behind(text, s, tok.end, k + 1)
  BY NextWord
<1>2. TypeOf("disable") = "disable"
  BY TypeIs DEF Keyword
<1>3. /\ get_optional_path(text, p) = Read(TRUE, {}, tok.end)
      /\ get_to_eol(text, p) = Read(TRUE, {}, tok.end)
  BY <1>1, <1>2 DEF get_optional_path, get_to_eol
<1>4. Behind(text, s, tok.end, Len(Words(text)[s]))
  BY <1>1
<1> HIDE DEF tok
<1>5. LineRead(text, s, tok.end)
  BY <1>4, LineIsRead
<1>6. QED
  BY <1>3, <1>5, YieldsRead

\* The rest of a line: what stands behind its first "=".
LEMMA LeastIs ==
  ASSUME NEW S, S \subseteq Nat, NEW m \in S, \A i \in S : m <= i
  PROVE  Min(S) = m
<1>1. Min(S) \in S /\ \A i \in S : Min(S) <= i
  BY DEF Min
<1>2. Min(S) <= m /\ m <= Min(S) /\ Min(S) \in Nat
  BY <1>1
<1>3. QED
  BY <1>2

\* get_to_eol reads it.
LEMMA RestRead ==
  ASSUME NEW text, IsText(text), Tidy(text), NEW s \in Starts(text),
         NEW p, NEW k \in Nat, Behind(text, s, p, k),
         k < Len(Words(text)[s]), Words(text)[s][k + 1] = "=",
         \A j \in 1 .. k : Words(text)[s][j] # "="
  PROVE  Yields(text, s, get_to_eol(text, p), {RestOf(text, s)})
<1> DEFINE w == Words(text)[s]
           tok == peek_token(text, p)
           e == tok.end
           start == Swallowed(text, e)
           next == upto(text, start)
           E == {i \in s .. Len(text) : text[i] = "="}
           N == {i \in e .. (Len(text) + 1) : i > Len(text) \/ text[i] = "nl"}
<1>1. Len(text) \in Nat /\ s \in 1 .. Len(text)
  BY TextIs, StartIs
<1>2. /\ tok.type = TypeOf("=") /\ text[e - 1] = "="
      /\ e \in p + 1 .. Len(text) + 1
      /\ Behind(text, s, e, k + 1)
  BY NextWord
<1>3. /\ p \in s + 1 .. Len(text) + 1
      /\ \A i \in s .. p - 1 : text[i] = "ws" \/ \E j \in 1 .. k : text[i] = w[j]
  BY DEF Behind
<1>4. /\ e \in s + 1 .. Len(text) + 1
      /\ \A i \in s .. e - 1 : text[i] # "nl"
      /\ Words(text)[p] # <<>>
  <2>1. Len(Words(text)[p]) = Len(w) - k /\ k < Len(w) /\ Len(w) \in Nat
    BY StartIs DEF Behind
  <2>2. Len(Words(text)[p]) # 0 /\ p \in 1 .. Len(text) + 1
    BY <1>1, <1>3, <2>1
  <2>3. Words(text)[p] # <<>>
    BY <2>2, WordsAreSeq
  <2>4. e \in s + 1 .. Len(text) + 1 /\ \A i \in s .. e - 1 : text[i] # "nl"
    BY <1>2 DEF Behind
  <2>5. QED
    BY <2>3, <2>4
<1>5. e = Swallowed(text, p) + 1
  <2>1. p \in 2 .. Len(text) + 1
    BY <1>1, <1>3
  <2>2. IsWord(text, Swallowed(text, p), tok)
    BY <1>4, <2>1, PeekWord
  <2>3. QED
    BY <2>2 DEF IsWord
<1>6. Swallowed(text, p) = p \/ (Swallowed(text, p) = p + 1 /\ text[p] = "ws")
  BY DEF Swallowed
<1>7. tok.type = "="
  BY <1>2, TypeIs DEF Marks
<1> HIDE DEF tok
<1>d. e \in Nat
  BY <1>1, <1>4
<1> HIDE DEF e, w
<1>8. ASSUME NEW i \in s .. e - 2 PROVE text[i] # "="
  <2>1. i \in s .. p - 1 \/ (i = p /\ text[p] = "ws")
    BY <1>1, <1>3, <1>5, <1>6
  <2>2. i \in s .. p - 1 => text[i] # "="
    BY <1>3 DEF w
  <2>3. QED
    BY <2>1, <2>2
<1>9. Min(E) = e - 1
  <2>1. e - 1 \in E /\ E \subseteq Nat
    BY <1>1, <1>2, <1>4
  <2>2. \A i \in E : e - 1 <= i
    <3>1. SUFFICES ASSUME NEW i \in E, i < e - 1 PROVE FALSE
      BY <1>1, <1>d
    <3>2. i \in s .. e - 2 /\ text[i] = "="
      BY <1>1, <1>4, <3>1
    <3>3. QED
      BY <1>8, <3>2
  <2> HIDE DEF E
  <2>3. QED
    BY <2>1, <2>2, LeastIs
<1>10. e \in 1 .. Len(text)
  <2>1. e # Len(text) + 1
    <3>1. SUFFICES ASSUME e = Len(text) + 1 PROVE FALSE
      OBVIOUS
    <3>2. e - 1 = Len(text) /\ Len(text) > 0
      BY <1>1, <3>1
    <3>3. text[e - 1] = "nl"
      BY <3>2, TidyIs
    <3>4. QED
      BY <1>2, <3>3
  <2>2. QED
    BY <1>1, <1>4, <2>1
<1>11. start \in 1 .. Len(text) /\ start = IF text[e] = "ws" THEN e + 1 ELSE e
  <2>1. CASE text[e] = "ws"
    <3>1. e + 1 \in 1 .. Len(text)
      BY <1>10, <2>1, TidyIs
    <3>2. QED
      BY <1>1, <1>10, <2>1, <3>1 DEF Swallowed
  <2>2. CASE text[e] # "ws"
    BY <1>1, <1>10, <2>2 DEF Swallowed
  <2>3. QED
    BY <2>1, <2>2
<1> HIDE DEF start
<1>12. /\ next \in start + 1 .. Len(text) + 1 /\ text[next - 1] = "nl"
       /\ \A i \in start .. next - 2 : text[i] # "nl"
  BY <1>11, UptoFirst
<1> HIDE DEF next
<1>13. \A i \in e .. next - 2 : text[i] # "nl"
  <2>1. ASSUME NEW i \in e .. next - 2, text[i] = "nl" PROVE FALSE
    <3>1. i \in start .. next - 2 \/ (i = e /\ text[e] = "ws")
      BY <1>1, <1>10, <1>11, <1>12
    <3>2. QED
      BY <1>12, <2>1, <3>1
  <2>2. QED
    BY <2>1
<1>14. Min(N) = next - 1
  <2>1. next - 1 \in N /\ N \subseteq Nat
    BY <1>1, <1>10, <1>11, <1>12
  <2>2. \A i \in N : next - 1 <= i
    <3>1. SUFFICES ASSUME NEW i \in N, i < next - 1 PROVE FALSE
      BY <1>1, <1>10, <1>12
    <3>2. i \in e .. next - 2 /\ ~(i > Len(text))
      BY <1>1, <1>10, <1>11, <1>12, <3>1
    <3>3. text[i] = "nl"
      BY <3>1, <3>2
    <3>4. QED
      BY <1>13, <3>2, <3>3
  <2> HIDE DEF N
  <2>3. QED
    BY <2>1, <2>2, LeastIs
<1>15. RestOf(text, s) = SubSeq(text, start, next - 2)
  <2>1. /\ (e - 1) + 1 = e /\ (e - 1) + 2 = e + 1
        /\ (next - 1) - 1 = next - 2
    BY <1>1, <1>10, <1>12
  <2>2. text[e] = "ws" => e < next - 1
    BY <1>1, <1>10, <1>11, <1>12
  <2>3. RestOf(text, s) =
          SubSeq(text, IF e < next - 1 /\ text[e] = "ws" THEN e + 1 ELSE e,
                 (next - 1) - 1)
    BY <1>9, <1>14, <2>1, Zenon DEF RestOf
  <2>4. QED
    BY <1>11, <2>1, <2>2, <2>3
<1>16. get_to_eol(text, p) = Read(TRUE, {SubSeq(text, start, next - 2)}, next - 1)
  <2>1. next # 0
    BY <1>1, <1>11, <1>12
  <2>2. QED
    BY <1>7, <2>1 DEF get_to_eol, next, start, e, tok
<1>17. LineRead(text, s, next - 1)
  <2>1. next - 1 \in s + 1 .. Len(text) + 1 /\ next - 1 \in 1 .. Len(text)
    BY <1>1, <1>4, <1>11, <1>12
  <2>2. Words(text)[next - 1] = <<>>
    BY <1>12, <2>1, WordsAt
  <2>3. ASSUME NEW i \in s .. (next - 1) - 1 PROVE text[i] # "nl"
    <3>1. i \in s .. e - 1 \/ i \in e .. next - 2
      BY <1>1, <1>4, <1>12, <1>11
    <3>2. QED
      BY <1>4, <1>13, <3>1
  <2>4. QED
    BY <2>1, <2>2, <2>3 DEF LineRead
<1>18. QED
  BY <1>15, <1>16, <1>17, YieldsRead

-----------------------------------------------------------------------------
(* Entries that are right.                                                 *)

\* The forms of a line of a section.
Plain == Hosts \cup {"no-parallel"}
Disabled(w, e) == Len(w) = 2 /\ w[2] = "disable" /\ e = Entry(w[1], {})
FormOf(w, b, e) ==
  /\ w[1] \in Keyword \ {"disable", "env"}
  /\ w[1] = "verbose" => Len(w) = 1 /\ e = Entry("verbose", {})
  /\ w[1] \in Plain =>
       \/ Disabled(w, e)
       \/ Len(w) > 1 /\ w[2] = "=" /\ e = Entry(w[1], {b})
  /\ w[1] \in Names \cup Tools \cup {"cpus", "nice", "lock-file", "include"} =>
       \/ w[1] \in Tools /\ Disabled(w, e)
       \/ Len(w) = 3 /\ w[2] = "="
  /\ w[1] \in Names \cup Tools /\ Len(w) = 3 =>
       e = Entry(w[1], {Expanded(w[3])})
  /\ w[1] = "cpus" => Within(w[3], 1, MaxCpus) /\ e = Entry("cpus", Integer[w[3]])
  /\ w[1] = "nice" => Within(w[3], -19, 20) /\ e = Entry("nice", Integer[w[3]])
  /\ w[1] = "lock-file" => /\ Expanded(w[3]) \in Locked
                           /\ e = Entry("lock-file", {Expanded(w[3])})
  /\ w[1] = "include" => e = Entry("include", Expanded(w[3]))
  /\ w[1] = "add" =>
       LET list == IF w[2] = "make" THEN "make_add" ELSE "env_add"
       IN /\ Len(w) > 2 /\ w[2] \in {"make", "env"}
          /\ \/ Len(w) = 3 /\ w[3] = "disable" /\ e = Entry(list, {})
             \/ w[3] = "=" /\ e = Entry(list, {b})

\* The key and the value of an entry.
LEMMA EntryIs ==
  ASSUME NEW key, NEW value
  PROVE  Entry(key, value).key = key /\ Entry(key, value).value = value
BY DEF Entry

\* An entry that is not wrong has one of the forms.
LEMMA SettingIs ==
  ASSUME NEW w, Len(w) \in Nat \ {0}, NEW b, Setting(w, b).key # "wrong"
  PROVE  FormOf(w, b, Setting(w, b))
<1> DEFINE key == w[1]
           e == Setting(w, b)
           alone == Len(w) = 1
           disabled == Len(w) = 2 /\ w[2] = "disable"
           word == Len(w) = 3 /\ w[2] = "="
           rest == Len(w) > 1 /\ w[2] = "="
           adding == key = "add" /\ Len(w) > 2 /\ w[2] \in {"make", "env"}
           list == IF w[2] = "make" THEN "make_add" ELSE "env_add"
           path == Expanded(Last(w))
           number == Integer[Last(w)]
           cpus == key = "cpus" /\ word /\ Within(w[3], 1, MaxCpus)
           nice == key = "nice" /\ word /\ Within(w[3], -19, 20)
           locks == key = "lock-file" /\ word /\ path \in Locked
           none == adding /\ Len(w) = 3 /\ w[3] = "disable"
           more == adding /\ w[3] = "="
<1>1. e = CASE key = "verbose" /\ alone -> Entry(key, {})
            [] key \in Tools \cup Hosts \cup {"no-parallel"} /\ disabled ->
                 Entry(key, {})
            [] key \in Hosts \cup {"no-parallel"} /\ rest -> Entry(key, {b})
            [] key \in Names \cup Tools /\ word -> Entry(key, {path})
            [] cpus -> Entry(key, number)
            [] nice -> Entry(key, number)
            [] locks -> Entry(key, {path})
            [] key = "include" /\ word -> Entry(key, path)
            [] none -> Entry(list, {})
            [] more -> Entry(list, {b})
            [] OTHER -> Wrong
  BY DEF Setting
<1>2. word => Last(w) = w[3]
  BY DEF Last
<1>3. Wrong.key = "wrong"
  BY EntryIs DEF Wrong
<1> HIDE DEF path, number, cpus, nice, locks, list, e
<1>4. e.key # "wrong"
  BY DEF e
<1> USE DEF Names, Tools, Hosts
<1>5. CASE key = "verbose" /\ alone
  <2>1. e = Entry(key, {})
    BY <1>1, <1>5 DEF cpus, nice, locks
  <2>2. QED
    BY <1>5, <2>1 DEF FormOf, Plain, Keyword, e
<1>6. CASE key \in Tools \cup Hosts \cup {"no-parallel"} /\ disabled
  <2>1. e = Entry(key, {})
    BY <1>1, <1>6 DEF cpus, nice, locks
  <2>2. QED
    BY <1>6, <2>1 DEF FormOf, Plain, Keyword, Disabled, e
<1>7. CASE key \in Hosts \cup {"no-parallel"} /\ rest
  <2>1. e = Entry(key, {b})
    BY <1>1, <1>7 DEF cpus, nice, locks
  <2>2. QED
    BY <1>7, <2>1 DEF FormOf, Plain, Keyword, Disabled, e
<1>8. CASE key \in Names \cup Tools /\ word
  <2>1. e = Entry(key, {path})
    BY <1>1, <1>8 DEF cpus, nice, locks
  <2>2. QED
    BY <1>2, <1>8, <2>1 DEF FormOf, Plain, Keyword, Disabled, e, path
<1>9. CASE cpus
  <2>1. e = Entry(key, number)
    BY <1>1, <1>9 DEF cpus, nice, locks
  <2>2. QED
    BY <1>2, <1>9, <2>1 DEF FormOf, Plain, Keyword, e, number, cpus
<1>10. CASE nice
  <2>1. e = Entry(key, number)
    BY <1>1, <1>10 DEF cpus, nice, locks
  <2>2. QED
    BY <1>2, <1>10, <2>1 DEF FormOf, Plain, Keyword, e, number, nice
<1>11. CASE locks
  <2>1. e = Entry(key, {path})
    BY <1>1, <1>11 DEF cpus, nice, locks
  <2>2. QED
    BY <1>2, <1>11, <2>1 DEF FormOf, Plain, Keyword, e, path, locks
<1>12. CASE key = "include" /\ word
  <2>1. e = Entry(key, path)
    BY <1>1, <1>12 DEF cpus, nice, locks
  <2>2. QED
    BY <1>2, <1>12, <2>1 DEF FormOf, Plain, Keyword, e, path
<1>13. CASE none
  <2>1. e = Entry(list, {})
    BY <1>1, <1>13 DEF cpus, nice, locks
  <2>2. QED
    BY <1>13, <2>1 DEF FormOf, Plain, Keyword, e, list
<1>14. CASE more
  <2>1. e = Entry(list, {b})
    BY <1>1, <1>14 DEF cpus, nice, locks
  <2>2. QED
    BY <1>14, <2>1 DEF FormOf, Plain, Keyword, e, list
<1>15. QED
  <2>1. SUFFICES ASSUME
          ~(key = "verbose" /\ alone),
          ~(key \in Tools \cup Hosts \cup {"no-parallel"} /\ disabled),
          ~(key \in Hosts \cup {"no-parallel"} /\ rest),
          ~(key \in Names \cup Tools /\ word), ~cpus, ~nice, ~locks,
          ~(key = "include" /\ word), ~none, ~more
        PROVE FALSE
    BY <1>5, <1>6, <1>7, <1>8, <1>9, <1>10, <1>11, <1>12, <1>13, <1>14
  <2>2. e = Wrong
    BY <1>1, <2>1
  <2>3. QED
    BY <1>3, <1>4, <2>2

\* A line of a text that is right, and the next line from a place on.
RightLine(text, s) ==
  IsText(text) /\ Tidy(text) /\ s \in Starts(text) /\ Spelled(text, s)
NextLine(text, at, s) ==
  /\ at \in 1 .. Len(text) + 1 /\ Ahead(text, at) # {} /\ s = Min(Ahead(text, at))

\* The next line is among the lines of the text, and none is before it.
LEMMA NextLineIs ==
  ASSUME NEW text, IsText(text), NEW at, NEW s, NextLine(text, at, s)
  PROVE  /\ s \in Starts(text) /\ s \in at .. Len(text) /\ s \in 1 .. Len(text)
         /\ \A i \in at .. s - 1 : i \notin Starts(text)
<1> DEFINE A == Ahead(text, at)
<1>1. Len(text) \in Nat
  BY TextIs
<1>2. at \in 1 .. Len(text) + 1 /\ A # {} /\ s = Min(A)
  BY DEF NextLine
<1>3. /\ A \subseteq at .. Len(text) /\ A \subseteq Starts(text)
      /\ s \in A /\ \A m \in A : s <= m
  BY <1>2, AheadIs
<1>4. ASSUME NEW i \in at .. s - 1, i \in Starts(text) PROVE FALSE
  <2>1. i \in A
    BY <1>1, <1>2, <1>4 DEF Ahead
  <2>2. s <= i /\ s \in Nat
    BY <1>1, <1>2, <1>3, <2>1
  <2>3. QED
    BY <1>1, <1>2, <2>2
<1> HIDE DEF A
<1>5. s \in Starts(text) /\ s \in at .. Len(text)
  BY <1>3
<1>6. s \in 1 .. Len(text)
  BY <1>1, <1>2, <1>5
<1>7. QED
  BY <1>4, <1>5, <1>6

\* An indented line: what its entry is, and what its first word is read as.
LEMMA IndentedIs ==
  ASSUME NEW text, NEW s, RightLine(text, s), text[s] = "ws"
  PROVE  LET w == Words(text)[s]
             tok == peek_token(text, s + 1)
         IN /\ FormOf(w, RestOf(text, s), EntryAt(text, s))
            /\ tok.type = w[1] /\ Behind(text, s, tok.end, 1)
<1> DEFINE w == Words(text)[s]
           tok == peek_token(text, s + 1)
           e == EntryAt(text, s)
<1>1. IsText(text) /\ Tidy(text) /\ s \in Starts(text) /\ Spelled(text, s)
  BY DEF RightLine
<1>2. Len(w) \in Nat \ {0} /\ Behind(text, s, s + 1, 0)
  BY <1>1, StartIs, LineBegins
<1>3. tok.type = TypeOf(w[0 + 1]) /\ Behind(text, s, tok.end, 0 + 1)
  <2> HIDE DEF tok
  <2>1. 0 < Len(w)
    BY <1>2
  <2>2. QED
    BY <1>1, <1>2, <2>1, NextWord DEF tok
<1>4. e = Setting(w, RestOf(text, s))
  BY DEF EntryAt
<1>5. e.key # "wrong"
  BY <1>1 DEF Spelled
<1>6. FormOf(w, RestOf(text, s), e)
  <2> HIDE DEF w, e
  <2>1. QED
    BY <1>2, <1>4, <1>5, SettingIs
<1>7. w[1] \in Keyword
  BY <1>6 DEF FormOf
<1>8. TypeOf(w[1]) = w[1]
  BY <1>7, TypeIs
<1>9. QED
  BY <1>3, <1>6, <1>8

\* A line that is not: the header of a section, or an include.
Heading(w, e) == Len(w) = 3 /\ w[1] = "[" /\ w[3] = "]" /\ e = Entry("[", w[2])
Inclusion(w, e) ==
  Len(w) = 3 /\ w[1] = "include" /\ w[2] = "=" /\ e = Entry("include", Expanded(w[3]))

\* It is one of them, and begins with its first word.
LEMMA UnindentedIs ==
  ASSUME NEW text, NEW s, RightLine(text, s), text[s] # "ws"
  PROVE  LET w == Words(text)[s]
             e == EntryAt(text, s)
         IN /\ Heading(w, e) \/ Inclusion(w, e)
            /\ text[s] = w[1] /\ TypeOf(w[1]) = w[1]
            /\ Behind(text, s, s + 1, 1)
<1> DEFINE w == Words(text)[s]
           e == EntryAt(text, s)
           header == Len(w) = 3 /\ w[1] = "[" /\ w[3] = "]"
           include == Len(w) = 3 /\ w[1] = "include" /\ w[2] = "="
<1>1. IsText(text) /\ s \in Starts(text) /\ Spelled(text, s)
  BY DEF RightLine
<1>2. e.key # "wrong"
  BY <1>1 DEF Spelled
<1>3. text[s] = w[1] /\ Behind(text, s, s + 1, 1)
  BY <1>1, LineBegins
<1>4. e = IF header THEN Entry("[", w[2])
          ELSE IF include THEN Entry("include", Expanded(w[3])) ELSE Wrong
  BY DEF EntryAt
<1>5. Wrong.key = "wrong"
  BY EntryIs DEF Wrong
<1> HIDE DEF e, w
<1>6. Heading(w, e) \/ Inclusion(w, e)
  <2>1. CASE header
    BY <1>4, <2>1 DEF Heading
  <2>2. CASE include
    BY <1>4, <2>2 DEF Inclusion
  <2>3. CASE ~header /\ ~include
    BY <1>2, <1>4, <1>5, <2>3
  <2>4. QED
    BY <2>1, <2>2, <2>3
<1>7. w[1] \in Marks \cup Keyword
  BY <1>6 DEF Heading, Inclusion, Marks, Keyword
<1>8. QED
  BY <1>3, <1>6, <1>7, TypeIs DEF w, e

\* What is read behind the instruction is the value of the entry.
LEMMA PlainRead ==
  ASSUME NEW text, NEW s, RightLine(text, s), text[s] = "ws",
         Words(text)[s][1] \in Plain, NEW p, Behind(text, s, p, 1)
  PROVE  LET e == EntryAt(text, s)
         IN e.key = Words(text)[s][1] /\ Yields(text, s, get_to_eol(text, p), e.value)
<1> DEFINE w == Words(text)[s]
           b == RestOf(text, s)
           e == EntryAt(text, s)
<1>1. IsText(text) /\ Tidy(text) /\ s \in Starts(text) /\ FormOf(w, b, e)
  BY IndentedIs DEF RightLine
<1>2. w[1] \in Plain
  OBVIOUS
<1>3. \/ Disabled(w, e)
      \/ Len(w) > 1 /\ w[2] = "=" /\ e = Entry(w[1], {b})
  BY <1>1, <1>2 DEF FormOf
<1>4. CASE Disabled(w, e)
  <2>1. Len(w) = 1 + 1 /\ w[1 + 1] = "disable" /\ e = Entry(w[1], {})
    BY <1>4 DEF Disabled
  <2>2. e.key = w[1] /\ e.value = {}
    BY <2>1, EntryIs
  <2>3. Yields(text, s, get_to_eol(text, p), {})
    BY <1>1, <2>1, DisableRead
  <2>4. QED
    BY <2>2, <2>3
<1>5. CASE Len(w) > 1 /\ w[2] = "=" /\ e = Entry(w[1], {b})
  <2>1. 1 < Len(w) /\ w[1 + 1] = "="
    BY <1>1, <1>5, StartIs
  <2>2. e.key = w[1] /\ e.value = {b}
    BY <1>5, EntryIs
  <2>3. \A j \in 1 .. 1 : w[j] # "="
    BY <1>2 DEF Plain, Hosts
  <2>4. Yields(text, s, get_to_eol(text, p), {b})
    BY <1>1, <2>1, <2>3, RestRead
  <2>5. QED
    BY <2>2, <2>4
<1>6. QED
  BY <1>3, <1>4, <1>5

\* Paths, and the names of files.
Paths == Names \cup Tools \cup {"lock-file", "include"}

\* The value of an instruction that takes a path is read.
LEMMA PathIs ==
  ASSUME NEW text, NEW s, RightLine(text, s), text[s] = "ws",
         Words(text)[s][1] \in Paths, ~Disabled(Words(text)[s], EntryAt(text, s)),
         NEW p, Behind(text, s, p, 1)
  PROVE  LET e == EntryAt(text, s)
             path == Expanded(Words(text)[s][3])
         IN /\ Yields(text, s, get_path(text, p), {path})
            /\ Yields(text, s, get_optional_path(text, p), {path})
            /\ e.key = Words(text)[s][1]
            /\ e.key \in Names \cup Tools \cup {"lock-file"} => e.value = {path}
            /\ e.key = "lock-file" => path \in Locked
            /\ e.key = "include" => e.value = path
<1> DEFINE w == Words(text)[s]
           e == EntryAt(text, s)
           path == Expanded(w[3])
<1>1. /\ IsText(text) /\ Tidy(text) /\ s \in Starts(text)
      /\ FormOf(w, RestOf(text, s), e) /\ Spelled(text, s)
  BY IndentedIs DEF RightLine
<1>2. w[1] \in Names \cup Tools \/ w[1] = "lock-file" \/ w[1] = "include"
  BY DEF Paths
<1>3. Len(w) = 3 /\ w[2] = "="
  BY <1>1, <1>2 DEF FormOf
<1>4. \/ w[1] \in Names \cup Tools /\ e = Entry(w[1], {path})
      \/ w[1] = "lock-file" /\ path \in Locked /\ e = Entry("lock-file", {path})
      \/ w[1] = "include" /\ e = Entry("include", path)
  BY <1>1, <1>2, <1>3 DEF FormOf
<1>5. "lock-file" \notin Names \cup Tools /\ "include" \notin Names \cup Tools
  BY DEF Names, Tools
<1>6. e.key = w[1]
  BY <1>4, EntryIs
<1>7. /\ e.key \in Names \cup Tools \cup {"lock-file"} => e.value = {path}
      /\ e.key = "lock-file" => path \in Locked
      /\ e.key = "include" => e.value = path
  BY <1>4, <1>5, <1>6, EntryIs
<1>8. Last(w) = w[3]
  BY <1>3 DEF Last
<1>9. TypeOf(w[3]) = "STRING"
  BY <1>1, <1>2, <1>3, <1>6, <1>8 DEF Spelled
<1>10. Len(w) = 1 + 2 /\ w[1 + 1] = "=" /\ w[3] = w[Len(w)]
  BY <1>3
<1> HIDE DEF w, e
<1>11. Yields(text, s, get_path(text, p), {path})
  BY <1>1, <1>9, <1>10, PathRead DEF w
<1>12. Yields(text, s, get_optional_path(text, p), {path})
  BY <1>1, <1>9, <1>10, OptionalPathRead DEF w
<1>13. QED
  BY <1>6, <1>7, <1>11, <1>12 DEF w, e

\* That of a tool is read, a path or "disable".
LEMMA ToolIs ==
  ASSUME NEW text, NEW s, RightLine(text, s), text[s] = "ws",
         Words(text)[s][1] \in Tools, NEW p, Behind(text, s, p, 1)
  PROVE  LET e == EntryAt(text, s)
         IN /\ e.key = Words(text)[s][1]
            /\ Yields(text, s, get_optional_path(text, p), e.value)
<1> DEFINE w == Words(text)[s]
           e == EntryAt(text, s)
<1>1. IsText(text) /\ Tidy(text) /\ s \in Starts(text)
  BY DEF RightLine
<1>2. CASE Disabled(w, e)
  <2>1. Len(w) = 1 + 1 /\ w[1 + 1] = "disable" /\ e = Entry(w[1], {})
    BY <1>2 DEF Disabled
  <2>2. e.key = w[1] /\ e.value = {}
    BY <2>1, EntryIs
  <2>3. Yields(text, s, get_optional_path(text, p), {})
    BY <1>1, <2>1, DisableRead
  <2>4. QED
    BY <2>2, <2>3
<1>3. CASE ~Disabled(w, e)
  <2>1. w[1] \in Paths
    BY DEF Paths
  <2> DEFINE path == Expanded(w[3])
  <2>2. /\ Yields(text, s, get_optional_path(text, p), {path})
        /\ e.key = w[1] /\ (e.key \in Names \cup Tools \cup {"lock-file"} => e.value = {path})
    BY <1>3, <2>1, PathIs
  <2>3. QED
    BY <2>2
<1>4. QED
  BY <1>2, <1>3

\* Numbers are read.
LEMMA NumberIs ==
  ASSUME NEW text, NEW s, RightLine(text, s), text[s] = "ws",
         NEW p, Behind(text, s, p, 1)
  PROVE  LET w == Words(text)[s]
             e == EntryAt(text, s)
             tok == get_value(text, p)
         IN /\ w[1] = "cpus" =>
                 e.key = "cpus" /\ Yields(text, s, to_int(tok, 1, MaxCpus), e.value)
            /\ w[1] = "nice" =>
                 e.key = "nice" /\ Yields(text, s, to_int(tok, -19, 20), e.value)
<1> DEFINE w == Words(text)[s]
           e == EntryAt(text, s)
           tok == get_value(text, p)
<1>1. /\ IsText(text) /\ Tidy(text) /\ s \in Starts(text)
      /\ FormOf(w, RestOf(text, s), e) /\ Spelled(text, s)
  BY IndentedIs DEF RightLine
<1>2. ASSUME w[1] = "cpus" \/ w[1] = "nice"
      PROVE  /\ Len(w) = 1 + 2 /\ w[1 + 1] = "=" /\ w[3] = w[Len(w)]
             /\ w[1] \notin Tools /\ e.key = w[1] /\ TypeOf(w[3]) = "NUMBER"
             /\ e.value = Integer[w[3]]
  <2>1. w[1] \notin Tools
    BY <1>2 DEF Tools
  <2>2. Len(w) = 3 /\ w[2] = "="
    BY <1>1, <1>2, <2>1 DEF FormOf
  <2>3. e = Entry(w[1], Integer[w[3]])
    BY <1>1, <1>2 DEF FormOf
  <2>4. e.key = w[1] /\ e.value = Integer[w[3]]
    BY <2>3, EntryIs
  <2>5. Last(w) = w[3]
    BY <2>2 DEF Last
  <2>6. TypeOf(w[3]) = "NUMBER"
    BY <1>1, <1>2, <2>4, <2>5 DEF Spelled
  <2>7. QED
    BY <2>1, <2>2, <2>4, <2>6
<1>3. ASSUME w[1] = "cpus"
      PROVE  Yields(text, s, to_int(tok, 1, MaxCpus), e.value)
  <2>1. Integer[w[3]] \in 1 .. MaxCpus
    BY <1>1, <1>3 DEF FormOf, Within
  <2>2. QED
    BY <1>1, <1>2, <1>3, <2>1, NumberRead
<1>4. ASSUME w[1] = "nice"
      PROVE  Yields(text, s, to_int(tok, -19, 20), e.value)
  <2>1. Integer[w[3]] \in -19 .. 20
    BY <1>1, <1>4 DEF FormOf, Within
  <2>2. QED
    BY <1>1, <1>2, <1>4, <2>1, NumberRead
<1>5. QED
  BY <1>2, <1>3, <1>4

\* The list of "add" is read, and what is added to it.
LEMMA AddIs ==
  ASSUME NEW text, NEW s, RightLine(text, s), text[s] = "ws",
         Words(text)[s][1] = "add", NEW p, Behind(text, s, p, 1)
  PROVE  LET e == EntryAt(text, s)
             to == peek_token(text, p)
             list == IF to.type = "make" THEN "make_add" ELSE "env_add"
         IN /\ to.type \in {"make", "env"} /\ e.key = list
            /\ e.value = {} \/ e.value = {RestOf(text, s)}
            /\ Yields(text, s, get_to_eol(text, to.end), e.value)
<1> DEFINE w == Words(text)[s]
           e == EntryAt(text, s)
           b == RestOf(text, s)
           to == peek_token(text, p)
           list == IF w[2] = "make" THEN "make_add" ELSE "env_add"
           read == get_to_eol(text, to.end)
<1>1. IsText(text) /\ Tidy(text) /\ s \in Starts(text) /\ FormOf(w, b, e)
  BY IndentedIs DEF RightLine
<1>2. /\ Len(w) > 2 /\ w[2] \in {"make", "env"}
      /\ \/ Len(w) = 3 /\ w[3] = "disable" /\ e = Entry(list, {})
         \/ w[3] = "=" /\ e = Entry(list, {b})
  BY <1>1 DEF FormOf
<1>3. Len(w) \in Nat
  BY <1>1, StartIs
<1>4. /\ to.type = TypeOf(w[1 + 1]) /\ Behind(text, s, to.end, 1 + 1)
  <2>1. 1 < Len(w)
    BY <1>2, <1>3
  <2>2. QED
    BY <1>1, <2>1, NextWord
<1>5. to.type = w[2] /\ Behind(text, s, to.end, 2)
  <2>1. w[2] \in Keyword
    BY <1>2 DEF Keyword, Names
  <2>2. QED
    BY <1>4, <2>1, TypeIs
<1> HIDE DEF to
<1>6. CASE Len(w) = 3 /\ w[3] = "disable" /\ e = Entry(list, {})
  <2>1. Len(w) = 2 + 1 /\ w[2 + 1] = "disable"
    BY <1>6
  <2>2. e.key = list /\ e.value = {}
    BY <1>6, EntryIs
  <2>3. Yields(text, s, read, {})
    BY <1>1, <1>5, <2>1, DisableRead
  <2>4. QED
    BY <1>2, <1>5, <2>2, <2>3 DEF to
<1>7. CASE w[3] = "=" /\ e = Entry(list, {b})
  <2>1. 2 < Len(w) /\ w[2 + 1] = "="
    BY <1>2, <1>3, <1>7
  <2>2. e.key = list /\ e.value = {b}
    BY <1>7, EntryIs
  <2>3. \A j \in 1 .. 2 : w[j] # "="
    <3>1. \A j \in 1 .. 2 : j = 1 \/ j = 2
      OBVIOUS
    <3>2. w[1] = "add"
      OBVIOUS
    <3> HIDE DEF w
    <3>3. QED
      BY <1>2, <3>1, <3>2
  <2>4. Yields(text, s, read, {b})
    BY <1>1, <1>5, <2>1, <2>3, RestRead
  <2>5. QED
    BY <1>2, <1>5, <2>2, <2>4 DEF to
<1>8. QED
  BY <1>2, <1>6, <1>7

-----------------------------------------------------------------------------
(* The values of a line that is wrong.                                     *)

\* The forms of a line of a section, again.
Understood(w) ==
  LET key == w[1]
      word == Len(w) = 3 /\ w[2] = "="
  IN \/ key = "verbose" /\ Len(w) = 1
     \/ key \in Tools \cup Plain /\ Len(w) = 2 /\ w[2] = "disable"
     \/ key \in Plain /\ Len(w) > 1 /\ w[2] = "="
     \/ key \in Names \cup Tools \cup {"include"} /\ word
     \/ key = "cpus" /\ word /\ Within(w[3], 1, MaxCpus)
     \/ key = "nice" /\ word /\ Within(w[3], -19, 20)
     \/ key = "lock-file" /\ word /\ Expanded(w[3]) \in Locked
     \/ /\ key = "add" /\ Len(w) > 2 /\ w[2] \in {"make", "env"}
        /\ \/ Len(w) = 3 /\ w[3] = "disable"
           \/ w[3] = "="

\* A wrong entry has none of them.
LEMMA WrongForm ==
  ASSUME NEW w, Len(w) \in Nat \ {0}, NEW b, Setting(w, b).key = "wrong"
  PROVE  ~Understood(w)
<1> DEFINE key == w[1]
           e == Setting(w, b)
           alone == Len(w) = 1
           disabled == Len(w) = 2 /\ w[2] = "disable"
           word == Len(w) = 3 /\ w[2] = "="
           rest == Len(w) > 1 /\ w[2] = "="
           adding == key = "add" /\ Len(w) > 2 /\ w[2] \in {"make", "env"}
           list == IF w[2] = "make" THEN "make_add" ELSE "env_add"
           path == Expanded(Last(w))
           number == Integer[Last(w)]
           cpus == key = "cpus" /\ word /\ Within(w[3], 1, MaxCpus)
           nice == key = "nice" /\ word /\ Within(w[3], -19, 20)
           locks == key = "lock-file" /\ word /\ path \in Locked
           none == adding /\ Len(w) = 3 /\ w[3] = "disable"
           more == adding /\ w[3] = "="
<1>1. e = CASE key = "verbose" /\ alone -> Entry(key, {})
            [] key \in Tools \cup Hosts \cup {"no-parallel"} /\ disabled ->
                 Entry(key, {})
            [] key \in Hosts \cup {"no-parallel"} /\ rest -> Entry(key, {b})
            [] key \in Names \cup Tools /\ word -> Entry(key, {path})
            [] cpus -> Entry(key, number)
            [] nice -> Entry(key, number)
            [] locks -> Entry(key, {path})
            [] key = "include" /\ word -> Entry(key, path)
            [] none -> Entry(list, {})
            [] more -> Entry(list, {b})
            [] OTHER -> Wrong
  BY DEF Setting
<1>2. word => path = Expanded(w[3])
  BY DEF Last
<1>3. e.key = "wrong" /\ list # "wrong"
  OBVIOUS
<1>4. \A k \in Keyword : k # "wrong"
  BY DEF Keyword, Names, Tools, Hosts
<1>5. ASSUME NEW k, NEW v, k \in Keyword \cup {list} PROVE e # Entry(k, v)
  BY <1>3, <1>4, <1>5, EntryIs
<1>6. key \in Names \cup Tools \cup Hosts \cup
              {"verbose", "no-parallel", "cpus", "nice", "lock-file", "include"}
        => key \in Keyword
  BY DEF Keyword
<1> HIDE DEF path, number, cpus, nice, locks, none, more, list, e
<1>7. key \in Keyword =>
        /\ ~(key = "verbose" /\ alone)
        /\ ~(key \in Tools \cup Hosts \cup {"no-parallel"} /\ disabled)
        /\ ~(key \in Hosts \cup {"no-parallel"} /\ rest)
        /\ ~(key \in Names \cup Tools /\ word)
        /\ ~cpus /\ ~nice /\ ~locks /\ ~(key = "include" /\ word)
        /\ ~none /\ ~more
  BY <1>1, <1>5
<1>8. none \/ more => key \in Keyword
  BY DEF none, more, Keyword
<1>9. QED
  BY <1>2, <1>6, <1>7, <1>8
  DEF Understood, Plain, cpus, nice, locks, none, more, Keyword

\* What is seen behind the last word of a wrong line: nothing that a value or an
\* instruction goes on with.
Stops == {"END", "INDENT", "["} \cup (Keyword \ {"disable", "make", "env"})
WrongLine(text, s) ==
  IsText(text) /\ Tidy(text) /\ s \in Starts(text) /\ Misspelled(text, s)

\* Before that it is the next word.
LEMMA PeekWrong ==
  ASSUME NEW text, NEW s, WrongLine(text, s), NEW p, NEW k, Behind(text, s, p, k)
  PROVE  LET w == Words(text)[s]
             tok == peek_token(text, p)
         IN /\ k \in 0 .. Len(w) /\ Len(w) \in Nat \ {0}
            /\ k < Len(w) => /\ tok.type = TypeOf(w[k + 1]) /\ tok.word = w[k + 1]
                             /\ Behind(text, s, tok.end, k + 1)
            /\ k = Len(w) => tok.type \in Stops
<1> DEFINE w == Words(text)[s]
           tok == peek_token(text, p)
<1>1. /\ IsText(text) /\ Tidy(text) /\ s \in Starts(text) /\ Misspelled(text, s)
      /\ k \in 0 .. Len(w) /\ Len(w) \in Nat \ {0}
  BY StartIs DEF WrongLine, Behind
<1>2. ASSUME k < Len(w)
      PROVE  /\ tok.type = TypeOf(w[k + 1]) /\ tok.word = w[k + 1]
             /\ Behind(text, s, tok.end, k + 1)
  BY <1>1, <1>2, NextWord
<1>3. ASSUME k = Len(w)
      PROVE  tok.type \in Stops
  <2> DEFINE A == Ahead(text, p)
             m == Min(A)
  <2>1. LineRead(text, s, p)
    BY <1>1, <1>3, LineIsRead
  <2>2. /\ p \in 1 .. Len(text) + 1 /\ Between(text, p)
        /\ Ahead(text, p) = Ahead(text, s + 1)
    BY <1>1, <2>1, AfterLine
  <2>3. Found(text, p, tok)
    <3> HIDE DEF tok
    <3>1. QED
      BY <1>1, <2>2, PeekLine DEF tok
  <2>4. A # {} => text[m] \in Beginnings
    BY <1>1, <2>2 DEF Misspelled
  <2>5. A = {} => tok.type = "END"
    BY <2>3 DEF Found
  <2>6. A # {} /\ text[m] = "ws" => tok.type = "INDENT"
    BY <2>3 DEF Found
  <2>7. A # {} /\ text[m] # "ws" => tok.type = TypeOf(text[m])
    BY <2>3 DEF Found
  <2> HIDE DEF A, m, tok
  <2>8. \A word \in Beginnings : word # "ws" => TypeOf(word) = word /\ word \in Stops
    BY TypeIs DEF Beginnings, Stops, Marks
  <2>9. QED
    BY <2>4, <2>5, <2>6, <2>7, <2>8 DEF Stops
<1>4. QED
  BY <1>1, <1>2, <1>3

\* The place p lies behind some words of the line, and before others.
Inside(text, s, p) ==
  \E k \in Nat \ {0} : k < Len(Words(text)[s]) /\ Behind(text, s, p, k)

\* There no section begins, nothing is included, and no text ends.
LEMMA PartlyDoomed ==
  ASSUME NEW text, NEW s, WrongLine(text, s), NEW p, Inside(text, s, p)
  PROVE  peek_token(text, p).type \notin {"INDENT", "[", "include", "END"}
<1> DEFINE w == Words(text)[s]
<1>1. PICK k \in Nat \ {0} : k < Len(w) /\ Behind(text, s, p, k)
  BY DEF Inside
<1>2. peek_token(text, p).type = TypeOf(w[k + 1]) /\ Len(w) \in Nat
  BY <1>1, PeekWrong
<1>3. w[k + 1] \notin {"[", "include"}
  <2>1. k + 1 \in 2 .. Len(w)
    BY <1>1, <1>2
  <2>2. \A i \in 2 .. Len(w) : w[i] \notin {"[", "include"}
    BY DEF WrongLine, Misspelled
  <2> HIDE DEF w
  <2>3. QED
    BY <2>1, <2>2
<1>4. \A word : TypeOf(word) \notin {"INDENT", "END"}
  BY TypeIs DEF Marks, Keyword, Names, Tools, Hosts
<1>5. \A word : word \notin {"[", "include"} => TypeOf(word) \notin {"[", "include"}
  BY DEF TypeOf
<1>6. QED
  BY <1>2, <1>3, <1>4, <1>5

\* get_value at a wrong line: a word behind an "=", or nothing.
LEMMA WrongValue ==
  ASSUME NEW text, NEW s, WrongLine(text, s), NEW p, NEW k, Behind(text, s, p, k)
  PROVE  LET w == Words(text)[s]
             tok == get_value(text, p)
         IN tok.type \in {"STRING", "NUMBER"} =>
              /\ k + 2 <= Len(w) /\ w[k + 1] = "="
              /\ tok.word = w[k + 2] /\ tok.type = TypeOf(w[k + 2])
              /\ Behind(text, s, tok.end, k + 2)
<1> DEFINE w == Words(text)[s]
           eq == peek_token(text, p)
           next == peek_token(text, eq.end)
           tok == get_value(text, p)
<1>1. /\ k \in 0 .. Len(w) /\ Len(w) \in Nat \ {0}
      /\ k < Len(w) => /\ eq.type = TypeOf(w[k + 1]) /\ eq.word = w[k + 1]
                       /\ Behind(text, s, eq.end, k + 1)
      /\ k = Len(w) => eq.type \in Stops
  BY PeekWrong
<1>2. "=" \notin Stops /\ "STRING" \notin Stops /\ "NUMBER" \notin Stops
  BY DEF Stops, Keyword, Names, Tools, Hosts
<1>3. tok = IF eq.type = "=" THEN next ELSE Token("NONE", "", p)
  BY DEF get_value
<1>4. Token("NONE", "", p).type = "NONE"
  BY DEF Token
<1>5. \A word : TypeOf(word) = "=" => word = "="
  BY TypeIs DEF Marks
<1> HIDE DEF w, eq, tok
<1> SUFFICES ASSUME tok.type \in {"STRING", "NUMBER"}
             PROVE  /\ k + 2 <= Len(w) /\ w[k + 1] = "="
                    /\ tok.word = w[k + 2] /\ tok.type = TypeOf(w[k + 2])
                    /\ Behind(text, s, tok.end, k + 2)
  BY DEF w, tok
<1>6. eq.type = "=" /\ tok = next
  BY <1>3, <1>4
<1>7. k < Len(w) /\ w[k + 1] = "=" /\ Behind(text, s, eq.end, k + 1)
  BY <1>1, <1>2, <1>5, <1>6
<1>8. /\ k + 1 < Len(w) => /\ next.type = TypeOf(w[(k + 1) + 1])
                           /\ next.word = w[(k + 1) + 1]
                           /\ Behind(text, s, next.end, (k + 1) + 1)
      /\ k + 1 = Len(w) => next.type \in Stops
  BY <1>7, PeekWrong DEF w
<1> HIDE DEF next
<1>9. k + 1 # Len(w)
  BY <1>2, <1>6, <1>8
<1>10. k + 1 < Len(w) /\ (k + 1) + 1 = k + 2 /\ k + 2 <= Len(w)
  BY <1>1, <1>7, <1>9
<1>11. QED
  BY <1>6, <1>7, <1>8, <1>10

\* What the entry of a wrong line is not.
LEMMA WrongIs ==
  ASSUME NEW text, NEW s, WrongLine(text, s)
  PROVE  LET w == Words(text)[s]
         IN /\ IsText(text) /\ Tidy(text) /\ s \in Starts(text)
            /\ Len(w) \in Nat \ {0} /\ EntryAt(text, s).key = "wrong"
            /\ text[s] = "ws" => ~Understood(w)
            /\ text[s] # "ws" =>
                 /\ Len(w) = 3 => w[1] # "[" \/ w[3] # "]"
                 /\ Len(w) = 3 => w[1] # "include" \/ w[2] # "="
            /\ w[1] = "include" => Len(w) <= 3
<1> DEFINE w == Words(text)[s]
           e == EntryAt(text, s)
           b == RestOf(text, s)
<1>1. /\ IsText(text) /\ Tidy(text) /\ s \in Starts(text) /\ Len(w) \in Nat \ {0}
      /\ e.key = "wrong"
      /\ w[1] = "include" => Len(w) <= 3
  BY StartIs DEF WrongLine, Misspelled
<1>2. ASSUME text[s] = "ws"
      PROVE  ~Understood(w)
  <2>1. Setting(w, b).key = "wrong"
    BY <1>1, <1>2 DEF EntryAt
  <2> HIDE DEF w, b
  <2>2. QED
    BY <1>1, <2>1, WrongForm
<1>3. ASSUME text[s] # "ws"
      PROVE  /\ Len(w) = 3 => w[1] # "[" \/ w[3] # "]"
             /\ Len(w) = 3 => w[1] # "include" \/ w[2] # "="
  <2> DEFINE header == Len(w) = 3 /\ w[1] = "[" /\ w[3] = "]"
             include == Len(w) = 3 /\ w[1] = "include" /\ w[2] = "="
  <2>1. e = IF header THEN Entry("[", w[2])
            ELSE IF include THEN Entry("include", Expanded(w[3])) ELSE Wrong
    BY <1>3 DEF EntryAt
  <2> HIDE DEF e, w
  <2>2. ~header
    BY <1>1, <2>1, EntryIs
  <2>3. ~include
    BY <1>1, <2>1, <2>2, EntryIs
  <2>4. QED
    BY <2>2, <2>3
<1>4. QED
  BY <1>1, <1>2, <1>3

\* What the reads of values may find behind its first k words.
LEMMA WrongPath ==
  ASSUME NEW text, NEW s, WrongLine(text, s), NEW p, NEW k, Behind(text, s, p, k),
         get_path(text, p).ok
  PROVE  LET w == Words(text)[s]
             read == get_path(text, p)
         IN /\ k + 2 <= Len(w) /\ w[k + 1] = "="
            /\ read.value = {Expanded(w[k + 2])} /\ Behind(text, s, read.end, k + 2)
<1> DEFINE tok == get_value(text, p)
           read == get_path(text, p)
<1>1. /\ read.ok = (tok.type = "STRING") /\ read.value = {Expanded(tok.word)}
      /\ read.end = tok.end
  BY DEF get_path, Read
<1> HIDE DEF tok, read
<1>2. tok.type = "STRING"
  BY <1>1 DEF read
<1>3. QED
  BY <1>1, <1>2, WrongValue DEF tok, read

\* A number in range.
LEMMA WrongNumber ==
  ASSUME NEW text, NEW s, WrongLine(text, s), NEW p, NEW k, Behind(text, s, p, k),
         NEW min, NEW max, to_int(get_value(text, p), min, max).ok
  PROVE  LET w == Words(text)[s]
         IN /\ k + 2 <= Len(w) /\ w[k + 1] = "=" /\ Within(w[k + 2], min, max)
            /\ Behind(text, s, to_int(get_value(text, p), min, max).end, k + 2)
<1> DEFINE tok == get_value(text, p)
           read == to_int(tok, min, max)
<1>1. read.ok => /\ tok.type = "NUMBER" /\ Integer[tok.word] \in min .. max
                 /\ read.end = tok.end
  BY DEF to_int, Read
<1> HIDE DEF tok, read
<1>2. tok.type = "NUMBER" /\ Integer[tok.word] \in min .. max /\ read.end = tok.end
  BY <1>1 DEF tok, read
<1> DEFINE word == Words(text)[s][k + 2]
<1>3. /\ k + 2 <= Len(Words(text)[s]) /\ Words(text)[s][k + 1] = "="
      /\ tok.word = word /\ tok.type = TypeOf(word) /\ Behind(text, s, tok.end, k + 2)
  BY <1>2, WrongValue DEF tok
<1> HIDE DEF word
<1>4. Within(word, min, max)
  BY <1>2, <1>3, TypeIs DEF Within
<1>5. QED
  BY <1>2, <1>3, <1>4 DEF tok, read, word

\* The rest of a line, or "disable".
LEMMA WrongToEol ==
  ASSUME NEW text, NEW s, WrongLine(text, s), NEW p, NEW k, Behind(text, s, p, k),
         get_to_eol(text, p).ok
  PROVE  LET w == Words(text)[s]
         IN /\ k + 1 <= Len(w)
            /\ \/ w[k + 1] = "="
               \/ /\ w[k + 1] = "disable"
                  /\ Behind(text, s, get_to_eol(text, p).end, k + 1)
<1> DEFINE w == Words(text)[s]
           tok == peek_token(text, p)
           read == get_to_eol(text, p)
<1>1. /\ k \in 0 .. Len(w) /\ Len(w) \in Nat \ {0}
      /\ k < Len(w) => tok.type = TypeOf(w[k + 1]) /\ Behind(text, s, tok.end, k + 1)
      /\ k = Len(w) => tok.type \in Stops
  BY PeekWrong
<1>2. read.ok => \/ tok.type = "disable" /\ read.end = tok.end
                 \/ tok.type = "="
  BY DEF get_to_eol, Read
<1>3. "=" \notin Stops /\ "disable" \notin Stops
  BY DEF Stops, Keyword, Names, Tools, Hosts
<1>4. \A word : /\ TypeOf(word) = "=" => word = "="
                /\ TypeOf(word) = "disable" => word = "disable"
  BY TypeIs DEF Marks, Keyword
<1> HIDE DEF w, tok, read
<1>5. \/ tok.type = "disable" /\ read.end = tok.end
      \/ tok.type = "="
  BY <1>2 DEF read
<1>6. k < Len(w) /\ k + 1 <= Len(w)
  BY <1>1, <1>3, <1>5
<1>7. tok.type = TypeOf(w[k + 1]) /\ Behind(text, s, tok.end, k + 1)
  BY <1>1, <1>6
<1>8. CASE tok.type = "="
  <2>1. w[k + 1] = "="
    BY <1>4, <1>7, <1>8
  <2>2. QED
    BY <1>6, <2>1 DEF w
<1>9. CASE tok.type = "disable" /\ read.end = tok.end
  <2>1. w[k + 1] = "disable"
    BY <1>4, <1>7, <1>9
  <2>2. Behind(text, s, read.end, k + 1)
    BY <1>7, <1>9
  <2>3. QED
    BY <1>6, <2>1, <2>2 DEF w, read
<1>10. QED
  BY <1>5, <1>8, <1>9

\* A path, or "disable".
LEMMA WrongOptionalPath ==
  ASSUME NEW text, NEW s, WrongLine(text, s), NEW p, NEW k, Behind(text, s, p, k),
         get_optional_path(text, p).ok
  PROVE  LET w == Words(text)[s]
             end == get_optional_path(text, p).end
         IN \/ k + 1 <= Len(w) /\ w[k + 1] = "disable" /\ Behind(text, s, end, k + 1)
            \/ k + 2 <= Len(w) /\ w[k + 1] = "=" /\ Behind(text, s, end, k + 2)
<1> DEFINE w == Words(text)[s]
           tok == peek_token(text, p)
           read == get_optional_path(text, p)
<1>1. /\ k \in 0 .. Len(w) /\ Len(w) \in Nat \ {0}
      /\ k < Len(w) => tok.type = TypeOf(w[k + 1]) /\ Behind(text, s, tok.end, k + 1)
      /\ k = Len(w) => tok.type \in Stops
  BY PeekWrong
<1>2. "disable" \notin Stops
  BY DEF Stops, Keyword, Names, Tools, Hosts
<1>3. \A word : TypeOf(word) = "disable" => word = "disable"
  BY TypeIs DEF Keyword
<1>4. CASE tok.type = "disable"
  <2>1. read.end = tok.end
    BY <1>4 DEF get_optional_path, Read
  <2> HIDE DEF w, tok, read
  <2>2. k < Len(w) /\ k + 1 <= Len(w)
    BY <1>1, <1>2, <1>4
  <2>3. w[k + 1] = "disable" /\ Behind(text, s, read.end, k + 1)
    BY <1>1, <1>3, <1>4, <2>1, <2>2
  <2>4. QED
    BY <2>2, <2>3 DEF w, read
<1>5. CASE tok.type # "disable"
  <2>1. read = get_path(text, p)
    BY <1>5 DEF get_optional_path
  <2>2. get_path(text, p).ok
    BY <2>1
  <2> HIDE DEF read, tok
  <2>3. QED
    BY <2>1, <2>2, WrongPath DEF read
<1>6. QED
  BY <1>4, <1>5

-----------------------------------------------------------------------------
(* What is left to read.                                                   *)

\* The files of a disk that are legible.
Sound(files) ==
  /\ Legible(files) /\ Config \in DOMAIN files /\ IsFiniteSet(DOMAIN files)
  /\ \A f \in DOMAIN files : IsText(files[f])

\* Their lines are right or wrong, and their contents the solution of the
\* equations.
LegibleText(text) ==
  /\ IsText(text) /\ Tidy(text)
  /\ \A p \in Starts(text) : Spelled(text, p) \/ Misspelled(text, p)
LEMMA SoundIs ==
  ASSUME NEW files, Sound(files)
  PROVE  /\ ContentsOf(files, Contents(files))
         /\ \A f \in DOMAIN files :
              /\ LegibleText(files[f]) /\ IncludesRight(files, files[f])
              /\ EntriesOf(Contents(files), files[f], AllEntries(files),
                           EntriesFrom(Contents(files), files[f]))
<1> DEFINE c == Contents(files)
           S == AllEntries(files)
<1>1. ContentsOf(files, c)
  BY ContentsAre DEF Sound, Legible
<1>2. \A f \in DOMAIN files : LegibleText(files[f]) /\ IncludesRight(files, files[f])
  BY DEF Sound, Legible, LegibleText
<1> HIDE DEF c, S
<1>3. ASSUME NEW f \in DOMAIN files
      PROVE  EntriesOf(c, files[f], S, EntriesFrom(c, files[f]))
  <2>1. IsText(files[f]) /\ HasEntries(files[f], S)
    BY EntriesThere DEF Sound, S
  <2>2. Supplies(c, DOMAIN files, files[f], S)
    BY <1>1 DEF ContentsOf, Supplies, S
  <2>3. QED
    BY <2>1, <2>2, EntriesAre
<1>4. QED
  BY <1>1, <1>2, <1>3 DEF c, S

\* The entries from a place on: none, or those of the next line and the others.
LEMMA AfterSkips ==
  ASSUME NEW text, IsText(text), NEW c, NEW S, NEW after,
         EntriesOf(c, text, S, after), NEW p \in 1 .. Len(text) + 1,
         NEW q \in p .. Len(text) + 1, \A i \in p .. q - 1 : i \notin Starts(text)
  PROVE  after[p] = after[q]
<1> DEFINE N == Len(text)
           Good(i) == \A k \in i .. N + 1 :
                        (\A j \in i .. k - 1 : j \notin Starts(text))
                          => after[i] = after[k]
           T == {i \in 1 .. N + 1 : Good(i)}
<1>1. N \in Nat
  BY TextIs
<1>2. \A i \in 1 .. N : i \notin Starts(text) => after[i] = after[i + 1]
  BY DEF EntriesOf, StartAt
<1>3. N + 1 \in T
  <2>1. \A k \in N + 1 .. N + 1 : k = N + 1
    BY <1>1
  <2>2. QED
    BY <1>1, <2>1
<1>4. ASSUME NEW i \in 1 .. N, i + 1 \in T PROVE i \in T
  <2>1. ASSUME NEW k \in i .. N + 1, \A j \in i .. k - 1 : j \notin Starts(text)
        PROVE  after[i] = after[k]
    <3>1. CASE k = i
      BY <3>1
    <3>2. CASE k # i
      <4>1. k \in i + 1 .. N + 1 /\ i \in i .. k - 1
        BY <1>1, <3>2
      <4>2. \A j \in i + 1 .. k - 1 : j \in i .. k - 1
        BY <1>1
      <4>3. after[i + 1] = after[k]
        BY <1>4, <2>1, <4>1, <4>2
      <4>4. after[i] = after[i + 1]
        BY <1>2, <2>1, <4>1
      <4>5. QED
        BY <4>3, <4>4
    <3>3. QED
      BY <3>1, <3>2
  <2>2. i \in 1 .. N + 1
    BY <1>1
  <2>3. QED
    BY <2>1, <2>2
<1>5. 1 .. N + 1 \subseteq T
  <2> HIDE DEF T
  <2>1. QED
    BY <1>1, <1>3, <1>4, FromTheEnd
<1>6. QED
  BY <1>5

LEMMA AfterNone ==
  ASSUME NEW text, IsText(text), NEW c, NEW S, NEW after,
         EntriesOf(c, text, S, after), NEW p \in 1 .. Len(text) + 1,
         Ahead(text, p) = {}
  PROVE  after[p] = <<>>
<1>1. Len(text) \in Nat
  BY TextIs
<1>2. after[Len(text) + 1] = <<>>
  BY DEF EntriesOf
<1>3. \A i \in p .. (Len(text) + 1) - 1 : i \notin Starts(text)
  BY <1>1 DEF Ahead
<1>4. Len(text) + 1 \in p .. Len(text) + 1
  BY <1>1
<1>5. QED
  BY <1>2, <1>3, <1>4, AfterSkips

LEMMA AfterNext ==
  ASSUME NEW text, IsText(text), NEW c, NEW S, NEW after,
         EntriesOf(c, text, S, after), NEW at, NEW s, NextLine(text, at, s),
         NEW p, LineRead(text, s, p)
  PROVE  after[at] = Expansion(c, EntryAt(text, s)) \o after[p]
<1>1. /\ Len(text) \in Nat /\ at \in 1 .. Len(text) + 1
      /\ s \in Starts(text) /\ s \in at .. Len(text) /\ s \in 1 .. Len(text)
      /\ \A i \in at .. s - 1 : i \notin Starts(text)
  BY TextIs, NextLineIs DEF NextLine
<1>2. s \in at .. Len(text) + 1 /\ s + 1 \in 1 .. Len(text) + 1
  BY <1>1
<1>3. after[at] = after[s]
  BY <1>1, <1>2, AfterSkips
<1>4. after[s] = Expansion(c, EntryAt(text, s)) \o after[s + 1]
  BY <1>1 DEF EntriesOf, StartAt
<1>5. /\ p \in s + 1 .. Len(text) + 1
      /\ \A i \in s + 1 .. p - 1 : i \notin Starts(text)
  BY <1>1, AfterLine
<1>6. after[s + 1] = after[p]
  BY <1>2, <1>5, AfterSkips
<1>7. QED
  BY <1>3, <1>4, <1>6

\* What a reader has left.
ReaderOf(files, r) ==
  \E f \in DOMAIN files : r.text = files[f] /\ r.at \in 1 .. Len(files[f]) + 1

\* It is what EntriesFrom says of its text from its place on.
LEMMA RestIs ==
  ASSUME NEW files, Sound(files), NEW r, ReaderOf(files, r)
  PROVE  /\ LegibleText(r.text) /\ IsText(r.text) /\ IncludesRight(files, r.text)
         /\ r.at \in 1 .. Len(r.text) + 1
         /\ EntriesOf(Contents(files), r.text, AllEntries(files),
                      EntriesFrom(Contents(files), r.text))
         /\ Rest(files, r) \in Seq(AllEntries(files))
<1>1. PICK f \in DOMAIN files :
        r.text = files[f] /\ r.at \in 1 .. Len(files[f]) + 1
  BY DEF ReaderOf
<1>2. /\ LegibleText(r.text) /\ IsText(r.text) /\ IncludesRight(files, r.text)
      /\ EntriesOf(Contents(files), r.text, AllEntries(files),
                   EntriesFrom(Contents(files), r.text))
  BY <1>1, SoundIs DEF Sound
<1>3. Rest(files, r) \in Seq(AllEntries(files))
  BY <1>1, <1>2 DEF Rest, EntriesOf
<1>4. QED
  BY <1>1, <1>2, <1>3

\* The readers on a stack.
Waiting(files, t) == Len(t) \in Nat /\ \A i \in 1 .. Len(t) : ReaderOf(files, t[i])

\* What is left to the first i readers: the equations of the recursion.
LeftTo(files, t, S, u) ==
  /\ u \in [0 .. Len(t) -> Seq(S)] /\ u[0] = <<>>
  /\ \A i \in 1 .. Len(t) : u[i] = Rest(files, t[i]) \o u[i - 1]

\* Unread is a solution of them.
LEMMA UnreadIs ==
  ASSUME NEW files, Sound(files), NEW t, Waiting(files, t)
  PROVE  \E u : /\ LeftTo(files, t, AllEntries(files), u)
                /\ Unread(files, t) = u[Len(t)]
<1> DEFINE n == Len(t)
           S == AllEntries(files)
           V == Seq(S)
           R(i) == Rest(files, t[i])
           op == [x \in (1 .. n) \X V |-> R(x[1]) \o x[2]]
           Is(f) == f = [i \in 0 .. n |-> IF i = 0 THEN <<>> ELSE R(i) \o f[i - 1]]
<1>1. n \in Nat /\ \A i \in 1 .. n : R(i) \in V
  BY RestIs DEF Waiting
<1>2. <<>> \in V
  OBVIOUS
<1>3. \A i \in 1 .. n, v \in V : R(i) \o v \in V
  BY <1>1, ConcatProperties
<1> HIDE DEF V, R
<1>4. \A i \in 1 .. n, v \in V : op[<<i, v>>] = R(i) \o v
  OBVIOUS
<1>5. op \in [(1 .. n) \X V -> V]
  BY <1>3
<1>6. PICK f : Ascends(V, <<>>, n, op, f)
  <2> HIDE DEF op, n
  <2>1. Steps(V, <<>>, n, op)
    BY <1>1, <1>2, <1>5 DEF Steps
  <2>2. QED
    BY <2>1, Upwards
<1> HIDE DEF op
<1>7. /\ f \in [0 .. n -> V] /\ f[0] = <<>>
      /\ \A i \in 1 .. n : f[i] = op[<<i, f[i - 1]>>]
  BY <1>6 DEF Ascends
<1>8. \A i \in 0 .. n : i # 0 => i \in 1 .. n /\ i - 1 \in 0 .. n
  BY <1>1
<1>9. \A i \in 1 .. n : i \in 0 .. n /\ i # 0 /\ i - 1 \in 0 .. n
  BY <1>1
<1>10. \A i \in 1 .. n : f[i] = R(i) \o f[i - 1]
  BY <1>4, <1>7, <1>9
<1>11. Is(f)
  <2>1. \A i \in 0 .. n : f[i] = IF i = 0 THEN <<>> ELSE R(i) \o f[i - 1]
    BY <1>7, <1>8, <1>10
  <2>2. QED
    BY <1>7, <2>1
<1>12. Unread(files, t) = (CHOOSE g : Is(g))[n]
  BY DEF Unread, R
<1>13. ASSUME NEW g, Is(g) PROVE LeftTo(files, t, S, g)
  <2>1. /\ DOMAIN g = 0 .. n /\ g[0] = <<>>
        /\ \A i \in 1 .. n : g[i] = R(i) \o g[i - 1]
    <3>1. DOMAIN g = 0 .. n
      BY <1>13
    <3>2. \A i \in 0 .. n : g[i] = IF i = 0 THEN <<>> ELSE R(i) \o g[i - 1]
      BY <1>13
    <3>3. 0 \in 0 .. n
      BY <1>1
    <3> HIDE DEF Is
    <3>4. QED
      BY <1>9, <3>1, <3>2, <3>3
  <2> DEFINE T == {k \in Nat : k <= n => g[k] \in V}
  <2>2. 0 \in T
    BY <1>2, <2>1
  <2>3. ASSUME NEW k \in Nat, k \in T PROVE k + 1 \in T
    <3>1. SUFFICES ASSUME k + 1 <= n PROVE g[k + 1] \in V
      OBVIOUS
    <3>2. k + 1 \in 1 .. n /\ (k + 1) - 1 = k /\ k <= n
      BY <1>1, <3>1
    <3>3. g[k + 1] = R(k + 1) \o g[k] /\ g[k] \in V
      BY <2>1, <2>3, <3>2
    <3>4. QED
      BY <1>3, <3>2, <3>3
  <2>4. Nat \subseteq T
    <3> HIDE DEF T
    <3>1. QED
      BY <2>2, <2>3, Induction
  <2>5. g \in [0 .. n -> V]
    <3>1. g = [i \in 0 .. n |-> g[i]]
      BY <1>13
    <3>2. \A i \in 0 .. n : g[i] \in V
      BY <1>1, <2>4
    <3>3. QED
      BY <3>1, <3>2
  <2>6. QED
    BY <2>1, <2>5 DEF LeftTo, V, R
<1>14. QED
  <2> DEFINE g == CHOOSE h : Is(h)
  <2> HIDE DEF Is
  <2>1. Is(g)
    BY <1>11
  <2>2. LeftTo(files, t, S, g)
    BY <1>13, <2>1
  <2>3. QED
    BY <1>12, <2>2

\* The stack t is f with one more reader.
Under(f, t) == Len(t) = Len(f) + 1 /\ \A i \in 1 .. Len(f) : t[i] = f[i]

\* Of the innermost first, then of those that wait for it.
LEMMA UnreadSplit ==
  ASSUME NEW files, Sound(files), NEW t, Waiting(files, t), NEW f,
         Waiting(files, f), Under(f, t)
  PROVE  /\ Unread(files, t) = Rest(files, t[Len(t)]) \o Unread(files, f)
         /\ Unread(files, f) \in Seq(AllEntries(files))
<1> DEFINE n == Len(f)
           S == AllEntries(files)
<1>1. PICK u : LeftTo(files, t, S, u) /\ Unread(files, t) = u[Len(t)]
  BY UnreadIs
<1>2. PICK v : LeftTo(files, f, S, v) /\ Unread(files, f) = v[n]
  BY UnreadIs
<1>3. n \in Nat /\ Len(t) = n + 1 /\ \A i \in 1 .. n : t[i] = f[i]
  BY DEF Waiting, Under
<1> DEFINE T == {k \in Nat : k <= n => u[k] = v[k]}
<1>4. 0 \in T
  BY <1>1, <1>2 DEF LeftTo
<1>5. ASSUME NEW k \in Nat, k \in T PROVE k + 1 \in T
  <2>1. SUFFICES ASSUME k + 1 <= n PROVE u[k + 1] = v[k + 1]
    OBVIOUS
  <2>2. /\ k + 1 \in 1 .. n /\ k + 1 \in 1 .. Len(t) /\ (k + 1) - 1 = k
        /\ k <= n
    BY <1>3, <2>1
  <2>3. u[k + 1] = Rest(files, t[k + 1]) \o u[k]
    BY <1>1, <2>2 DEF LeftTo
  <2>4. v[k + 1] = Rest(files, f[k + 1]) \o v[k]
    BY <1>2, <2>2 DEF LeftTo
  <2>5. QED
    BY <1>3, <1>5, <2>2, <2>3, <2>4
<1>6. Nat \subseteq T
  <2> HIDE DEF T
  <2>1. QED
    BY <1>4, <1>5, Induction
<1>7. u[n] = v[n]
  BY <1>3, <1>6
<1>8. n + 1 \in 1 .. Len(t) /\ (n + 1) - 1 = n
  BY <1>3
<1>9. u[n + 1] = Rest(files, t[n + 1]) \o u[n]
  BY <1>1, <1>8 DEF LeftTo
<1>10. v[n] \in Seq(S)
  BY <1>2, <1>3 DEF LeftTo
<1>11. QED
  BY <1>1, <1>2, <1>3, <1>7, <1>9, <1>10

\* An empty stack has nothing left.
LEMMA UnreadNothing ==
  ASSUME NEW files, Sound(files)
  PROVE  Unread(files, <<>>) = <<>>
<1>1. Waiting(files, <<>>) /\ Len(<<>>) = 0
  BY DEF Waiting
<1>2. PICK u : LeftTo(files, <<>>, AllEntries(files), u) /\ Unread(files, <<>>) = u[0]
  BY <1>1, UnreadIs
<1>3. QED
  BY <1>2 DEF LeftTo

\* What the reader r has left is E and then what q has left.
Takes(files, r, q, E) ==
  E \in Seq(AllEntries(files)) /\ Rest(files, r) = E \o Rest(files, q)

\* The reader q is r behind the line at s.
LEMMA RestStep ==
  ASSUME NEW files, Sound(files), NEW r, ReaderOf(files, r), NEW q,
         ReaderOf(files, q), q.text = r.text, NEW s, NextLine(r.text, r.at, s),
         LineRead(r.text, s, q.at)
  PROVE  Takes(files, r, q, Expansion(Contents(files), EntryAt(r.text, s)))
<1> DEFINE c == Contents(files)
           S == AllEntries(files)
           text == r.text
           after == EntriesFrom(c, text)
           E == Expansion(c, EntryAt(text, s))
<1>1. IsText(text) /\ EntriesOf(c, text, S, after)
  BY RestIs
<1>2. Rest(files, r) = after[r.at] /\ Rest(files, q) = after[q.at]
  BY DEF Rest
<1>3. PICK f \in DOMAIN files : text = files[f]
  BY DEF ReaderOf
<1>4. E \in Seq(S)
  <2> HIDE DEF c, S, E
  <2>1. HasEntries(text, S) /\ ContentsOf(files, c)
    BY <1>3, EntriesThere, SoundIs DEF S, c
  <2>2. Supplies(c, DOMAIN files, text, S)
    BY <2>1 DEF ContentsOf, Supplies, S
  <2>3. StartAt(text, s)
    BY <1>1, NextLineIs DEF StartAt
  <2>4. QED
    BY <2>1, <2>2, <2>3, ExpansionIs DEF E
<1>5. after[r.at] = E \o after[q.at]
  <2>1. NextLine(text, r.at, s) /\ LineRead(text, s, q.at)
    OBVIOUS
  <2> DEFINE at == r.at
             p == q.at
  <2> HIDE DEF after, c, S, text, at, p, E
  <2>2. NextLine(text, at, s) /\ LineRead(text, s, p)
    BY <2>1 DEF at, p
  <2>3. after[at] = Expansion(c, EntryAt(text, s)) \o after[p]
    BY <1>1, <2>2, AfterNext
  <2>4. QED
    BY <2>3 DEF at, p, E
<1> HIDE DEF after, c, S
<1>6. QED
  BY <1>2, <1>4, <1>5 DEF c, S, Takes

\* Two stacks that differ in their innermost readers.
Beside(s, t) ==
  Len(s) # 0 /\ Len(t) = Len(s) /\ \A i \in 1 .. Len(s) - 1 : t[i] = s[i]

\* What is left to both below.
Common(files, s, t, below) ==
  /\ below \in Seq(AllEntries(files))
  /\ Unread(files, s) = Rest(files, s[Len(s)]) \o below
  /\ Unread(files, t) = Rest(files, t[Len(s)]) \o below

\* There is such a rest.
LEMMA UnreadBelow ==
  ASSUME NEW files, Sound(files), NEW s, Waiting(files, s), NEW t,
         Waiting(files, t), Beside(s, t)
  PROVE  \E below : Common(files, s, t, below)
<1> DEFINE n == Len(s)
           f == [i \in 1 .. n - 1 |-> s[i]]
<1>1. /\ n \in Nat /\ n - 1 \in Nat /\ n = (n - 1) + 1 /\ Len(t) = n
      /\ \A i \in 1 .. n - 1 : t[i] = s[i]
  BY DEF Waiting, Beside
<1>2. Len(f) = n - 1
  BY <1>1
<1>3. \A i \in 1 .. n - 1 : f[i] = s[i] /\ i \in 1 .. n
  BY <1>1
<1> HIDE DEF f
<1>4. Waiting(files, f)
  BY <1>1, <1>2, <1>3 DEF Waiting
<1>u. Under(f, s) /\ Under(f, t)
  BY <1>1, <1>2, <1>3 DEF Under
<1>5. /\ Unread(files, s) = Rest(files, s[n]) \o Unread(files, f)
      /\ Unread(files, f) \in Seq(AllEntries(files))
  BY <1>4, <1>u, UnreadSplit
<1>6. Unread(files, t) = Rest(files, t[n]) \o Unread(files, f)
  <2>1. Unread(files, t) = Rest(files, t[Len(t)]) \o Unread(files, f)
    BY <1>4, <1>u, UnreadSplit
  <2>2. QED
    BY <1>1, <2>1
<1>7. Common(files, s, t, Unread(files, f))
  BY <1>5, <1>6 DEF Common
<1>8. QED
  BY <1>7

\* What is left are entries.
LEMMA UnreadIsSeq ==
  ASSUME NEW files, Sound(files), NEW t, Waiting(files, t)
  PROVE  Unread(files, t) \in Seq(AllEntries(files))
<1>1. PICK u : LeftTo(files, t, AllEntries(files), u) /\ Unread(files, t) = u[Len(t)]
  BY UnreadIs
<1>2. Len(t) \in 0 .. Len(t)
  BY DEF Waiting
<1>3. QED
  BY <1>1, <1>2 DEF LeftTo

\* The innermost reader reads a line.
Moves(s, t, text, line) ==
  /\ Beside(s, t) /\ text = s[Len(s)].text /\ t[Len(s)].text = text
  /\ NextLine(text, s[Len(s)].at, line) /\ LineRead(text, line, t[Len(s)].at)

\* What s has left is E and then what t has left.
TakenFrom(files, s, E, t) == Unread(files, s) = E \o Unread(files, t)

\* Then the line is taken from what is left.
LEMMA UnreadMoves ==
  ASSUME NEW files, Sound(files), NEW s, Waiting(files, s), NEW t,
         Waiting(files, t), NEW text, NEW line, Moves(s, t, text, line)
  PROVE  TakenFrom(files, s, Expansion(Contents(files), EntryAt(text, line)), t)
<1> DEFINE n == Len(s)
           S == AllEntries(files)
           E == Expansion(Contents(files), EntryAt(text, line))
           r == s[n]
           q == t[n]
<1>1. n \in 1 .. Len(s) /\ n \in 1 .. Len(t)
  BY DEF Waiting, Beside, Moves
<1>2. ReaderOf(files, r) /\ ReaderOf(files, q)
  BY <1>1 DEF Waiting
<1>3. PICK below \in Seq(S) : /\ Unread(files, s) = Rest(files, r) \o below
                              /\ Unread(files, t) = Rest(files, q) \o below
  <2>1. \E below : Common(files, s, t, below)
    BY UnreadBelow DEF Moves
  <2>2. QED
    BY <2>1 DEF Common
<1>4. E \in Seq(S) /\ Rest(files, r) = E \o Rest(files, q)
  <2> HIDE DEF n, S, E, r, q
  <2>1. q.text = r.text /\ NextLine(r.text, r.at, line) /\ LineRead(r.text, line, q.at)
    BY DEF n, r, q, Moves
  <2>2. r.text = text
    BY DEF r, n, Moves
  <2>3. Takes(files, r, q, Expansion(Contents(files), EntryAt(r.text, line)))
    BY <1>2, <2>1, RestStep
  <2>4. QED
    BY <2>2, <2>3 DEF E, S, Takes
<1>5. Rest(files, q) \in Seq(S)
  BY <1>2, RestIs
<1> HIDE DEF n, S, E, r, q
<1>6. (E \o Rest(files, q)) \o below = E \o (Rest(files, q) \o below)
  BY <1>3, <1>4, <1>5, ConcatAssociative
<1>7. QED
  BY <1>3, <1>4, <1>6 DEF E, TakenFrom

\* What is left are the entries behind the first n.
Left(entries, n, u) ==
  /\ n \in 0 .. Len(entries) /\ Len(u) = Len(entries) - n
  /\ \A i \in 1 .. Len(u) : u[i] = entries[n + i]

\* The number of those that have been read is what Follows counts.
LEMMA LeftIs ==
  ASSUME NEW S, NEW entries \in Seq(S), NEW u \in Seq(S), NEW n
  PROVE  Left(entries, n, u) <=>
           /\ n = Len(entries) - Len(u) /\ Len(u) <= Len(entries)
           /\ u = SubSeq(entries, n + 1, Len(entries))
<1> DEFINE N == Len(entries)
           v == SubSeq(entries, n + 1, N)
<1>1. N \in Nat /\ Len(u) \in Nat /\ \A i \in 1 .. N : entries[i] \in S
  BY LenProperties
<1>2. ASSUME n \in 0 .. N
      PROVE  /\ v \in Seq(S) /\ Len(v) = N - n
             /\ \A i \in 1 .. N - n : v[i] = entries[n + i]
  <2>1. n + 1 \in Int /\ N \in Int /\ \A i \in n + 1 .. N : entries[i] \in S
    BY <1>1, <1>2
  <2>2. /\ v \in Seq(S) /\ Len(v) = IF n + 1 <= N THEN N - (n + 1) + 1 ELSE 0
        /\ \A i \in 1 .. N - (n + 1) + 1 : v[i] = entries[(n + 1) + i - 1]
    <3> HIDE DEF N
    <3>1. QED
      BY <2>1, SubSeqProperties
  <2>3. Len(v) = N - n
    <3> HIDE DEF v
    <3>1. QED
      BY <1>1, <1>2, <2>2
  <2>4. \A i \in 1 .. N - n : i \in 1 .. N - (n + 1) + 1 /\ (n + 1) + i - 1 = n + i
    BY <1>1, <1>2
  <2> HIDE DEF v, N
  <2>5. QED
    BY <2>2, <2>3, <2>4
<1> HIDE DEF v
<1>3. ASSUME Left(entries, n, u)
      PROVE  n = N - Len(u) /\ Len(u) <= N /\ u = v
  <2>1. n \in 0 .. N /\ Len(u) = N - n /\ \A i \in 1 .. Len(u) : u[i] = entries[n + i]
    BY <1>3 DEF Left
  <2> HIDE DEF N
  <2>2. n = N - Len(u) /\ Len(u) <= N
    BY <1>1, <2>1
  <2>3. Len(u) = Len(v) /\ \A i \in 1 .. Len(u) : u[i] = v[i]
    BY <1>2, <2>1
  <2>4. u = v
    BY <1>2, <2>1, <2>3, SeqEqual
  <2>5. QED
    BY <2>2, <2>4
<1>4. ASSUME n = N - Len(u), Len(u) <= N, u = v
      PROVE  Left(entries, n, u)
  <2>1. n \in 0 .. N
    BY <1>1, <1>4
  <2>2. QED
    BY <1>2, <1>4, <2>1 DEF Left
<1>5. QED
  BY <1>3, <1>4 DEF v

\* The entry behind the first n is e, and behind it v is left.
EntryNext(entries, n, e, v) ==
  /\ Left(entries, n + 1, v) /\ n + 1 \in 1 .. Len(entries) /\ n \in Nat
  /\ entries[n + 1] = e

\* The first of what is left is the next entry.
LEMMA LeftStep ==
  ASSUME NEW S, NEW entries \in Seq(S), NEW v \in Seq(S), NEW e \in S, NEW n,
         NEW u, Left(entries, n, u), u = <<e>> \o v
  PROVE  EntryNext(entries, n, e, v)
<1> DEFINE N == Len(entries)
<1>1. N \in Nat /\ Len(v) \in Nat
  BY LenProperties
<1>2. Len(u) = Len(v) + 1 /\ u[1] = e /\ \A i \in 1 .. Len(v) : u[i + 1] = v[i]
  <2>1. <<e>> \in Seq(S) /\ Len(<<e>>) = 1 /\ <<e>>[1] = e
    OBVIOUS
  <2>2. QED
    BY <1>1, <2>1
<1>3. /\ n \in 0 .. N /\ Len(u) = N - n
      /\ \A i \in 1 .. Len(u) : u[i] = entries[n + i]
  BY DEF Left
<1> HIDE DEF N
<1>4. n \in Nat /\ n + 1 \in 1 .. N /\ n + 1 \in 0 .. N /\ Len(v) = N - (n + 1)
  <2>1. Len(v) + 1 = N - n
    BY <1>2, <1>3
  <2>2. N \in Nat /\ Len(v) \in Nat /\ n \in 0 .. N
    BY <1>1, <1>3
  <2>3. QED
    BY <2>1, <2>2
<1>5. entries[n + 1] = e
  <2>1. 1 \in 1 .. Len(u)
    BY <1>1, <1>2
  <2>2. QED
    BY <1>2, <1>3, <2>1
<1>6. ASSUME NEW i \in 1 .. Len(v) PROVE v[i] = entries[(n + 1) + i]
  <2>1. i + 1 \in 1 .. Len(u) /\ n + (i + 1) = (n + 1) + i
    <3>1. Len(u) = Len(v) + 1 /\ Len(v) \in Nat /\ n \in Nat
      BY <1>1, <1>2, <1>4
    <3>2. i + 1 \in 1 .. Len(v) + 1 /\ n + (i + 1) = (n + 1) + i
      BY <3>1
    <3>3. QED
      BY <3>1, <3>2
  <2>2. QED
    BY <1>2, <1>3, <2>1
<1>7. QED
  BY <1>4, <1>5, <1>6 DEF Left, N, EntryNext

-----------------------------------------------------------------------------
(* Sections.                                                               *)

\* A member that none exceeds is the greatest.
LEMMA GreatestIs ==
  ASSUME NEW S, S \subseteq Nat, NEW m \in S, \A i \in S : i <= m
  PROVE  Max(S) = m
<1>1. Max(S) \in S /\ \A i \in S : Max(S) >= i
  BY DEF Max
<1>2. Max(S) >= m /\ Max(S) <= m /\ Max(S) \in Nat
  BY <1>1
<1>3. QED
  BY <1>2

\* h is the place of the last header of the first n entries; 0 if there is none.
LastHeader(entries, n, h) ==
  \/ h = 0 /\ \A j \in 1 .. n : entries[j].key # "["
  \/ /\ h \in 1 .. n /\ entries[h].key = "["
     /\ \A j \in h + 1 .. n : entries[j].key # "["

\* HeaderOf finds that place.
LEMMA HeaderIs ==
  ASSUME NEW entries, NEW n \in Nat, NEW h, LastHeader(entries, n, h)
  PROVE  HeaderOf(entries, n) = h
<1> DEFINE H == {j \in 1 .. n : entries[j].key = "["}
<1>1. HeaderOf(entries, n) = IF H = {} THEN 0 ELSE Max(H)
  BY DEF HeaderOf
<1>2. CASE h = 0 /\ \A j \in 1 .. n : entries[j].key # "["
  BY <1>1, <1>2
<1>3. CASE h \in 1 .. n /\ entries[h].key = "[" /\
           \A j \in h + 1 .. n : entries[j].key # "["
  <2>1. h \in H /\ H \subseteq Nat
    BY <1>3
  <2>2. \A i \in H : i <= h
    <3>1. SUFFICES ASSUME NEW i \in H, ~(i <= h) PROVE FALSE
      OBVIOUS
    <3>2. i \in h + 1 .. n
      BY <1>3, <3>1
    <3>3. QED
      BY <1>3, <3>2
  <2> HIDE DEF H
  <2>3. Max(H) = h
    BY <2>1, <2>2, GreatestIs
  <2>4. QED
    BY <1>1, <2>1, <2>3
<1>4. QED
  BY <1>2, <1>3 DEF LastHeader

\* There is such a place for any number of entries.
LEMMA HeaderThere ==
  ASSUME NEW entries, NEW n \in Nat
  PROVE  LastHeader(entries, n, HeaderOf(entries, n))
<1> DEFINE T == {k \in Nat : \E h : LastHeader(entries, k, h)}
<1>1. 0 \in T
  <2>1. LastHeader(entries, 0, 0)
    BY DEF LastHeader
  <2>2. QED
    BY <2>1
<1>2. ASSUME NEW k \in Nat, k \in T PROVE k + 1 \in T
  <2>1. PICK h : LastHeader(entries, k, h)
    BY <1>2
  <2>2. CASE entries[k + 1].key = "["
    <3>1. LastHeader(entries, k + 1, k + 1)
      BY <2>2 DEF LastHeader
    <3>2. QED
      BY <3>1
  <2>3. CASE entries[k + 1].key # "["
    <3>1. \A j \in 1 .. k + 1 : j = k + 1 \/ j \in 1 .. k
      OBVIOUS
    <3>2. \A i \in 1 .. k : i \in 1 .. k + 1 /\
            \A j \in i + 1 .. k + 1 : j = k + 1 \/ j \in i + 1 .. k
      OBVIOUS
    <3>3. LastHeader(entries, k + 1, h)
      BY <2>1, <2>3, <3>1, <3>2 DEF LastHeader
    <3>4. QED
      BY <3>3
  <2>4. QED
    BY <2>2, <2>3
<1>3. Nat \subseteq T
  <2> HIDE DEF T
  <2>1. QED
    BY <1>1, <1>2, Induction
<1>4. PICK h : LastHeader(entries, n, h)
  BY <1>3
<1>5. QED
  BY <1>4, HeaderIs

\* The header of the next entry, and of those of a section.
LEMMA HeaderNext ==
  ASSUME NEW entries, NEW n \in Nat
  PROVE  /\ entries[n + 1].key = "[" => HeaderOf(entries, n + 1) = n + 1
         /\ entries[n + 1].key # "[" =>
              HeaderOf(entries, n + 1) = HeaderOf(entries, n)
<1> DEFINE h == HeaderOf(entries, n)
<1>1. LastHeader(entries, n, h)
  BY HeaderThere
<1> HIDE DEF h
<1>2. ASSUME entries[n + 1].key = "[" PROVE LastHeader(entries, n + 1, n + 1)
  BY <1>2 DEF LastHeader
<1>3. ASSUME entries[n + 1].key # "[" PROVE LastHeader(entries, n + 1, h)
  <2>1. \A j \in 1 .. n + 1 : j = n + 1 \/ j \in 1 .. n
    OBVIOUS
  <2>2. \A i \in 1 .. n : i \in 1 .. n + 1 /\
          \A j \in i + 1 .. n + 1 : j = n + 1 \/ j \in i + 1 .. n
    OBVIOUS
  <2>3. QED
    BY <1>1, <1>3, <2>1, <2>2 DEF LastHeader
<1>4. n + 1 \in Nat
  OBVIOUS
<1>5. QED
  BY <1>2, <1>3, <1>4, HeaderIs DEF h

\* The entries from the header of a section on have that header.
LEMMA HeaderInside ==
  ASSUME NEW entries, NEW n \in Nat, HeaderOf(entries, n) # 0
  PROVE  LET h == HeaderOf(entries, n)
         IN /\ h \in 1 .. n /\ h - 1 \in Nat
            /\ \A i \in h .. n : HeaderOf(entries, i) = h
<1> DEFINE h == HeaderOf(entries, n)
<1>1. LastHeader(entries, n, h)
  BY HeaderThere
<1>2. h # 0
  OBVIOUS
<1> HIDE DEF h
<1>3. /\ h \in 1 .. n /\ entries[h].key = "["
      /\ \A j \in h + 1 .. n : entries[j].key # "["
  BY <1>1, <1>2 DEF LastHeader
<1>4. ASSUME NEW i \in h .. n PROVE HeaderOf(entries, i) = h
  <2>1. i \in Nat /\ h \in 1 .. i
    BY <1>3
  <2>2. \A j \in h + 1 .. i : j \in h + 1 .. n
    BY <1>3
  <2>3. LastHeader(entries, i, h)
    BY <1>3, <2>1, <2>2 DEF LastHeader
  <2>4. QED
    BY <2>1, <2>3, HeaderIs
<1>5. h - 1 \in Nat
  BY <1>3
<1>6. QED
  BY <1>3, <1>4, <1>5 DEF h

\* Of the first n entries apply those before the last section, and all of the
\* section if it matches.
LEMMA SectionApplies ==
  ASSUME NEW entries, NEW n \in Nat, HeaderOf(entries, n) # 0
  PROVE  LET h == HeaderOf(entries, n)
         IN Applying(entries, n) =
              Applying(entries, h - 1) \cup
                (IF entries[h].value \in Matching THEN h .. n ELSE {})
<1> DEFINE h == HeaderOf(entries, n)
<1>1. /\ h \in 1 .. n /\ h - 1 \in Nat /\ h # 0
      /\ \A i \in h .. n : HeaderOf(entries, i) = h
  BY HeaderInside
<1> HIDE DEF h
<1>2. \A i \in h .. n : Applies(entries, i) <=> entries[h].value \in Matching
  BY <1>1 DEF Applies
<1>3. \A i : i \in 1 .. n <=> i \in 1 .. h - 1 \/ i \in h .. n
  BY <1>1
<1>4. Applying(entries, n) =
        Applying(entries, h - 1) \cup
          (IF entries[h].value \in Matching THEN h .. n ELSE {})
  BY <1>2, <1>3 DEF Applying
<1>5. QED
  BY <1>4 DEF h

-----------------------------------------------------------------------------
(* What the settings mean.                                                 *)

\* The entry behind the first n comes to some places among them.
Later(entries, P, n) ==
  /\ n \in Nat /\ P \subseteq 1 .. n /\ Len(entries) \in Nat
  /\ n + 1 \in 1 .. Len(entries)

\* The last entry for a setting is the next one if that is for it.
LEMMA LastOfStep ==
  ASSUME NEW entries, NEW P, NEW n, Later(entries, P, n), NEW key, NEW default
  PROVE  LastOf(entries, P \cup {n + 1}, key, default) =
           IF entries[n + 1].key = key THEN entries[n + 1].value
           ELSE LastOf(entries, P, key, default)
<1> DEFINE G == Given(entries, P, key)
           G2 == Given(entries, P \cup {n + 1}, key)
<1>1. G2 = IF entries[n + 1].key = key THEN G \cup {n + 1} ELSE G
  BY DEF Given
<1>2. n \in Nat /\ G \subseteq 1 .. n
  BY DEF Given, Later
<1>3. CASE entries[n + 1].key = key
  <2>1. G2 = G \cup {n + 1}
    BY <1>1, <1>3
  <2> HIDE DEF G, G2
  <2>2. G2 \subseteq Nat /\ n + 1 \in G2 /\ \A i \in G2 : i <= n + 1
    BY <1>2, <2>1
  <2>3. Max(G2) = n + 1
    BY <2>2, GreatestIs
  <2>4. G2 # {}
    BY <2>2
  <2>5. QED
    BY <1>3, <2>3, <2>4 DEF LastOf, G2
<1>4. CASE entries[n + 1].key # key
  BY <1>1, <1>4 DEF LastOf
<1>5. QED
  BY <1>3, <1>4

\* The lists of "add": the equations of the recursion.
AddsUp(entries, P, key, a) ==
  /\ a[0] = <<>>
  /\ \A i \in 1 .. Len(entries) :
       a[i] = IF i \notin Given(entries, P, key) THEN a[i - 1]
              ELSE IF entries[i].value = {} THEN <<>>
              ELSE <<CHOOSE x \in entries[i].value : TRUE>> \o a[i - 1]

\* Added is a solution of them.
LEMMA AddedIs ==
  ASSUME NEW entries, Len(entries) \in Nat, NEW P, NEW key
  PROVE  \E a : /\ AddsUp(entries, P, key, a)
                /\ Added(entries, P, key) = a[Len(entries)]
<1> DEFINE N == Len(entries)
           G == Given(entries, P, key)
           first(i) == CHOOSE x \in entries[i].value : TRUE
           X == {first(i) : i \in 1 .. N}
           V == Seq(X)
           op == [x \in (1 .. N) \X V |->
                    IF x[1] \notin G THEN x[2]
                    ELSE IF entries[x[1]].value = {} THEN <<>>
                    ELSE <<first(x[1])>> \o x[2]]
           Is(f) == f = [i \in 0 .. N |->
                           IF i = 0 THEN <<>>
                           ELSE IF i \notin G THEN f[i - 1]
                           ELSE IF entries[i].value = {} THEN <<>>
                           ELSE <<first(i)>> \o f[i - 1]]
<1>1. N \in Nat
  OBVIOUS
<1>2. <<>> \in V
  OBVIOUS
<1>3. ASSUME NEW i \in 1 .. N, NEW v \in V PROVE <<first(i)>> \o v \in V
  <2>1. first(i) \in X
    OBVIOUS
  <2> HIDE DEF X, first
  <2>2. <<first(i)>> \in V
    BY <2>1
  <2>3. QED
    BY <2>2, ConcatProperties
<1> HIDE DEF X, V, first, G, N
<1>4. \A i \in 1 .. N, v \in V :
        op[<<i, v>>] = IF i \notin G THEN v
                       ELSE IF entries[i].value = {} THEN <<>>
                       ELSE <<first(i)>> \o v
  OBVIOUS
<1>5. op \in [(1 .. N) \X V -> V]
  BY <1>2, <1>3
<1>6. PICK f : Ascends(V, <<>>, N, op, f)
  <2> HIDE DEF op
  <2>1. Steps(V, <<>>, N, op)
    BY <1>1, <1>2, <1>5 DEF Steps
  <2>2. QED
    BY <2>1, Upwards
<1> HIDE DEF op
<1>7. /\ f \in [0 .. N -> V] /\ f[0] = <<>>
      /\ \A i \in 1 .. N : f[i] = op[<<i, f[i - 1]>>]
  BY <1>6 DEF Ascends
<1>8. \A i \in 0 .. N : i # 0 => i \in 1 .. N /\ i - 1 \in 0 .. N
  BY <1>1
<1>9. \A i \in 1 .. N : i \in 0 .. N /\ i # 0 /\ i - 1 \in 0 .. N
  BY <1>1
<1>10. Is(f)
  <2>1. \A i \in 0 .. N : f[i] = IF i = 0 THEN <<>>
                                 ELSE IF i \notin G THEN f[i - 1]
                                 ELSE IF entries[i].value = {} THEN <<>>
                                 ELSE <<first(i)>> \o f[i - 1]
    BY <1>4, <1>7, <1>8
  <2>2. QED
    BY <1>7, <2>1
<1> DEFINE a == CHOOSE g : Is(g)
<1>11. Added(entries, P, key) = a[N]
  BY DEF Added, first, G, N
<1>12. Is(a)
  <2> HIDE DEF Is
  <2>1. QED
    BY <1>10
<1> HIDE DEF a
<1>13. AddsUp(entries, P, key, a)
  <2>1. \A i \in 0 .. N : a[i] = IF i = 0 THEN <<>>
                                 ELSE IF i \notin G THEN a[i - 1]
                                 ELSE IF entries[i].value = {} THEN <<>>
                                 ELSE <<first(i)>> \o a[i - 1]
    BY <1>12
  <2>2. 0 \in 0 .. N
    BY <1>1
  <2> HIDE DEF Is
  <2>3. a[0] = <<>>
    BY <2>1, <2>2
  <2>4. \A i \in 1 .. N : a[i] = IF i \notin G THEN a[i - 1]
                                 ELSE IF entries[i].value = {} THEN <<>>
                                 ELSE <<first(i)>> \o a[i - 1]
    BY <1>9, <2>1
  <2>5. QED
    BY <2>3, <2>4 DEF AddsUp, first, G, N
<1>14. QED
  BY <1>11, <1>13 DEF N

\* What is added by the entries before a place, and none behind it.
LEMMA AddedUpto ==
  ASSUME NEW entries, Len(entries) \in Nat, NEW P, NEW key,
         NEW m \in 0 .. Len(entries), P \subseteq 1 .. m, NEW a,
         AddsUp(entries, P, key, a)
  PROVE  a[Len(entries)] = a[m]
<1> DEFINE N == Len(entries)
           T == {k \in Nat : m + k <= N => a[m + k] = a[m]}
<1>1. 0 \in T
  OBVIOUS
<1>2. ASSUME NEW k \in Nat, k \in T PROVE k + 1 \in T
  <2>1. SUFFICES ASSUME m + (k + 1) <= N PROVE a[m + (k + 1)] = a[m]
    OBVIOUS
  <2> DEFINE i == m + (k + 1)
  <2>2. i \in 1 .. N /\ i - 1 = m + k /\ m + k <= N /\ i \notin 1 .. m
    BY <2>1
  <2> HIDE DEF i
  <2>3. i \notin Given(entries, P, key)
    BY <2>2 DEF Given
  <2>4. a[i] = a[i - 1]
    BY <2>2, <2>3 DEF AddsUp
  <2>5. a[m + k] = a[m]
    BY <1>2, <2>2
  <2>6. QED
    BY <2>2, <2>4, <2>5 DEF i
<1>3. Nat \subseteq T
  <2> HIDE DEF T
  <2>1. QED
    BY <1>1, <1>2, Induction
<1>4. N - m \in Nat /\ m + (N - m) = N
  OBVIOUS
<1>5. QED
  BY <1>3, <1>4

\* An entry of "add" puts its value before the others, or removes them.
Adds(entry, list) ==
  IF entry.value = {} THEN <<>>
  ELSE <<CHOOSE x \in entry.value : TRUE>> \o list

\* The next entry of "add".
LEMMA AddedStep ==
  ASSUME NEW entries, NEW P, NEW n, Later(entries, P, n), NEW key
  PROVE  Added(entries, P \cup {n + 1}, key) =
           IF entries[n + 1].key = key
             THEN Adds(entries[n + 1], Added(entries, P, key))
             ELSE Added(entries, P, key)
<1> DEFINE N == Len(entries)
           Q == P \cup {n + 1}
           value == entries[n + 1].value
           G == Given(entries, P, key)
           H == Given(entries, Q, key)
<1>1. /\ n \in Nat /\ P \subseteq 1 .. n /\ N \in Nat /\ n + 1 \in 1 .. N
      /\ n \in 0 .. N /\ n + 1 \in 0 .. N /\ Q \subseteq 1 .. n + 1
  BY DEF Later
<1>2. PICK a : AddsUp(entries, P, key, a) /\ Added(entries, P, key) = a[N]
  BY <1>1, AddedIs
<1>3. PICK b : AddsUp(entries, Q, key, b) /\ Added(entries, Q, key) = b[N]
  BY <1>1, AddedIs
<1>4. a[N] = a[n] /\ b[N] = b[n + 1]
  <2> HIDE DEF Q
  <2>1. QED
    BY <1>1, <1>2, <1>3, AddedUpto
<1>5. \A i \in 1 .. n : i \in H <=> i \in G
  <2>1. \A i \in 1 .. n : i # n + 1
    BY <1>1
  <2>2. QED
    BY <2>1 DEF Given
<1>6. n + 1 \in H <=> entries[n + 1].key = key
  BY DEF Given
<1> HIDE DEF Q, G, H
<1> DEFINE T == {k \in Nat : k <= n => a[k] = b[k]}
<1>7. 0 \in T
  BY <1>2, <1>3 DEF AddsUp
<1>8. ASSUME NEW k \in Nat, k \in T PROVE k + 1 \in T
  <2>1. SUFFICES ASSUME k + 1 <= n PROVE a[k + 1] = b[k + 1]
    OBVIOUS
  <2> DEFINE i == k + 1
  <2>2. i \in 1 .. n /\ i \in 1 .. N /\ i - 1 = k /\ k <= n
    BY <1>1, <2>1
  <2> HIDE DEF i
  <2>3. a[i - 1] = b[i - 1]
    BY <1>8, <2>2
  <2>4. a[i] = IF i \notin G THEN a[i - 1]
               ELSE IF entries[i].value = {} THEN <<>>
               ELSE <<CHOOSE x \in entries[i].value : TRUE>> \o a[i - 1]
    BY <1>2, <2>2 DEF AddsUp, G
  <2>5. b[i] = IF i \notin H THEN b[i - 1]
               ELSE IF entries[i].value = {} THEN <<>>
               ELSE <<CHOOSE x \in entries[i].value : TRUE>> \o b[i - 1]
    BY <1>3, <2>2 DEF AddsUp, H
  <2>6. i \in H <=> i \in G
    BY <1>5, <2>2
  <2>7. a[i] = b[i]
    BY <2>3, <2>4, <2>5, <2>6
  <2>8. QED
    BY <2>7 DEF i
<1>9. a[n] = b[n]
  <2>1. Nat \subseteq T
    <3> HIDE DEF T
    <3>1. QED
      BY <1>7, <1>8, Induction
  <2>2. QED
    BY <1>1, <2>1
<1>10. b[n + 1] = IF n + 1 \notin H THEN b[n]
                  ELSE IF value = {} THEN <<>>
                  ELSE <<CHOOSE x \in value : TRUE>> \o b[n]
  <2>1. (n + 1) - 1 = n
    BY <1>1
  <2>2. QED
    BY <1>1, <1>3, <2>1 DEF AddsUp, H
<1>11. QED
  BY <1>2, <1>3, <1>4, <1>6, <1>9, <1>10 DEF Q, Adds

\* Setting by setting.
Lasts(entries, P, s) ==
  LET last(key, default) == LastOf(entries, P, key, default)
  IN /\ s.verbose = (Given(entries, P, "verbose") # {})
     /\ s.nice = last("nice", 10) /\ s.cpus = last("cpus", 1)
     /\ s.no_parallel = last("no-parallel", {})
     /\ s.names = [n \in Names |-> last(n, {})]
     /\ s.distcc_hosts = last("distcc-hosts", {})
     /\ s.distcplusplus_hosts =
          IF Given(entries, P, "distc++-hosts") # {}
            THEN last("distc++-hosts", {}) ELSE last("distcc-hosts", {})
     /\ s.make_add = Added(entries, P, "make_add")
     /\ s.env_add = Added(entries, P, "env_add")
     /\ s.lock_file = last("lock-file", {})
     /\ resolve_path(s.ccache, "ccache") = resolve_path(last("ccache", {}), "ccache")
     /\ resolve_path(s.distcc, "distcc") = resolve_path(last("distcc", {}), "distcc")
     /\ s.distcplusplus_hosts_set <=> Given(entries, P, "distc++-hosts") # {}

\* Means is that, with the record of MeaningOf taken apart.
LEMMA MeansIs ==
  ASSUME NEW entries, NEW P, NEW s
  PROVE  Means(entries, P, s) <=> Lasts(entries, P, s)
<1> DEFINE m == MeaningOf(entries, P)
<1>1. DOMAIN m = {"verbose", "nice", "cpus", "no_parallel", "names", "ccache",
                  "distcc", "distcc_hosts", "distcplusplus_hosts", "make_add",
                  "env_add", "lock_file"}
  BY DEF MeaningOf
<1>2. DOMAIN m \ Tools =
        {"verbose", "nice", "cpus", "no_parallel", "names", "distcc_hosts",
         "distcplusplus_hosts", "make_add", "env_add", "lock_file"}
  BY <1>1 DEF Tools
<1>3. Lasts(entries, P, s) <=>
        /\ s.verbose = m.verbose /\ s.nice = m.nice /\ s.cpus = m.cpus
        /\ s.no_parallel = m.no_parallel /\ s.names = m.names
        /\ s.distcc_hosts = m.distcc_hosts
        /\ s.distcplusplus_hosts = m.distcplusplus_hosts
        /\ s.make_add = m.make_add /\ s.env_add = m.env_add
        /\ s.lock_file = m.lock_file
        /\ resolve_path(s.ccache, "ccache") = m.ccache
        /\ resolve_path(s.distcc, "distcc") = m.distcc
        /\ s.distcplusplus_hosts_set <=> Given(entries, P, "distc++-hosts") # {}
  BY DEF Lasts, MeaningOf
<1> HIDE DEF m
<1>4. Means(entries, P, s) <=>
        /\ \A key \in DOMAIN m \ Tools : s[key] = m[key]
        /\ \A tool \in Tools : resolve_path(s[tool], tool) = m[tool]
        /\ s.distcplusplus_hosts_set <=>
             Given(entries, P, "distc++-hosts") # {}
  BY DEF Means, m
<1>5. (\A tool \in Tools : resolve_path(s[tool], tool) = m[tool]) <=>
        /\ resolve_path(s.ccache, "ccache") = m.ccache
        /\ resolve_path(s.distcc, "distcc") = m.distcc
  BY DEF Tools
<1>6. (\A key \in DOMAIN m \ Tools : s[key] = m[key]) <=>
        /\ s.verbose = m.verbose /\ s.nice = m.nice /\ s.cpus = m.cpus
        /\ s.no_parallel = m.no_parallel /\ s.names = m.names
        /\ s.distcc_hosts = m.distcc_hosts
        /\ s.distcplusplus_hosts = m.distcplusplus_hosts
        /\ s.make_add = m.make_add /\ s.env_add = m.env_add
        /\ s.lock_file = m.lock_file
  BY <1>2
<1>7. QED
  BY <1>3, <1>4, <1>5, <1>6

-----------------------------------------------------------------------------
(* What an entry does to the settings.                                    *)

\* From s to t, setting by setting.
Applied(s, e, t) ==
  /\ t.verbose = (s.verbose \/ e.key = "verbose")
  /\ t.nice = IF e.key = "nice" THEN e.value ELSE s.nice
  /\ t.cpus = IF e.key = "cpus" THEN e.value ELSE s.cpus
  /\ t.no_parallel = IF e.key = "no-parallel" THEN e.value ELSE s.no_parallel
  /\ t.names = [n \in Names |-> IF e.key = n THEN e.value ELSE s.names[n]]
  /\ t.ccache = IF e.key = "ccache" THEN e.value ELSE s.ccache
  /\ t.distcc = IF e.key = "distcc" THEN e.value ELSE s.distcc
  /\ t.distcc_hosts = IF e.key = "distcc-hosts" THEN e.value ELSE s.distcc_hosts
  /\ t.distcplusplus_hosts_set <=>
       s.distcplusplus_hosts_set \/ e.key = "distc++-hosts"
  /\ t.distcplusplus_hosts =
       IF \/ e.key = "distc++-hosts"
          \/ e.key = "distcc-hosts" /\ ~s.distcplusplus_hosts_set
       THEN e.value ELSE s.distcplusplus_hosts
  /\ t.make_add = IF e.key = "make_add" THEN Adds(e, s.make_add) ELSE s.make_add
  /\ t.env_add = IF e.key = "env_add" THEN Adds(e, s.env_add) ELSE s.env_add
  /\ t.lock_file = IF e.key = "lock-file" THEN e.value ELSE s.lock_file

\* So the settings mean one entry more.
LEMMA MeansStep ==
  ASSUME NEW entries, NEW P, NEW n, Later(entries, P, n), NEW s, NEW t,
         Means(entries, P, s), NEW e, e = entries[n + 1], Applied(s, e, t)
  PROVE  Means(entries, P \cup {n + 1}, t)
<1> DEFINE Q == P \cup {n + 1}
           last(key, default) == LastOf(entries, P, key, default)
           next(key, default) == LastOf(entries, Q, key, default)
<1>1. Lasts(entries, P, s)
  BY MeansIs
<1>2. \A key, default :
        next(key, default) = IF e.key = key THEN e.value ELSE last(key, default)
  BY LastOfStep
<1>3. \A key : Given(entries, Q, key) # {} <=>
                 Given(entries, P, key) # {} \/ e.key = key
  BY DEF Given
<1>4. \A key : Added(entries, Q, key) =
                 IF e.key = key THEN Adds(e, Added(entries, P, key))
                 ELSE Added(entries, P, key)
  <2>1. SUFFICES ASSUME NEW key
                 PROVE  Added(entries, Q, key) =
                          IF e.key = key THEN Adds(e, Added(entries, P, key))
                          ELSE Added(entries, P, key)
    OBVIOUS
  <2>2. QED
    BY AddedStep
<1> HIDE DEF Q
<1>5. t.verbose = (Given(entries, Q, "verbose") # {})
  <2>1. s.verbose = (Given(entries, P, "verbose") # {})
    BY <1>1 DEF Lasts
  <2>2. t.verbose = (s.verbose \/ e.key = "verbose")
    BY DEF Applied
  <2>3. QED
    BY <1>3, <2>1, <2>2
<1>6. t.nice = next("nice", 10) /\ t.cpus = next("cpus", 1)
  BY <1>1, <1>2 DEF Lasts, Applied
<1>7. t.no_parallel = next("no-parallel", {}) /\ t.lock_file = next("lock-file", {})
  BY <1>1, <1>2 DEF Lasts, Applied
<1>8. t.names = [k \in Names |-> next(k, {})]
  <2>1. s.names = [k \in Names |-> last(k, {})]
    BY <1>1 DEF Lasts
  <2>2. t.names = [k \in Names |-> IF e.key = k THEN e.value ELSE s.names[k]]
    BY DEF Applied
  <2>3. \A k \in Names : (IF e.key = k THEN e.value ELSE s.names[k]) = next(k, {})
    BY <1>2, <2>1
  <2> HIDE DEF next
  <2>4. QED
    BY <2>2, <2>3
<1>9. t.distcc_hosts = next("distcc-hosts", {})
  BY <1>1, <1>2 DEF Lasts, Applied
<1>10. t.distcplusplus_hosts_set <=> Given(entries, Q, "distc++-hosts") # {}
  BY <1>1, <1>3 DEF Lasts, Applied
<1>11. t.distcplusplus_hosts =
         IF Given(entries, Q, "distc++-hosts") # {}
           THEN next("distc++-hosts", {}) ELSE next("distcc-hosts", {})
  <2>1. s.distcplusplus_hosts =
          IF Given(entries, P, "distc++-hosts") # {}
            THEN last("distc++-hosts", {}) ELSE last("distcc-hosts", {})
    BY <1>1 DEF Lasts
  <2>2. t.distcplusplus_hosts =
          IF \/ e.key = "distc++-hosts"
             \/ e.key = "distcc-hosts" /\ ~s.distcplusplus_hosts_set
          THEN e.value ELSE s.distcplusplus_hosts
    BY DEF Applied
  <2>3. s.distcplusplus_hosts_set <=> Given(entries, P, "distc++-hosts") # {}
    BY <1>1 DEF Lasts
  <2>4. QED
    BY <1>2, <1>3, <2>1, <2>2, <2>3
<1>12. t.make_add = Added(entries, Q, "make_add")
  BY <1>1, <1>4 DEF Lasts, Applied
<1>13. t.env_add = Added(entries, Q, "env_add")
  BY <1>1, <1>4 DEF Lasts, Applied
<1>14. resolve_path(t.ccache, "ccache") = resolve_path(next("ccache", {}), "ccache")
  BY <1>1, <1>2 DEF Lasts, Applied
<1>15. resolve_path(t.distcc, "distcc") = resolve_path(next("distcc", {}), "distcc")
  BY <1>1, <1>2 DEF Lasts, Applied
<1>16. Lasts(entries, Q, t)
  BY <1>5, <1>6, <1>7, <1>8, <1>9, <1>10, <1>11, <1>12, <1>13, <1>14, <1>15 DEF Lasts
<1>17. QED
  BY <1>16, MeansIs DEF Q

\* An entry without a setting does nothing to them.
Settable == Names \cup Tools \cup Hosts \cup
  {"verbose", "nice", "cpus", "no-parallel", "make_add", "env_add", "lock-file"}

\* The settings but the name and the lock that is open.
Alike(s, t) ==
  \A f \in {"verbose", "nice", "cpus", "no_parallel", "names", "ccache", "distcc",
            "distcc_hosts", "distcplusplus_hosts_set", "distcplusplus_hosts",
            "make_add", "env_add", "lock_file"} : t[f] = s[f]

-----------------------------------------------------------------------------
(* The invariant, of any stack and settings.                               *)
InOf(t) == IF t = <<>> THEN "file" ELSE t[Len(t)].in

\* All readers are in place.
AllInPlace(files, t) == \A i \in 1 .. Len(t) : InPlace(files, t[i])

\* The first n entries are not wrong, and in sections.
Right(entries, n) ==
  \A i \in 1 .. n : entries[i].key # "wrong" /\ HeaderOf(entries, i) # 0

\* Collected (ConfigReading), of any settings.
Gathered(entries, n, in, res, sc) ==
  LET h == HeaderOf(entries, n)
  IN IF in = "file" THEN Means(entries, Applying(entries, n), res)
     ELSE /\ h # 0 /\ sc.name = {entries[h].value} /\ "" \notin sc.name
          /\ Means(entries, Applying(entries, h - 1), res)
          /\ Means(entries, Applying(entries, h - 1) \cup h .. n, sc)

\* The body of Follows, with n entries read.
Follow(files, t, res, sc, n) ==
  /\ AllInPlace(files, t)
  /\ Left(Inserted(files), n, Unread(files, t))
  /\ Right(Inserted(files), n)
  /\ Gathered(Inserted(files), n, InOf(t), res, sc)

\* Readers that are in place read files of the disk.
LEMMA WaitingIs ==
  ASSUME NEW files, NEW t, Readers(t), AllInPlace(files, t)
  PROVE  Waiting(files, t)
<1>1. Len(t) \in Nat
  BY DEF Readers
<1>2. ASSUME NEW i \in 1 .. Len(t) PROVE ReaderOf(files, t[i])
  <2>1. ReaderAt(t, i) /\ InPlace(files, t[i])
    BY DEF Readers, AllInPlace
  <2>2. QED
    BY <2>1 DEF ReaderAt, InPlace, ReaderOf
<1>3. QED
  BY <1>1, <1>2 DEF Waiting

\* What the files say are entries.
LEMMA InsertedIs ==
  ASSUME NEW files, Sound(files)
  PROVE  /\ Inserted(files) \in Seq(AllEntries(files))
         /\ Len(Inserted(files)) \in Nat
<1>1. Inserted(files) \in Seq(AllEntries(files))
  <2>1. ContentsOf(files, Contents(files)) /\ Config \in DOMAIN files
    BY SoundIs DEF Sound
  <2>2. QED
    BY <2>1 DEF ContentsOf, Inserted
<1>2. QED
  BY <1>1

\* The lines of a reader have entries of the files.
LEMMA EntryThere ==
  ASSUME NEW files, NEW r, ReaderOf(files, r), NEW p \in Starts(r.text)
  PROVE  EntryAt(r.text, p) \in AllEntries(files)
BY DEF ReaderOf, AllEntries

\* A reader that has read a line is in place behind it.
LEMMA InPlaceBehind ==
  ASSUME NEW files, NEW r, InPlace(files, r), NEW text, text = r.text,
         IsText(text), NEW s \in Starts(text), NEW q, q.text = text,
         LineRead(text, s, q.at), q.in = r.in,
         q.in = "file" => NotIndented(text, q.at)
  PROVE  InPlace(files, q)
<1>1. Between(text, q.at)
  BY AfterLine
<1>2. QED
  BY <1>1 DEF InPlace

\* A line with a setting is read.
LEMMA FollowSetting ==
  ASSUME NEW files, Sound(files), NEW s, Readers(s), NEW res, NEW sc, NEW n,
         Follow(files, s, res, sc, n), NEW t, Readers(t), Beside(s, t),
         NEW r, r = s[Len(s)], NEW q, q = t[Len(s)], NEW text, text = r.text,
         q.text = text, q.in = r.in, r.in # "file",
         NEW line, NextLine(text, r.at, line), LineRead(text, line, q.at),
         NEW e, e = EntryAt(text, line), e.key \in Settable,
         NEW new, Applied(sc, e, new), new.name = sc.name
  PROVE  Follow(files, t, res, new, n + 1)
<1> DEFINE entries == Inserted(files)
           N == Len(s)
<1>1. N \in Nat \ {0} /\ Len(t) = N /\ N \in 1 .. N
      /\ \A i \in 1 .. N - 1 : t[i] = s[i]
  BY DEF Beside, Readers
<1>2. AllInPlace(files, s) /\ InPlace(files, r)
  BY <1>1 DEF Follow, AllInPlace
<1>3. Waiting(files, s)
  BY <1>2, WaitingIs
<1>4. IsText(text) /\ line \in Starts(text) /\ ReaderOf(files, r)
  <2>1. ReaderOf(files, r)
    BY <1>1, <1>3 DEF Waiting
  <2>2. IsText(text)
    BY <2>1, RestIs
  <2>3. QED
    BY <2>1, <2>2, NextLineIs
<1>5. InPlace(files, q)
  BY <1>2, <1>4, InPlaceBehind
<1>6. AllInPlace(files, t)
  <2>1. ASSUME NEW i \in 1 .. N PROVE InPlace(files, t[i])
    <3>1. CASE i = N
      BY <1>5, <3>1
    <3>2. CASE i # N
      <4>1. i \in 1 .. N - 1
        BY <1>1, <3>2
      <4>2. QED
        BY <1>1, <1>2, <4>1 DEF AllInPlace
    <3>3. QED
      BY <3>1, <3>2
  <2>2. QED
    BY <1>1, <2>1 DEF AllInPlace
<1>7. Waiting(files, t)
  BY <1>6, WaitingIs
<1>8. Unread(files, s) = <<e>> \o Unread(files, t)
  <2>1. Unread(files, s) =
          Expansion(Contents(files), EntryAt(text, line)) \o Unread(files, t)
    <3>1. Moves(s, t, text, line)
      BY DEF Moves
    <3>2. TakenFrom(files, s, Expansion(Contents(files), EntryAt(text, line)), t)
      BY <1>3, <1>7, <3>1, UnreadMoves
    <3>3. QED
      BY <3>2 DEF TakenFrom
  <2>2. Expansion(Contents(files), e) = <<e>>
    BY DEF Expansion, Settable, Names, Tools, Hosts
  <2>3. QED
    BY <2>1, <2>2
<1>9. /\ Left(entries, n + 1, Unread(files, t)) /\ n + 1 \in 1 .. Len(entries)
      /\ n \in Nat /\ entries[n + 1] = e
  <2> DEFINE v == Unread(files, t)
             S == AllEntries(files)
             u == Unread(files, s)
  <2>1. Left(entries, n, u) /\ u = <<e>> \o v
    BY <1>8 DEF Follow
  <2>2. entries \in Seq(S) /\ v \in Seq(S) /\ e \in S
    BY <1>4, <1>7, InsertedIs, UnreadIsSeq, EntryThere
  <2> HIDE DEF u, v, S, entries
  <2>3. EntryNext(entries, n, e, v)
    BY <2>1, <2>2, LeftStep
  <2>4. QED
    BY <2>3 DEF EntryNext, v
<1> HIDE DEF entries
<1> DEFINE h == HeaderOf(entries, n)
<1>10. e.key # "[" /\ e.key # "wrong"
  BY DEF Settable, Names, Tools, Hosts
<1>11. HeaderOf(entries, n + 1) = h
  BY <1>9, <1>10, HeaderNext
<1>12. /\ h # 0 /\ sc.name = {entries[h].value} /\ "" \notin sc.name
       /\ Means(entries, Applying(entries, h - 1), res)
       /\ Means(entries, Applying(entries, h - 1) \cup h .. n, sc)
  <2>1. InOf(s) = r.in
    BY <1>1 DEF InOf
  <2>2. QED
    BY <2>1 DEF Follow, Gathered, entries
<1>13. h \in 1 .. n /\ h - 1 \in Nat
  BY <1>9, <1>12, HeaderInside
<1>14. Means(entries, Applying(entries, h - 1) \cup h .. n + 1, new)
  <2> DEFINE P == Applying(entries, h - 1) \cup h .. n
  <2>1. Applying(entries, h - 1) \subseteq 1 .. h - 1
    BY DEF Applying
  <2> HIDE DEF h
  <2>2. P \subseteq 1 .. n
    BY <1>9, <1>13, <2>1
  <2>3. Applying(entries, h - 1) \cup h .. n + 1 = P \cup {n + 1}
    BY <1>9, <1>13
  <2> HIDE DEF P
  <2>4. Later(entries, P, n)
    BY <1>9, <2>2, InsertedIs DEF Later, entries
  <2>5. Means(entries, P, sc)
    BY <1>12 DEF P, h
  <2>6. Means(entries, P \cup {n + 1}, new)
    BY <1>9, <2>4, <2>5, MeansStep
  <2>7. QED
    BY <2>3, <2>6
<1>15. Gathered(entries, n + 1, InOf(t), res, new)
  <2>1. InOf(t) = r.in
    BY <1>1 DEF InOf
  <2>2. QED
    BY <1>11, <1>12, <1>14, <2>1 DEF Gathered
<1>16. Right(entries, n + 1)
  <2>1. Right(entries, n)
    BY DEF Follow, entries
  <2>2. ASSUME NEW i \in 1 .. n + 1
        PROVE  entries[i].key # "wrong" /\ HeaderOf(entries, i) # 0
    <3>1. CASE i = n + 1
      BY <1>9, <1>10, <1>11, <1>12, <3>1
    <3>2. CASE i # n + 1
      <4>1. i \in 1 .. n
        BY <1>9, <3>2
      <4>2. QED
        BY <2>1, <4>1 DEF Right
    <3>3. QED
      BY <3>1, <3>2
  <2>3. QED
    BY <2>2 DEF Right
<1>17. QED
  BY <1>6, <1>9, <1>15, <1>16 DEF Follow, entries

\* The beginning of a file is a place to read it from.
FileReader(files, r, f, in) ==
  r.text = files[f] /\ r.at = 1 /\ r.in = in

\* A line with an include is read, and then the file begins.
LEMMA FollowInclude ==
  ASSUME NEW files, Sound(files), NEW s, Readers(s), NEW res, NEW sc, NEW n,
         Follow(files, s, res, sc, n), NEW m, Readers(m), Beside(s, m),
         NEW r, r = s[Len(s)], NEW q, q = m[Len(s)], NEW text, text = r.text,
         q.text = text, q.in = r.in,
         NEW line, NextLine(text, r.at, line), LineRead(text, line, q.at),
         NEW e, e = EntryAt(text, line), e.key = "include",
         e.value \in DOMAIN files, text[line] = "ws" <=> r.in # "file",
         text[line] # "ws" => text[line] = "include",
         NEW t, Readers(t), Under(m, t), NEW p, p = t[Len(t)], NEW in,
         FileReader(files, p, e.value, in), in = "fragment" <=> r.in # "file",
         in \in {"file", "fragment"}
  PROVE  Follow(files, t, res, sc, n)
<1> DEFINE entries == Inserted(files)
           N == Len(s)
           f == e.value
<1>1. N \in Nat \ {0} /\ Len(m) = N /\ N \in 1 .. N /\ Len(t) = N + 1
      /\ N + 1 \in 1 .. N + 1 /\ \A i \in 1 .. N - 1 : m[i] = s[i]
  BY DEF Beside, Readers, Under
<1>2. AllInPlace(files, s) /\ InPlace(files, r)
  BY <1>1 DEF Follow, AllInPlace
<1>3. Waiting(files, s)
  BY <1>2, WaitingIs
<1>4. /\ IsText(text) /\ line \in Starts(text) /\ ReaderOf(files, r)
      /\ IncludesRight(files, text)
  <2>1. ReaderOf(files, r)
    BY <1>1, <1>3 DEF Waiting
  <2>2. IsText(text) /\ IncludesRight(files, text)
    BY <2>1, RestIs
  <2>3. QED
    BY <2>1, <2>2, NextLineIs
<1>5. /\ f \in DOMAIN files
      /\ in = "fragment" => OfEntries(files[f])
      /\ in = "file" => OfSections(files[f])
  BY <1>4 DEF IncludesRight
<1>6. InPlace(files, q)
  <2>1. ASSUME q.in = "file" PROVE NotIndented(text, q.at)
    <3>1. text[line] = "include" /\ OfSections(text)
      BY <1>2, <2>1 DEF InPlace
    <3>2. NotIndented(text, line + 1)
      BY <1>4, <3>1 DEF OfSections
    <3>3. Ahead(text, q.at) = Ahead(text, line + 1)
      BY <1>4, AfterLine
    <3>4. QED
      BY <3>2, <3>3 DEF NotIndented
  <2>2. QED
    BY <1>2, <1>4, <2>1, InPlaceBehind
<1>7. InPlace(files, p)
  <2>1. Between(p.text, p.at)
    BY DEF Between, FileReader
  <2>2. p.text = files[f] /\ p.in = in /\ p.at = 1
    BY DEF FileReader
  <2>3. in = "file" => NotIndented(files[f], 1)
    BY <1>5 DEF OfSections
  <2>4. QED
    BY <1>5, <2>1, <2>2, <2>3 DEF InPlace
<1>8. AllInPlace(files, m)
  <2>1. ASSUME NEW i \in 1 .. N PROVE InPlace(files, m[i])
    <3>1. CASE i = N
      BY <1>6, <3>1
    <3>2. CASE i # N
      <4>1. i \in 1 .. N - 1
        BY <1>1, <3>2
      <4>2. QED
        BY <1>1, <1>2, <4>1 DEF AllInPlace
    <3>3. QED
      BY <3>1, <3>2
  <2>2. QED
    BY <1>1, <2>1 DEF AllInPlace
<1>9. AllInPlace(files, t)
  <2>1. ASSUME NEW i \in 1 .. N + 1 PROVE InPlace(files, t[i])
    <3>1. CASE i = N + 1
      BY <1>1, <1>7, <3>1
    <3>2. CASE i # N + 1
      <4>1. i \in 1 .. N
        BY <1>1, <3>2
      <4>2. QED
        BY <1>1, <1>8, <4>1 DEF AllInPlace, Under
    <3>3. QED
      BY <3>1, <3>2
  <2>2. QED
    BY <1>1, <2>1 DEF AllInPlace
<1>10. Waiting(files, m) /\ Waiting(files, t)
  BY <1>8, <1>9, WaitingIs
<1>11. Unread(files, t) = Unread(files, s)
  <2>1. TakenFrom(files, s, Expansion(Contents(files), EntryAt(text, line)), m)
    <3>1. Moves(s, m, text, line)
      BY DEF Moves
    <3>2. QED
      BY <1>3, <1>10, <3>1, UnreadMoves
  <2>2. /\ DOMAIN Contents(files) = DOMAIN files
        /\ Contents(files)[f] = EntriesFrom(Contents(files), files[f])[1]
    BY <1>5, SoundIs DEF ContentsOf
  <2>3. Expansion(Contents(files), e) = Contents(files)[f]
    BY <1>5, <2>2 DEF Expansion
  <2>4. Rest(files, p) = Contents(files)[f]
    BY <2>2 DEF Rest, FileReader
  <2>5. Unread(files, t) = Rest(files, t[Len(t)]) \o Unread(files, m)
    BY <1>10, UnreadSplit
  <2>6. QED
    BY <2>1, <2>3, <2>4, <2>5 DEF TakenFrom
<1>12. Gathered(entries, n, InOf(t), res, sc)
  <2>1. InOf(s) = r.in /\ InOf(t) = in
    BY <1>1 DEF InOf, FileReader
  <2>2. Gathered(entries, n, r.in, res, sc)
    BY <2>1 DEF Follow
  <2>3. in = "file" <=> r.in = "file"
    OBVIOUS
  <2> HIDE DEF entries
  <2>4. QED
    BY <2>1, <2>2, <2>3 DEF Gathered
<1>13. QED
  BY <1>5, <1>9, <1>11, <1>12 DEF Follow

\* A reader with nothing left ends.
LEMMA FollowEnd ==
  ASSUME NEW files, Sound(files), NEW s, Readers(s), NEW res, NEW sc, NEW n,
         Follow(files, s, res, sc, n), NEW t, Readers(t), Under(t, s),
         NEW r, r = s[Len(s)], Ahead(r.text, r.at) = {},
         InOf(t) = "file" <=> r.in = "file"
  PROVE  Follow(files, t, res, sc, n)
<1> DEFINE entries == Inserted(files)
           N == Len(t)
<1>1. N \in Nat /\ Len(s) = N + 1 /\ N + 1 \in 1 .. N + 1
      /\ \A i \in 1 .. N : i \in 1 .. N + 1 /\ t[i] = s[i]
  BY DEF Readers, Under
<1>2. AllInPlace(files, s)
  BY DEF Follow
<1>3. AllInPlace(files, t)
  BY <1>1, <1>2 DEF AllInPlace
<1>4. Waiting(files, s) /\ Waiting(files, t)
  BY <1>2, <1>3, WaitingIs
<1>5. Unread(files, s) = Rest(files, s[Len(s)]) \o Unread(files, t)
      /\ Unread(files, t) \in Seq(AllEntries(files))
  BY <1>4, UnreadSplit
<1>6. Rest(files, r) = <<>>
  <2>1. ReaderOf(files, r)
    BY <1>1, <1>4 DEF Waiting
  <2> DEFINE after == EntriesFrom(Contents(files), r.text)
             text == r.text
             at == r.at
  <2>2. /\ IsText(text) /\ at \in 1 .. Len(text) + 1
        /\ EntriesOf(Contents(files), text, AllEntries(files), after)
    BY <2>1, RestIs
  <2>3. Ahead(text, at) = {}
    OBVIOUS
  <2> HIDE DEF after, text, at
  <2>4. after[at] = <<>>
    BY <2>2, <2>3, AfterNone
  <2>5. QED
    BY <2>4 DEF after, text, at, Rest
<1>7. Unread(files, s) = Unread(files, t)
  BY <1>5, <1>6
<1>8. Gathered(entries, n, InOf(t), res, sc)
  <2>1. InOf(s) = r.in
    BY <1>1 DEF InOf
  <2>2. Gathered(entries, n, r.in, res, sc)
    BY <2>1 DEF Follow
  <2> HIDE DEF entries
  <2>3. QED
    BY <2>2 DEF Gathered
<1>9. QED
  BY <1>3, <1>7, <1>8 DEF Follow

\* What is the same of two stacks of which one reader differs.
LEMMA AllInPlaceBeside ==
  ASSUME NEW files, NEW s, Readers(s), AllInPlace(files, s), NEW t, Beside(s, t),
         NEW q, q = t[Len(s)], InPlace(files, q)
  PROVE  AllInPlace(files, t)
<1> DEFINE N == Len(s)
<1>1. N \in Nat \ {0} /\ Len(t) = N /\ N \in 1 .. N
      /\ \A i \in 1 .. N - 1 : t[i] = s[i]
  BY DEF Beside, Readers
<1>2. ASSUME NEW i \in 1 .. N PROVE InPlace(files, t[i])
  <2>1. CASE i = N
    BY <2>1
  <2>2. CASE i # N
    <3>1. i \in 1 .. N - 1
      BY <1>1, <2>2
    <3>2. QED
      BY <1>1, <3>1 DEF AllInPlace
  <2>3. QED
    BY <2>1, <2>2
<1>3. QED
  BY <1>1, <1>2 DEF AllInPlace

\* What the header of a section sets.
Headed(e, res, new) ==
  e.key = "[" /\ e.value # "" /\ Alike(res, new) /\ new.name = {e.value}

\* The header of a section is read: it starts from what was gathered before.
LEMMA FollowHeader ==
  ASSUME NEW files, Sound(files), NEW s, Readers(s), NEW res, NEW sc, NEW n,
         Follow(files, s, res, sc, n), NEW t, Readers(t), Beside(s, t),
         NEW r, r = s[Len(s)], NEW q, q = t[Len(s)], NEW text, text = r.text,
         q.text = text, r.in = "file", q.in = "section",
         NEW line, NextLine(text, r.at, line), LineRead(text, line, q.at),
         NEW e, e = EntryAt(text, line), NEW new, Headed(e, res, new)
  PROVE  Follow(files, t, res, new, n + 1)
<1> DEFINE entries == Inserted(files)
           N == Len(s)
<1>1. N \in Nat \ {0} /\ Len(t) = N /\ N \in 1 .. N
      /\ \A i \in 1 .. N - 1 : t[i] = s[i]
  BY DEF Beside, Readers
<1>2. AllInPlace(files, s) /\ InPlace(files, r)
  BY <1>1 DEF Follow, AllInPlace
<1>3. Waiting(files, s)
  BY <1>2, WaitingIs
<1>4. IsText(text) /\ line \in Starts(text) /\ ReaderOf(files, r)
  <2>1. ReaderOf(files, r)
    BY <1>1, <1>3 DEF Waiting
  <2>2. IsText(text)
    BY <2>1, RestIs
  <2>3. QED
    BY <2>1, <2>2, NextLineIs
<1>5. InPlace(files, q)
  <2>1. Between(text, q.at)
    BY <1>4, AfterLine
  <2>2. QED
    BY <1>2, <2>1 DEF InPlace
<1>6. AllInPlace(files, t)
  BY <1>2, <1>5, AllInPlaceBeside
<1>7. Waiting(files, t)
  BY <1>6, WaitingIs
<1>8. Unread(files, s) = <<e>> \o Unread(files, t)
  <2>1. Moves(s, t, text, line)
    BY DEF Moves
  <2>2. TakenFrom(files, s, Expansion(Contents(files), EntryAt(text, line)), t)
    BY <1>3, <1>7, <2>1, UnreadMoves
  <2>3. Expansion(Contents(files), e) = <<e>>
    BY DEF Expansion, Headed
  <2>4. QED
    BY <2>2, <2>3 DEF TakenFrom
<1>9. /\ Left(entries, n + 1, Unread(files, t)) /\ n + 1 \in 1 .. Len(entries)
      /\ n \in Nat /\ entries[n + 1] = e
  <2> DEFINE v == Unread(files, t)
             S == AllEntries(files)
             u == Unread(files, s)
  <2>1. Left(entries, n, u) /\ u = <<e>> \o v
    BY <1>8 DEF Follow
  <2>2. entries \in Seq(S) /\ v \in Seq(S) /\ e \in S
    BY <1>4, <1>7, InsertedIs, UnreadIsSeq, EntryThere
  <2> HIDE DEF u, v, S, entries
  <2>3. EntryNext(entries, n, e, v)
    BY <2>1, <2>2, LeftStep
  <2>4. QED
    BY <2>3 DEF EntryNext, v
<1> HIDE DEF entries
<1>10. HeaderOf(entries, n + 1) = n + 1
  <2>1. entries[n + 1].key = "["
    BY <1>9 DEF Headed
  <2>2. QED
    BY <1>9, <2>1, HeaderNext
<1>11. Means(entries, Applying(entries, n), res)
  <2>1. InOf(s) = "file"
    BY <1>1 DEF InOf
  <2>2. QED
    BY <2>1 DEF Follow, Gathered, entries
<1>12. Means(entries, Applying(entries, n) \cup {n + 1}, new)
  <2> DEFINE P == Applying(entries, n)
  <2>1. P \subseteq 1 .. n
    BY DEF Applying
  <2> HIDE DEF P
  <2>2. Later(entries, P, n)
    BY <1>9, <2>1, InsertedIs DEF Later, entries
  <2>3. Applied(res, e, new)
    <3>1. Lasts(entries, P, res)
      BY <1>11, MeansIs DEF P
    <3>2. res.names = [k \in Names |-> res.names[k]]
          /\ res.verbose \in BOOLEAN
      BY <3>1 DEF Lasts
    <3>3. new.names = [k \in Names |-> IF e.key = k THEN e.value ELSE res.names[k]]
      <4>1. new.names = res.names /\ \A k \in Names : e.key # k
        BY DEF Alike, Names, Headed
      <4>2. QED
        BY <3>2, <4>1
    <3>4. new.verbose = (res.verbose \/ e.key = "verbose")
      <4>1. new.verbose = res.verbose /\ e.key # "verbose"
        BY DEF Alike, Headed
      <4>2. QED
        BY <3>2, <4>1
    <3>5. QED
      BY <3>3, <3>4 DEF Applied, Alike, Headed
  <2>4. Means(entries, P, res)
    BY <1>11 DEF P
  <2>5. Means(entries, P \cup {n + 1}, new)
    BY <1>9, <2>2, <2>3, <2>4, MeansStep
  <2>6. QED
    BY <2>5 DEF P
<1>13. Gathered(entries, n + 1, InOf(t), res, new)
  <2>1. InOf(t) = "section"
    BY <1>1 DEF InOf
  <2>2. (n + 1) - 1 = n /\ (n + 1) .. (n + 1) = {n + 1} /\ n + 1 # 0
    BY <1>9
  <2>3. new.name = {entries[n + 1].value} /\ "" \notin new.name
    BY <1>9 DEF Headed
  <2>4. QED
    BY <1>10, <1>11, <1>12, <2>1, <2>2, <2>3 DEF Gathered
<1>14. Right(entries, n + 1)
  <2>1. Right(entries, n)
    BY DEF Follow, entries
  <2>2. ASSUME NEW i \in 1 .. n + 1
        PROVE  entries[i].key # "wrong" /\ HeaderOf(entries, i) # 0
    <3>1. CASE i = n + 1
      <4>1. e.key # "wrong"
        BY DEF Headed
      <4>2. n + 1 # 0
        BY <1>9
      <4>3. QED
        BY <1>9, <1>10, <3>1, <4>1, <4>2
    <3>2. CASE i # n + 1
      <4>1. i \in 1 .. n
        BY <1>9, <3>2
      <4>2. QED
        BY <2>1, <4>1 DEF Right
    <3>3. QED
      BY <3>1, <3>2
  <2>3. QED
    BY <2>2 DEF Right
<1>15. QED
  BY <1>6, <1>9, <1>13, <1>14 DEF Follow, entries

\* A section that matches is kept, another is dropped.
Matches(sc) == \A name \in sc.name : name = "" \/ name \in Matching

\* At the end of a section the result is what has been gathered in it.
LEMMA FollowSection ==
  ASSUME NEW files, Sound(files), NEW s, Readers(s), NEW res, NEW sc, NEW n,
         Follow(files, s, res, sc, n), NEW t, Readers(t), Beside(s, t),
         NEW r, r = s[Len(s)], NEW q, q = t[Len(s)],
         q.text = r.text, q.at = r.at, r.in = "section", q.in = "file",
         NotIndented(r.text, r.at), NEW new, new = IF Matches(sc) THEN sc ELSE res
  PROVE  Follow(files, t, new, sc, n)
<1> DEFINE entries == Inserted(files)
           N == Len(s)
           h == HeaderOf(entries, n)
<1>1. N \in Nat \ {0} /\ Len(t) = N /\ N \in 1 .. N
  BY DEF Beside, Readers
<1>2. AllInPlace(files, s) /\ InPlace(files, r)
  BY <1>1 DEF Follow, AllInPlace
<1>3. InPlace(files, q)
  BY <1>2 DEF InPlace
<1>4. AllInPlace(files, t)
  BY <1>2, <1>3, AllInPlaceBeside
<1>5. Waiting(files, s) /\ Waiting(files, t)
  BY <1>2, <1>4, WaitingIs
<1>6. Unread(files, t) = Unread(files, s)
  <2>1. PICK below : Common(files, s, t, below)
    BY <1>5, UnreadBelow
  <2>2. Rest(files, q) = Rest(files, r)
    BY DEF Rest
  <2>3. QED
    BY <2>1, <2>2 DEF Common
<1>7. n \in Nat
  <2>1. n \in 0 .. Len(entries) /\ Len(entries) \in Nat
    BY InsertedIs DEF Follow, Left
  <2> HIDE DEF entries
  <2>2. QED
    BY <2>1
<1>8. /\ h # 0 /\ sc.name = {entries[h].value} /\ "" \notin sc.name
      /\ Means(entries, Applying(entries, h - 1), res)
      /\ Means(entries, Applying(entries, h - 1) \cup h .. n, sc)
  <2>1. InOf(s) = "section"
    BY <1>1 DEF InOf
  <2>2. QED
    BY <2>1 DEF Follow, Gathered
<1>9. Matches(sc) <=> entries[h].value \in Matching
  BY <1>8 DEF Matches
<1> HIDE DEF entries
<1>10. Applying(entries, n) =
         Applying(entries, h - 1) \cup
           (IF entries[h].value \in Matching THEN h .. n ELSE {})
  BY <1>7, <1>8, SectionApplies
<1> HIDE DEF h
<1>11. Means(entries, Applying(entries, n), new)
  <2>1. CASE Matches(sc)
    BY <1>8, <1>9, <1>10, <2>1
  <2>2. CASE ~Matches(sc)
    <3>1. Applying(entries, n) = Applying(entries, h - 1)
      BY <1>9, <1>10, <2>2
    <3>2. QED
      BY <1>8, <2>2, <3>1
  <2>3. QED
    BY <2>1, <2>2
<1>12. Gathered(entries, n, InOf(t), new, sc)
  <2>1. InOf(t) = "file"
    BY <1>1 DEF InOf
  <2>2. QED
    BY <1>11, <2>1 DEF Gathered
<1>13. QED
  BY <1>4, <1>6, <1>12 DEF Follow, entries

\* The end of a file resolves the paths of the tools, once for all.
ResolvedOf(s) ==
  [s EXCEPT !.ccache = resolve_path(@, "ccache"), !.distcc = resolve_path(@, "distcc")]

\* A path that has been resolved does not change when it is again.
LEMMA ResolvesOnce ==
  ASSUME NoNesting, NEW paths, NEW tool \in Tools
  PROVE  resolve_path(resolve_path(paths, tool), tool) = resolve_path(paths, tool)
<1> DEFINE program(p) == IF p \in DOMAIN Directory THEN Directory[p][tool] ELSE p
<1>1. \A p : program(program(p)) = program(p)
  BY DEF NoNesting
<1>2. \A some : resolve_path(some, tool) = {program(p) : p \in some}
  BY DEF resolve_path
<1> HIDE DEF program
<1>3. {program(p) : p \in {program(p) : p \in paths}} = {program(p) : p \in paths}
  BY <1>1
<1>4. QED
  BY <1>2, <1>3

\* Nothing but the two paths changes.
LEMMA ResolvedIs ==
  ASSUME NEW s, DOMAIN s = Fields, NoNesting
  PROVE  /\ Resolved(ResolvedOf(s))
         /\ \A f \in Fields \ Tools : ResolvedOf(s)[f] = s[f]
         /\ \A tool \in Tools : ResolvedOf(s)[tool] = resolve_path(s[tool], tool)
<1> DEFINE t == ResolvedOf(s)
<1>1. t.ccache = resolve_path(s.ccache, "ccache")
      /\ t.distcc = resolve_path(s.distcc, "distcc")
  BY DEF ResolvedOf, Fields
<1>2. \A f \in Fields \ Tools : t[f] = s[f]
  BY DEF ResolvedOf, Tools
<1> HIDE DEF t
<1>3. \A tool \in Tools : t[tool] = resolve_path(s[tool], tool)
  BY <1>1 DEF Tools
<1>4. Resolved(t)
  BY <1>3, ResolvesOnce DEF Resolved
<1>5. QED
  BY <1>2, <1>3, <1>4 DEF t

\* What the result means does not.
LEMMA FollowResolved ==
  ASSUME NEW files, NEW t, NEW res, NEW sc, NEW n,
         Follow(files, t, res, sc, n), InOf(t) = "file", NoNesting,
         DOMAIN res = Fields
  PROVE  Follow(files, t, ResolvedOf(res), sc, n)
<1> DEFINE entries == Inserted(files)
           P == Applying(entries, n)
           new == ResolvedOf(res)
<1>1. Means(entries, P, res)
  BY DEF Follow, Gathered
<1>2. Lasts(entries, P, res)
  BY <1>1, MeansIs
<1>3. /\ \A f \in Fields \ Tools : new[f] = res[f]
      /\ \A tool \in Tools : resolve_path(new[tool], tool) = resolve_path(res[tool], tool)
  <2>1. /\ \A f \in Fields \ Tools : new[f] = res[f]
        /\ \A tool \in Tools : new[tool] = resolve_path(res[tool], tool)
    BY ResolvedIs
  <2> HIDE DEF new
  <2>2. QED
    BY <2>1, ResolvesOnce
<1> HIDE DEF entries, P, new
<1>4. resolve_path(new.ccache, "ccache") = resolve_path(res.ccache, "ccache")
      /\ resolve_path(new.distcc, "distcc") = resolve_path(res.distcc, "distcc")
  BY <1>3 DEF Tools
<1>5. \A f \in {"verbose", "nice", "cpus", "no_parallel", "names",
                "distcc_hosts", "distcplusplus_hosts_set", "distcplusplus_hosts",
                "make_add", "env_add", "lock_file"} : new[f] = res[f]
  BY <1>3 DEF Fields, Tools
<1>6. Lasts(entries, P, new)
  BY <1>2, <1>4, <1>5 DEF Lasts
<1>7. Means(entries, P, new)
  BY <1>6, MeansIs
<1>8. QED
  BY <1>7 DEF Follow, Gathered, entries, P, new

-----------------------------------------------------------------------------
(* The steps of a reading of legible files.                                *)
Going(n) ==
  /\ TypeOK /\ Sound(disk) /\ NoNesting /\ ~failed
  /\ Follow(disk, stack, result, sec, n)

\* The next line is right, and what it includes is there.
Clear ==
  stack # <<>> =>
    \A line : NextLine(Text, stack[Len(stack)].at, line) =>
      /\ RightLine(Text, line)
      /\ EntryAt(Text, line).key = "include" =>
           EntryAt(Text, line).value \in DOMAIN disk

\* A reading has made a step, to n entries.
Gone(n) ==
  /\ ~failed' /\ Follow(disk', stack', result', sec', n)
  /\ stack' = <<>> => Resolved(result')

\* Where the innermost reader is, and what it sees there.
LEMMA Seen ==
  ASSUME NEW n, Going(n), stack # <<>>
  PROVE  LET r == stack[Len(stack)]
         IN /\ Readers(stack) /\ Len(stack) \in Nat \ {0} /\ Last(stack) = r
            /\ ReaderOf(disk, r) /\ InPlace(disk, r) /\ r.text = Text
            /\ LegibleText(Text) /\ IsText(Text) /\ Tidy(Text)
            /\ r.at \in 1 .. Len(Text) + 1
            /\ Found(Text, r.at, Peeked)
<1> DEFINE N == Len(stack)
           r == stack[N]
<1>1. /\ Readers(stack) /\ N \in Nat \ {0} /\ Last(stack) = r
      /\ r.text = Text /\ IsText(Text) /\ r.at \in 1 .. Len(Text) + 1
  BY PlaceIs DEF Going
<1>2. AllInPlace(disk, stack)
  BY DEF Going, Follow
<1>3. Waiting(disk, stack)
  BY <1>1, <1>2, WaitingIs
<1>4. ReaderOf(disk, r) /\ InPlace(disk, r)
  BY <1>1, <1>2, <1>3 DEF Waiting, AllInPlace
<1>5. LegibleText(Text) /\ Tidy(Text)
  BY <1>1, <1>4, RestIs DEF Going, LegibleText
<1>6. Between(Text, r.at)
  BY <1>1, <1>4 DEF InPlace
<1>7. Peeked = peek_token(Text, r.at)
  BY <1>1 DEF Peeked
<1> DEFINE at == r.at
<1>8. Found(Text, at, peek_token(Text, at))
  <2>1. at \in 1 .. Len(Text) + 1 /\ Between(Text, at)
    BY <1>1, <1>6
  <2> HIDE DEF at
  <2>2. QED
    BY <1>1, <1>5, <2>1, PeekLine
<1>9. QED
  BY <1>1, <1>4, <1>5, <1>7, <1>8

\* What a token tells of the next line.
LEMMA FoundTells ==
  ASSUME NEW text, IsText(text), Tidy(text), NEW at \in 1 .. Len(text) + 1, NEW tok,
         Found(text, at, tok)
  PROVE  /\ tok.type = "END" <=> Ahead(text, at) = {}
         /\ tok.type = "INDENT" => \E s : NextLine(text, at, s) /\ text[s] = "ws"
                                          /\ tok.end = s + 1
         /\ tok.type # "INDENT" => NotIndented(text, at)
         /\ tok.type \notin {"INDENT", "END"} =>
              \E s : /\ NextLine(text, at, s) /\ text[s] # "ws" /\ tok.end = s + 1
                     /\ tok.type = TypeOf(text[s]) /\ tok.word = text[s]
<1> DEFINE A == Ahead(text, at)
           s == Min(A)
<1>1. A # {} => NextLine(text, at, s)
  BY DEF NextLine
<1>2. \A word : TypeOf(word) # "END" /\ TypeOf(word) # "INDENT"
  BY TypeIs DEF Marks, Keyword, Names, Tools, Hosts
<1>3. A = {} => tok.type = "END"
  BY DEF Found
<1>4. A # {} => /\ tok.end = s + 1
                /\ text[s] = "ws" => tok.type = "INDENT"
                /\ text[s] # "ws" => tok.type = TypeOf(text[s]) /\ tok.word = text[s]
  BY DEF Found
<1>5. NotIndented(text, at) <=> A = {} \/ text[s] # "ws"
  BY DEF NotIndented
<1> HIDE DEF A, s
<1>6. QED
  BY <1>1, <1>2, <1>3, <1>4, <1>5 DEF A

\* The line of an instruction.
Indented(line) ==
  /\ NextLine(Text, stack[Len(stack)].at, line) /\ line \in Starts(Text)
  /\ Text[line] = "ws" /\ Instruction.type = Words(Text)[line][1]
  /\ Behind(Text, line, Instruction.end, 1)
  /\ FormOf(Words(Text)[line], RestOf(Text, line), EntryAt(Text, line))

\* Behind an indent there is one.
LEMMA InstructionIs ==
  ASSUME NEW n, Going(n), Clear, stack # <<>>, Peeked.type = "INDENT"
  PROVE  \E line : Indented(line)
<1> DEFINE at == stack[Len(stack)].at
<1>1. /\ IsText(Text) /\ Tidy(Text) /\ at \in 1 .. Len(Text) + 1
      /\ Found(Text, at, Peeked)
  BY Seen
<1> HIDE DEF at
<1>2. \E s : NextLine(Text, at, s) /\ Text[s] = "ws" /\ Peeked.end = s + 1
  BY <1>1, FoundTells
<1>3. PICK line : NextLine(Text, at, line) /\ Text[line] = "ws" /\ Peeked.end = line + 1
  BY <1>2
<1>4. line \in Starts(Text) /\ RightLine(Text, line)
  BY <1>1, <1>3, NextLineIs DEF Clear, at
<1>5. Instruction = peek_token(Text, line + 1)
  BY <1>3 DEF Instruction
<1>6. /\ FormOf(Words(Text)[line], RestOf(Text, line), EntryAt(Text, line))
      /\ Instruction.type = Words(Text)[line][1]
      /\ Behind(Text, line, Instruction.end, 1)
  BY <1>1, <1>3, <1>4, <1>5, IndentedIs
<1>7. QED
  BY <1>3, <1>4, <1>6 DEF Indented, at

\* An instruction whose value is read and applied.
Obeys(line, read, new) ==
  LET e == EntryAt(Text, line)
  IN /\ e.key \in Settable /\ read.ok /\ LineRead(Text, line, read.end)
     /\ Applied(sec, e, new) /\ new.name = sec.name

\* It is a step to one entry more.
LEMMA SettingFollows ==
  ASSUME NEW n, Going(n), NEW types, Instructed(types), NEW line, Indented(line),
         NEW STATE read, NEW STATE new, Obeys(line, read, new), Set(read, new)
  PROVE  Gone(n + 1)
<1> DEFINE N == Len(stack)
           r == stack[N]
           end == read.end
           t == At(end)
           q == t[N]
           e == EntryAt(Text, line)
<1>1. stack # <<>> /\ r.in # "file" /\ ~failed
  <2>1. stack # <<>> /\ Last(stack).in \in {"section", "fragment"} /\ ~failed
    BY DEF Instructed, Reading
  <2>2. QED
    BY <2>1, Seen
<1>2. /\ Readers(stack) /\ N \in Nat \ {0} /\ ReaderOf(disk, r)
      /\ r.text = Text /\ IsText(Text) /\ TypeOK
  BY <1>1, Seen DEF Going
<1>3. LineRead(Text, line, end) /\ line \in Starts(Text) /\ NextLine(Text, r.at, line)
  BY DEF Obeys, Indented
<1>4. end \in 1 .. Len(Text) + 1
  <2> HIDE DEF end
  <2>1. QED
    BY <1>2, <1>3, AfterLine
<1>5. /\ Readers(t) /\ Len(t) = N /\ \A i \in 1 .. N - 1 : t[i] = stack[i]
      /\ q.text = r.text /\ q.at = end /\ q.in = r.in /\ t # <<>>
  <2> HIDE DEF end
  <2>1. QED
    BY <1>1, <1>2, <1>4, AtIs
<1>6. stack' = t /\ sec' = new /\ UNCHANGED <<disk, result, failed>>
  BY DEF Set, Obeys
<1>7. Beside(stack, t)
  BY <1>2, <1>5 DEF Beside
<1>8. Follow(disk, stack, result, sec, n) /\ Sound(disk)
  BY DEF Going
<1>9. e.key \in Settable /\ Applied(sec, e, new) /\ new.name = sec.name
  BY DEF Obeys
<1>10. NextLine(Text, r.at, line) /\ LineRead(Text, line, q.at)
  BY <1>3, <1>5
<1>11. q.text = Text /\ r.text = Text /\ q.in = r.in
  BY <1>2, <1>5
<1>12. r = stack[N] /\ q = t[N] /\ e = EntryAt(Text, line)
  OBVIOUS
<1> HIDE DEF t, r, q, e, end
<1>13. Follow(disk, t, result, new, n + 1)
  BY <1>1, <1>2, <1>5, <1>7, <1>8, <1>9, <1>10, <1>11, <1>12, FollowSetting DEF N
<1>14. QED
  BY <1>1, <1>5, <1>6, <1>13 DEF Gone

-----------------------------------------------------------------------------
(* Instructions.                                                           *)

\* Settings with all fields.
Complete(s) ==
  /\ DOMAIN s = Fields /\ s.verbose \in BOOLEAN
  /\ s.names = [k \in Names |-> s.names[k]]

\* What an entry of a setting does to the settings of a section.
Effect(s, e, t) == e.key \in Settable /\ Applied(s, e, t) /\ t.name = s.name

\* Those of the section that is read are.
LEMMA SecComplete ==
  ASSUME NEW n, Going(n), NEW types, Instructed(types)
  PROVE  Complete(sec)
<1> DEFINE entries == Inserted(disk)
           h == HeaderOf(entries, n)
           P == Applying(entries, h - 1) \cup h .. n
<1>1. DOMAIN sec = Fields
  BY FieldsAre DEF Going, TypeOK, Settings
<1>2. InOf(stack) # "file"
  <2>1. stack # <<>> /\ Last(stack).in \in {"section", "fragment"}
    BY DEF Instructed, Reading
  <2>2. QED
    BY <2>1, Seen DEF InOf
<1>3. Means(entries, P, sec)
  BY <1>2 DEF Going, Follow, Gathered
<1> HIDE DEF P, entries
<1>4. Lasts(entries, P, sec)
  BY <1>3, MeansIs
<1>5. sec.names = [k \in Names |-> LastOf(entries, P, k, {})]
      /\ sec.verbose \in BOOLEAN
  BY <1>4 DEF Lasts
<1>6. sec.names = [k \in Names |-> sec.names[k]]
  BY <1>5
<1>7. QED
  BY <1>1, <1>5, <1>6 DEF Complete

\* Fields that an entry leaves alone.
Kept(s, t, F) == \A f \in Fields \ F : t[f] = s[f]

\* An entry that is not for a program leaves the paths of programs alone.
LEMMA NamesKept ==
  ASSUME NEW s, Complete(s), NEW e, e.key \notin Names, NEW t, t.names = s.names
  PROVE  t.names = [k \in Names |-> IF e.key = k THEN e.value ELSE s.names[k]]
<1>1. \A k \in Names : (IF e.key = k THEN e.value ELSE s.names[k]) = s.names[k]
  OBVIOUS
<1>2. QED
  BY <1>1 DEF Complete

\* One that is not "verbose" leaves verbosity alone.
LEMMA VerboseKept ==
  ASSUME NEW s, Complete(s), NEW e, e.key # "verbose", NEW t, t.verbose = s.verbose
  PROVE  t.verbose = (s.verbose \/ e.key = "verbose")
<1>1. s.verbose \in BOOLEAN
  BY DEF Complete
<1>2. QED
  BY <1>1

\* A field that one entry sets.
Sets(key, f, e, s, t) ==
  e.key = key /\ Kept(s, t, {f}) /\
    t[f] = IF key \in {"make_add", "env_add"} THEN Adds(e, s[f]) ELSE e.value

\* Then that is the effect of the entry.
LEMMA OneField ==
  ASSUME NEW s, Complete(s), NEW e, NEW t,
         \/ Sets("no-parallel", "no_parallel", e, s, t)
         \/ Sets("cpus", "cpus", e, s, t) \/ Sets("nice", "nice", e, s, t)
         \/ Sets("ccache", "ccache", e, s, t) \/ Sets("distcc", "distcc", e, s, t)
         \/ Sets("make_add", "make_add", e, s, t)
         \/ Sets("env_add", "env_add", e, s, t)
  PROVE  Effect(s, e, t)
<1>1. /\ t.names = s.names /\ t.verbose = s.verbose
      /\ e.key \in {"no-parallel", "cpus", "nice", "make_add", "env_add"} \cup Tools
  BY DEF Sets, Kept, Fields, Tools
<1>2. t.names = [k \in Names |-> IF e.key = k THEN e.value ELSE s.names[k]]
  BY <1>1, NamesKept DEF Names, Tools
<1>3. t.verbose = (s.verbose \/ e.key = "verbose")
  BY <1>1, VerboseKept DEF Tools
<1>4. Applied(s, e, t)
  BY <1>2, <1>3 DEF Applied, Sets, Kept, Fields
<1>5. e.key \in Settable /\ t.name = s.name
  BY <1>1 DEF Sets, Kept, Fields, Settable
<1>6. QED
  BY <1>4, <1>5 DEF Effect

\* The effect of each kind of entry.
LEMMA EffectPlain ==
  ASSUME NEW s, Complete(s), NEW e
  PROVE  /\ e.key = "no-parallel" => Effect(s, e, [s EXCEPT !.no_parallel = e.value])
         /\ e.key = "cpus" => Effect(s, e, [s EXCEPT !.cpus = e.value])
         /\ e.key = "nice" => Effect(s, e, [s EXCEPT !.nice = e.value])
         /\ e.key \in Tools => Effect(s, e, [s EXCEPT ![e.key] = e.value])
         /\ e.key \in {"make_add", "env_add"} =>
              Effect(s, e, [s EXCEPT ![e.key] = Adds(e, @)])
<1>1. DOMAIN s = Fields
  BY DEF Complete
<1>2. \A f \in Fields : \A v :
        Kept(s, [s EXCEPT ![f] = v], {f}) /\ [s EXCEPT ![f] = v][f] = v
  BY <1>1 DEF Kept
<1>3. ASSUME e.key = "no-parallel"
      PROVE  Effect(s, e, [s EXCEPT !.no_parallel = e.value])
  <2>1. Sets("no-parallel", "no_parallel", e, s, [s EXCEPT !["no_parallel"] = e.value])
    BY <1>2, <1>3 DEF Sets, Fields
  <2>2. QED
    BY <2>1, OneField
<1>4. ASSUME e.key = "cpus" PROVE Effect(s, e, [s EXCEPT !.cpus = e.value])
  <2>1. Sets("cpus", "cpus", e, s, [s EXCEPT !["cpus"] = e.value])
    BY <1>2, <1>4 DEF Sets, Fields
  <2>2. QED
    BY <2>1, OneField
<1>5. ASSUME e.key = "nice" PROVE Effect(s, e, [s EXCEPT !.nice = e.value])
  <2>1. Sets("nice", "nice", e, s, [s EXCEPT !["nice"] = e.value])
    BY <1>2, <1>5 DEF Sets, Fields
  <2>2. QED
    BY <2>1, OneField
<1>6. ASSUME e.key \in Tools PROVE Effect(s, e, [s EXCEPT ![e.key] = e.value])
  <2>1. /\ e.key \in Fields /\ e.key \notin {"make_add", "env_add"}
    BY <1>6 DEF Fields, Tools
  <2>2. Sets(e.key, e.key, e, s, [s EXCEPT ![e.key] = e.value])
    BY <1>2, <2>1 DEF Sets
  <2>3. e.key = "ccache" \/ e.key = "distcc"
    BY <1>6 DEF Tools
  <2>4. QED
    BY <2>2, <2>3, OneField
<1>7. ASSUME e.key \in {"make_add", "env_add"}
      PROVE  Effect(s, e, [s EXCEPT ![e.key] = Adds(e, @)])
  <2>1. e.key \in Fields
    BY <1>7 DEF Fields
  <2>2. Sets(e.key, e.key, e, s, [s EXCEPT ![e.key] = Adds(e, s[e.key])])
    BY <1>2, <1>7, <2>1 DEF Sets
  <2>3. QED
    BY <1>7, <2>2, OneField
<1>8. QED
  BY <1>3, <1>4, <1>5, <1>6, <1>7

LEMMA EffectVerbose ==
  ASSUME NEW s, Complete(s), NEW e, e.key = "verbose"
  PROVE  Effect(s, e, [s EXCEPT !.verbose = TRUE])
<1> DEFINE t == [s EXCEPT !.verbose = TRUE]
<1>1. Kept(s, t, {"verbose"}) /\ t.verbose = TRUE
  BY DEF Kept, Fields, Complete
<1> HIDE DEF t
<1>2. t.names = [k \in Names |-> IF e.key = k THEN e.value ELSE s.names[k]]
  BY <1>1, NamesKept DEF Kept, Fields, Names
<1>3. t.verbose = (s.verbose \/ e.key = "verbose")
  BY <1>1
<1>4. Applied(s, e, t)
  BY <1>1, <1>2, <1>3 DEF Applied, Kept, Fields
<1>5. Effect(s, e, t)
  BY <1>1, <1>4 DEF Effect, Kept, Fields, Settable
<1>6. QED
  BY <1>5 DEF t

LEMMA EffectHosts ==
  ASSUME NEW s, Complete(s), NEW e
  PROVE  /\ e.key = "distcc-hosts" =>
              Effect(s, e, IF s.distcplusplus_hosts_set
                             THEN [s EXCEPT !.distcc_hosts = e.value]
                             ELSE [s EXCEPT !.distcc_hosts = e.value,
                                            !.distcplusplus_hosts = e.value])
         /\ e.key = "distc++-hosts" =>
              Effect(s, e, [s EXCEPT !.distcplusplus_hosts = e.value,
                                     !.distcplusplus_hosts_set = TRUE])
<1>1. DOMAIN s = Fields
  BY DEF Complete
<1>2. ASSUME e.key = "distcc-hosts", s.distcplusplus_hosts_set
      PROVE  Effect(s, e, [s EXCEPT !.distcc_hosts = e.value])
  <2> DEFINE t == [s EXCEPT !.distcc_hosts = e.value]
  <2>1. Kept(s, t, {"distcc_hosts"}) /\ t.distcc_hosts = e.value
    BY <1>1 DEF Kept, Fields
  <2> HIDE DEF t
  <2>2. t.names = [k \in Names |-> IF e.key = k THEN e.value ELSE s.names[k]]
    BY <1>2, <2>1, NamesKept DEF Kept, Fields, Names
  <2>3. t.verbose = (s.verbose \/ e.key = "verbose")
    BY <1>2, <2>1, VerboseKept DEF Kept, Fields
  <2>4. Applied(s, e, t)
    BY <1>2, <2>1, <2>2, <2>3 DEF Applied, Kept, Fields
  <2>5. Effect(s, e, t)
    BY <1>2, <2>1, <2>4 DEF Effect, Kept, Fields, Settable, Hosts
  <2>6. QED
    BY <2>5 DEF t
<1>3. ASSUME e.key = "distcc-hosts", ~s.distcplusplus_hosts_set
      PROVE  Effect(s, e, [s EXCEPT !.distcc_hosts = e.value,
                                    !.distcplusplus_hosts = e.value])
  <2> DEFINE t == [s EXCEPT !.distcc_hosts = e.value, !.distcplusplus_hosts = e.value]
  <2>1. /\ Kept(s, t, {"distcc_hosts", "distcplusplus_hosts"})
        /\ t.distcc_hosts = e.value /\ t.distcplusplus_hosts = e.value
    BY <1>1 DEF Kept, Fields
  <2> HIDE DEF t
  <2>2. t.names = [k \in Names |-> IF e.key = k THEN e.value ELSE s.names[k]]
    BY <1>3, <2>1, NamesKept DEF Kept, Fields, Names
  <2>3. t.verbose = (s.verbose \/ e.key = "verbose")
    BY <1>3, <2>1, VerboseKept DEF Kept, Fields
  <2>4. Applied(s, e, t)
    BY <1>3, <2>1, <2>2, <2>3 DEF Applied, Kept, Fields
  <2>5. Effect(s, e, t)
    BY <1>3, <2>1, <2>4 DEF Effect, Kept, Fields, Settable, Hosts
  <2>6. QED
    BY <2>5 DEF t
<1>4. ASSUME e.key = "distc++-hosts"
      PROVE  Effect(s, e, [s EXCEPT !.distcplusplus_hosts = e.value,
                                    !.distcplusplus_hosts_set = TRUE])
  <2> DEFINE t == [s EXCEPT !.distcplusplus_hosts = e.value,
                            !.distcplusplus_hosts_set = TRUE]
  <2>1. /\ Kept(s, t, {"distcplusplus_hosts_set", "distcplusplus_hosts"})
        /\ t.distcplusplus_hosts = e.value /\ t.distcplusplus_hosts_set = TRUE
    BY <1>1 DEF Kept, Fields
  <2> HIDE DEF t
  <2>2. t.names = [k \in Names |-> IF e.key = k THEN e.value ELSE s.names[k]]
    BY <1>4, <2>1, NamesKept DEF Kept, Fields, Names
  <2>3. t.verbose = (s.verbose \/ e.key = "verbose")
    BY <1>4, <2>1, VerboseKept DEF Kept, Fields
  <2>4. Applied(s, e, t)
    BY <1>4, <2>1, <2>2, <2>3 DEF Applied, Kept, Fields
  <2>5. Effect(s, e, t)
    BY <1>4, <2>1, <2>4 DEF Effect, Kept, Fields, Settable, Hosts
  <2>6. QED
    BY <2>5 DEF t
<1>5. QED
  BY <1>2, <1>3, <1>4

LEMMA EffectProgram ==
  ASSUME NEW s, Complete(s), NEW e, e.key \in Names
  PROVE  Effect(s, e, [s EXCEPT !.names[e.key] = e.value])
<1> DEFINE t == [s EXCEPT !.names[e.key] = e.value]
<1>1. Kept(s, t, {"names"}) /\ t.names = [s.names EXCEPT ![e.key] = e.value]
  BY DEF Kept, Fields, Complete
<1> HIDE DEF t
<1>2. t.names = [k \in Names |-> IF e.key = k THEN e.value ELSE s.names[k]]
  <2>1. s.names = [k \in Names |-> s.names[k]]
    BY DEF Complete
  <2>2. DOMAIN s.names = Names
    BY <2>1
  <2>3. QED
    BY <1>1, <2>2
<1>3. t.verbose = (s.verbose \/ e.key = "verbose")
  BY <1>1, VerboseKept DEF Kept, Fields, Names
<1>4. Applied(s, e, t)
  BY <1>1, <1>2, <1>3 DEF Applied, Kept, Fields, Names
<1>5. Effect(s, e, t)
  BY <1>1, <1>4 DEF Effect, Kept, Fields, Settable
<1>6. QED
  BY <1>5 DEF t

LEMMA EffectLockFile ==
  ASSUME NEW s, Complete(s), NEW e, e.key = "lock-file", NEW file, e.value = {file}
  PROVE  Effect(s, e, [s EXCEPT !.lock_file = {file}, !.lock_fd = file])
<1> DEFINE t == [s EXCEPT !.lock_file = {file}, !.lock_fd = file]
<1>1. Kept(s, t, {"lock_file", "lock_fd"}) /\ t.lock_file = e.value
  BY DEF Kept, Fields, Complete
<1> HIDE DEF t
<1>2. t.names = [k \in Names |-> IF e.key = k THEN e.value ELSE s.names[k]]
  BY <1>1, NamesKept DEF Kept, Fields, Names
<1>3. t.verbose = (s.verbose \/ e.key = "verbose")
  BY <1>1, VerboseKept DEF Kept, Fields
<1>4. Applied(s, e, t)
  BY <1>1, <1>2, <1>3 DEF Applied, Kept, Fields
<1>5. Effect(s, e, t)
  BY <1>1, <1>4 DEF Effect, Kept, Fields, Settable
<1>6. QED
  BY <1>5 DEF t

\* The line of an instruction, and the first word of it.
LineOf(types, line) == Indented(line) /\ Words(Text)[line][1] \in types

\* Behind an instruction of these types there is one.
LEMMA InstructionLine ==
  ASSUME NEW n, Going(n), Clear, NEW types, Instructed(types)
  PROVE  \E line : LineOf(types, line)
<1>1. stack # <<>> /\ Peeked.type = "INDENT" /\ Instruction.type \in types
  BY DEF Instructed, Reading
<1>2. PICK line : Indented(line)
  BY <1>1, InstructionIs
<1>3. QED
  BY <1>1, <1>2 DEF Indented, LineOf

\* What is known of that line.
LEMMA LineOfIs ==
  ASSUME NEW n, Going(n), Clear, NEW types, Instructed(types), NEW line, LineOf(types, line)
  PROVE  /\ RightLine(Text, line) /\ line \in Starts(Text) /\ Text[line] = "ws"
         /\ Behind(Text, line, Instruction.end, 1) /\ Indented(line)
         /\ Words(Text)[line][1] \in types /\ Instruction.type = Words(Text)[line][1]
         /\ FormOf(Words(Text)[line], RestOf(Text, line), EntryAt(Text, line))
<1>1. stack # <<>>
  BY DEF Instructed, Reading
<1>2. QED
  BY <1>1 DEF LineOf, Indented, Clear

\* A step that sets what the entry of its line says.
LEMMA ObeysIs ==
  ASSUME NEW n, Going(n), NEW types, Instructed(types), NEW line, LineOf(types, line),
         NEW STATE read, NEW STATE new, NEW e, e = EntryAt(Text, line),
         Yields(Text, line, read, e.value), Effect(sec, e, new),
         Set(read, new)
  PROVE  Gone(n + 1)
<1>1. Indented(line)
  BY DEF LineOf
<1>2. Obeys(line, read, new)
  BY DEF Obeys, Effect, Yields
<1>3. QED
  BY <1>1, <1>2, SettingFollows

\* "no-parallel": the first of the instructions, one lemma for each.
LEMMA NoParallelFollows ==
  ASSUME NEW n, Going(n), Clear, NoParallel
  PROVE  Gone(n + 1)
<1> DEFINE read == get_to_eol(Text, Instruction.end)
           new == [sec EXCEPT !.no_parallel = read.value]
           types == {"no-parallel"}
<1>1. Instructed(types) /\ Set(read, new)
  BY DEF NoParallel
<1>2. PICK line : LineOf(types, line)
  BY <1>1, InstructionLine
<1> DEFINE e == EntryAt(Text, line)
<1>3. e.key = "no-parallel" /\ Yields(Text, line, read, e.value)
  <2>1. Words(Text)[line][1] = "no-parallel"
    BY <1>2 DEF LineOf
  <2>2. QED
    BY <1>1, <1>2, <2>1, LineOfIs, PlainRead DEF Plain
<1>4. Effect(sec, e, new)
  <2>1. Complete(sec)
    BY <1>1, SecComplete
  <2>2. read.value = e.value
    BY <1>3 DEF Yields
  <2>3. QED
    BY <1>3, <2>1, <2>2, EffectPlain
<1> HIDE DEF read, new, e, types
<1>5. QED
  BY <1>1, <1>2, <1>3, <1>4, ObeysIs DEF e

LEMMA CpusFollows ==
  ASSUME NEW n, Going(n), Clear, Cpus
  PROVE  Gone(n + 1)
<1> DEFINE read == to_int(get_value(Text, Instruction.end), 1, MaxCpus)
           new == [sec EXCEPT !.cpus = read.value]
           types == {"cpus"}
<1>1. Instructed(types) /\ Set(read, new)
  BY DEF Cpus
<1>2. PICK line : LineOf(types, line)
  BY <1>1, InstructionLine
<1> DEFINE e == EntryAt(Text, line)
<1>3. e.key = "cpus" /\ Yields(Text, line, read, e.value)
  <2>1. Words(Text)[line][1] = "cpus"
    BY <1>2 DEF LineOf
  <2>2. QED
    BY <1>1, <1>2, <2>1, LineOfIs, NumberIs
<1>4. Effect(sec, e, new)
  <2>1. Complete(sec)
    BY <1>1, SecComplete
  <2>2. read.value = e.value
    BY <1>3 DEF Yields
  <2>3. QED
    BY <1>3, <2>1, <2>2, EffectPlain
<1> HIDE DEF read, new, e, types
<1>5. QED
  BY <1>1, <1>2, <1>3, <1>4, ObeysIs DEF e

LEMMA NiceFollows ==
  ASSUME NEW n, Going(n), Clear, Nice
  PROVE  Gone(n + 1)
<1> DEFINE read == to_int(get_value(Text, Instruction.end), -19, 20)
           new == [sec EXCEPT !.nice = read.value]
           types == {"nice"}
<1>1. Instructed(types) /\ Set(read, new)
  BY DEF Nice
<1>2. PICK line : LineOf(types, line)
  BY <1>1, InstructionLine
<1> DEFINE e == EntryAt(Text, line)
<1>3. e.key = "nice" /\ Yields(Text, line, read, e.value)
  <2>1. Words(Text)[line][1] = "nice"
    BY <1>2 DEF LineOf
  <2>2. QED
    BY <1>1, <1>2, <2>1, LineOfIs, NumberIs
<1>4. Effect(sec, e, new)
  <2>1. Complete(sec)
    BY <1>1, SecComplete
  <2>2. read.value = e.value
    BY <1>3 DEF Yields
  <2>3. QED
    BY <1>3, <2>1, <2>2, EffectPlain
<1> HIDE DEF read, new, e, types
<1>5. QED
  BY <1>1, <1>2, <1>3, <1>4, ObeysIs DEF e

LEMMA VerboseFollows ==
  ASSUME NEW n, Going(n), Clear, Verbose
  PROVE  Gone(n + 1)
<1> DEFINE end == Instruction.end
           read == Read(TRUE, TRUE, end)
           new == [sec EXCEPT !.verbose = TRUE]
           types == {"verbose"}
<1>1. Instructed(types) /\ Set(read, new)
  BY DEF Verbose
<1>2. PICK line : LineOf(types, line)
  BY <1>1, InstructionLine
<1> DEFINE e == EntryAt(Text, line)
           w == Words(Text)[line]
<1>3. /\ IsText(Text) /\ line \in Starts(Text) /\ Behind(Text, line, end, 1)
      /\ w[1] = "verbose" /\ FormOf(w, RestOf(Text, line), e)
  BY <1>1, <1>2, LineOfIs DEF RightLine
<1>4. Len(w) = 1 /\ e = Entry("verbose", {})
  BY <1>3 DEF FormOf
<1>5. LineRead(Text, line, end)
  <2> HIDE DEF end
  <2>1. Behind(Text, line, end, Len(Words(Text)[line]))
    BY <1>3, <1>4
  <2>2. QED
    BY <1>3, <2>1, LineIsRead
<1>6. e.key = "verbose"
  BY <1>4, EntryIs
<1>7. Effect(sec, e, new)
  <2>1. Complete(sec)
    BY <1>1, SecComplete
  <2>2. QED
    BY <1>6, <2>1, EffectVerbose
<1>8. Obeys(line, read, new)
  <2>1. read.ok /\ read.end = end
    BY DEF Read
  <2> HIDE DEF read, new, e, end
  <2>2. QED
    BY <1>5, <1>7, <2>1 DEF Obeys, Effect, e
<1>9. Indented(line)
  BY <1>2 DEF LineOf
<1> HIDE DEF read, new, e, types
<1>10. QED
  BY <1>1, <1>8, <1>9, SettingFollows

LEMMA ToolFollows ==
  ASSUME NEW n, Going(n), Clear, Tool
  PROVE  Gone(n + 1)
<1> DEFINE read == get_optional_path(Text, Instruction.end)
           new == [sec EXCEPT ![Instruction.type] = read.value]
<1>1. Instructed(Tools) /\ Set(read, new)
  BY DEF Tool
<1>2. PICK line : LineOf(Tools, line)
  BY <1>1, InstructionLine
<1> DEFINE e == EntryAt(Text, line)
<1>3. /\ e.key = Instruction.type /\ e.key \in Tools
      /\ Yields(Text, line, read, e.value)
  BY <1>1, <1>2, LineOfIs, ToolIs
<1>4. Effect(sec, e, new)
  <2>1. Complete(sec)
    BY <1>1, SecComplete
  <2>2. read.value = e.value
    BY <1>3 DEF Yields
  <2>3. QED
    BY <1>3, <2>1, <2>2, EffectPlain
<1> HIDE DEF read, new, e
<1>5. QED
  BY <1>1, <1>2, <1>3, <1>4, ObeysIs DEF e

LEMMA DistccHostsFollows ==
  ASSUME NEW n, Going(n), Clear, DistccHosts
  PROVE  Gone(n + 1)
<1> DEFINE read == get_to_eol(Text, Instruction.end)
           both == [sec EXCEPT !.distcc_hosts = read.value,
                               !.distcplusplus_hosts = read.value]
           new == IF sec.distcplusplus_hosts_set
                    THEN [sec EXCEPT !.distcc_hosts = read.value] ELSE both
           types == {"distcc-hosts"}
<1>1. Instructed(types) /\ Set(read, new)
  BY DEF DistccHosts
<1>2. PICK line : LineOf(types, line)
  BY <1>1, InstructionLine
<1> DEFINE e == EntryAt(Text, line)
<1>3. e.key = "distcc-hosts" /\ Yields(Text, line, read, e.value)
  <2>1. Words(Text)[line][1] = "distcc-hosts"
    BY <1>2 DEF LineOf
  <2>2. QED
    BY <1>1, <1>2, <2>1, LineOfIs, PlainRead DEF Plain, Hosts
<1>4. Effect(sec, e, new)
  <2>1. Complete(sec)
    BY <1>1, SecComplete
  <2>2. read.value = e.value
    BY <1>3 DEF Yields
  <2>3. QED
    BY <1>3, <2>1, <2>2, EffectHosts
<1> HIDE DEF read, new, e, types
<1>5. QED
  BY <1>1, <1>2, <1>3, <1>4, ObeysIs DEF e

LEMMA DistcplusplusHostsFollows ==
  ASSUME NEW n, Going(n), Clear, DistcplusplusHosts
  PROVE  Gone(n + 1)
<1> DEFINE read == get_to_eol(Text, Instruction.end)
           new == [sec EXCEPT !.distcplusplus_hosts = read.value,
                              !.distcplusplus_hosts_set = TRUE]
           types == {"distc++-hosts"}
<1>1. Instructed(types) /\ Set(read, new)
  BY DEF DistcplusplusHosts
<1>2. PICK line : LineOf(types, line)
  BY <1>1, InstructionLine
<1> DEFINE e == EntryAt(Text, line)
<1>3. e.key = "distc++-hosts" /\ Yields(Text, line, read, e.value)
  <2>1. Words(Text)[line][1] = "distc++-hosts"
    BY <1>2 DEF LineOf
  <2>2. QED
    BY <1>1, <1>2, <2>1, LineOfIs, PlainRead DEF Plain, Hosts
<1>4. Effect(sec, e, new)
  <2>1. Complete(sec)
    BY <1>1, SecComplete
  <2>2. read.value = e.value
    BY <1>3 DEF Yields
  <2>3. QED
    BY <1>3, <2>1, <2>2, EffectHosts
<1> HIDE DEF read, new, e, types
<1>5. QED
  BY <1>1, <1>2, <1>3, <1>4, ObeysIs DEF e

LEMMA ProgramFollows ==
  ASSUME NEW n, Going(n), Clear, Program
  PROVE  Gone(n + 1)
<1> DEFINE read == get_path(Text, Instruction.end)
           new == [sec EXCEPT !.names[Instruction.type] = read.value]
<1>1. Instructed(Names) /\ Set(read, new)
  BY DEF Program
<1>2. PICK line : LineOf(Names, line)
  BY <1>1, InstructionLine
<1> DEFINE e == EntryAt(Text, line)
           w == Words(Text)[line]
<1>3. w[1] \in Names /\ Instruction.type = w[1]
  BY <1>1, <1>2, LineOfIs
<1>4. ~Disabled(w, e)
  <2>1. w[1] \notin Tools
    BY <1>3 DEF Names, Tools
  <2>2. FormOf(w, RestOf(Text, line), e)
    BY <1>1, <1>2, LineOfIs
  <2>3. Len(w) = 3 /\ w[2] = "="
    BY <1>3, <2>1, <2>2 DEF FormOf
  <2>4. QED
    BY <2>3 DEF Disabled
<1>5. e.key = w[1] /\ Yields(Text, line, read, e.value)
  <2>1. /\ RightLine(Text, line) /\ line \in Starts(Text) /\ Text[line] = "ws"
        /\ Behind(Text, line, Instruction.end, 1)
    BY <1>1, <1>2, LineOfIs
  <2>2. w[1] \in Paths /\ w[1] \in Names \cup Tools \cup {"lock-file"}
    BY <1>3 DEF Paths
  <2> DEFINE path == Expanded(w[3])
             p == Instruction.end
  <2>3. /\ Yields(Text, line, get_path(Text, p), {path}) /\ e.key = w[1]
        /\ e.key \in Names \cup Tools \cup {"lock-file"} => e.value = {path}
    <3> HIDE DEF p
    <3>1. QED
      BY <1>4, <2>1, <2>2, PathIs DEF p
  <2> HIDE DEF path
  <2>4. QED
    BY <2>2, <2>3
<1>6. Effect(sec, e, new)
  <2>1. Complete(sec)
    BY <1>1, SecComplete
  <2>2. read.value = e.value
    BY <1>5 DEF Yields
  <2>3. QED
    BY <1>3, <1>5, <2>1, <2>2, EffectProgram
<1> HIDE DEF read, new, e
<1>7. QED
  BY <1>1, <1>2, <1>5, <1>6, ObeysIs DEF e

LEMMA AddToFollows ==
  ASSUME NEW n, Going(n), Clear, AddTo
  PROVE  Gone(n + 1)
<1> DEFINE to == peek_token(Text, Instruction.end)
           list == IF to.type = "make" THEN "make_add" ELSE "env_add"
           read == get_to_eol(Text, to.end)
           new == [sec EXCEPT ![list] =
                     IF read.value = {} THEN <<>>
                     ELSE <<CHOOSE x \in read.value : TRUE>> \o @]
           types == {"add"}
<1>1. Instructed(types)
  BY DEF AddTo
<1>2. PICK line : LineOf(types, line)
  BY <1>1, InstructionLine
<1> DEFINE e == EntryAt(Text, line)
<1>3. /\ to.type \in {"make", "env"} /\ e.key = list
      /\ Yields(Text, line, read, e.value)
  <2>1. Words(Text)[line][1] = "add"
    BY <1>2 DEF LineOf
  <2>2. QED
    BY <1>1, <1>2, <2>1, LineOfIs, AddIs
<1>4. Set(read, new)
  BY <1>3 DEF AddTo
<1>5. Effect(sec, e, new)
  <2>1. Complete(sec)
    BY <1>1, SecComplete
  <2>2. read.value = e.value
    BY <1>3 DEF Yields
  <2>3. e.key \in {"make_add", "env_add"}
    BY <1>3
  <2>4. new = [sec EXCEPT ![e.key] = Adds(e, @)]
    BY <1>3, <2>2 DEF Adds
  <2>5. QED
    BY <2>1, <2>3, <2>4, EffectPlain
<1> HIDE DEF read, new, e, types
<1>6. QED
  BY <1>1, <1>2, <1>3, <1>4, <1>5, ObeysIs DEF e

LEMMA LockFileFollows ==
  ASSUME NEW n, Going(n), Clear, LockFile
  PROVE  Gone(n + 1)
<1> DEFINE read == get_path(Text, Instruction.end)
           file == CHOOSE x \in read.value : TRUE
           new == [sec EXCEPT !.lock_file = {file}, !.lock_fd = file]
           types == {"lock-file"}
<1>1. Instructed(types)
  BY DEF LockFile
<1>2. PICK line : LineOf(types, line)
  BY <1>1, InstructionLine
<1> DEFINE e == EntryAt(Text, line)
           w == Words(Text)[line]
           path == Expanded(w[3])
<1>3. w[1] = "lock-file"
  BY <1>2 DEF LineOf
<1>4. ~Disabled(w, e)
  <2>1. FormOf(w, RestOf(Text, line), e)
    BY <1>1, <1>2, LineOfIs
  <2>2. Len(w) = 3 /\ w[2] = "="
    BY <1>3, <2>1 DEF FormOf, Tools
  <2>3. QED
    BY <2>2 DEF Disabled
<1>5. e.key = "lock-file" /\ Yields(Text, line, read, {path}) /\ e.value = {path}
      /\ path \in Locked
  BY <1>1, <1>2, <1>3, <1>4, LineOfIs, PathIs DEF Paths
<1>6. read.value = {path} /\ read.ok
  BY <1>5 DEF Yields
<1> HIDE DEF path, read
<1>7. file = path
  BY <1>6
<1>8. Set(read, new)
  BY <1>5, <1>6, <1>7 DEF LockFile, read
<1>9. Yields(Text, line, read, e.value)
  BY <1>5
<1>10. Effect(sec, e, new)
  <2>1. Complete(sec)
    BY <1>1, SecComplete
  <2> HIDE DEF file
  <2>2. QED
    BY <1>5, <1>7, <2>1, EffectLockFile
<1> HIDE DEF new, e, types
<1>11. QED
  BY <1>1, <1>2, <1>8, <1>9, <1>10, ObeysIs DEF e

-----------------------------------------------------------------------------
(* Includes, headers and ends.                                             *)

\* An include that names a file of the disk.
Includes(line, from, in) ==
  LET r == stack[Len(stack)]
      e == EntryAt(Text, line)
  IN /\ NextLine(Text, r.at, line) /\ line \in Starts(Text) /\ e.key = "include"
     /\ Yields(Text, line, get_path(Text, from), {e.value})
     /\ Text[line] = "ws" <=> r.in # "file"
     /\ Text[line] # "ws" => Text[line] = "include"
     /\ in = "fragment" <=> r.in # "file"
     /\ in \in {"file", "fragment"}

\* Then the file is read next, and no entry more is read.
LEMMA IncludeFollows ==
  ASSUME NEW n, Going(n), Clear, stack # <<>>, NEW from, NEW in, NEW line,
         Includes(line, from, in), Include(get_path(Text, from), in)
  PROVE  Gone(n)
<1> DEFINE N == Len(stack)
           r == stack[N]
           read == get_path(Text, from)
           end == read.end
           m == At(end)
           q == m[N]
           e == EntryAt(Text, line)
           f == e.value
           p == Reader(f, in)
           t == Append(m, p)
<1>1. /\ Readers(stack) /\ N \in Nat \ {0} /\ ReaderOf(disk, r)
      /\ r.text = Text /\ IsText(Text) /\ TypeOK /\ Sound(disk)
  BY Seen DEF Going
<1>2. /\ NextLine(Text, r.at, line) /\ line \in Starts(Text) /\ e.key = "include"
      /\ Text[line] = "ws" <=> r.in # "file"
      /\ Text[line] # "ws" => Text[line] = "include"
      /\ in = "fragment" <=> r.in # "file"
      /\ in \in {"file", "fragment"}
  BY DEF Includes
<1>3. read.ok /\ read.value = {f} /\ LineRead(Text, line, end)
  BY DEF Includes, Yields
<1>4. f \in DOMAIN disk
  BY <1>2 DEF Clear
<1>5. end \in 1 .. Len(Text) + 1
  <2> HIDE DEF end
  <2>1. QED
    BY <1>1, <1>2, <1>3, AfterLine
<1>6. /\ Readers(m) /\ Len(m) = N /\ \A i \in 1 .. N - 1 : m[i] = stack[i]
      /\ q.text = r.text /\ q.at = end /\ q.in = r.in /\ m # <<>>
  <2> HIDE DEF end
  <2>1. QED
    BY <1>1, <1>5, AtIs
<1>7. stack' = t /\ UNCHANGED <<disk, result, sec, failed>>
  <2> DEFINE file == CHOOSE x \in read.value : TRUE
  <2>1. file = f
    <3> HIDE DEF read, e
    <3>1. QED
      BY <1>3
  <2>2. IF read.ok /\ file \in DOMAIN disk
          THEN /\ stack' = Append(At(read.end), Reader(file, in))
               /\ UNCHANGED <<disk, result, sec, failed>>
          ELSE Die
    BY DEF Include
  <2> HIDE DEF file, read, e
  <2>3. QED
    BY <1>3, <1>4, <2>1, <2>2
<1>8. /\ DOMAIN p = {"text", "at", "in"} /\ IsText(p.text) /\ p.at = 1
      /\ p.text = disk[f] /\ p.in = in
  BY <1>1, <1>4 DEF Reader, TypeOK
<1>9. p = t[Len(t)] /\ Under(m, t) /\ Readers(t) /\ t # <<>>
  <2>1. \/ p.in = "file" /\ m[Len(m)].in = "file"
        \/ p.in = "fragment" /\ m[Len(m)].in # "file"
    BY <1>2, <1>6, <1>8
  <2>2. m \in Seq(Range(m))
    BY <1>6 DEF Readers
  <2> HIDE DEF m, p
  <2>3. Readers(t) /\ Len(t) = Len(m) + 1 /\ \A i \in 1 .. Len(m) : t[i] = m[i]
    BY <1>6, <1>8, <2>1, Included
  <2>4. t[Len(m) + 1] = p
    BY <2>2
  <2>5. Len(m) \in Nat
    BY <1>6 DEF Readers
  <2>6. t # <<>>
    BY <2>3, <2>5
  <2>7. QED
    BY <2>3, <2>4, <2>6 DEF Under
<1>10. FileReader(disk, p, f, in)
  BY <1>8 DEF FileReader
<1>11. Beside(stack, m)
  BY <1>1, <1>6 DEF Beside
<1>12. /\ r = stack[N] /\ q = m[N] /\ e = EntryAt(Text, line)
       /\ NextLine(Text, r.at, line) /\ LineRead(Text, line, q.at)
       /\ q.text = Text /\ r.text = Text /\ q.in = r.in
  BY <1>1, <1>2, <1>3, <1>6
<1>13. Follow(disk, stack, result, sec, n) /\ ~failed
  BY DEF Going
<1>14. FileReader(disk, p, e.value, in) /\ e.value \in DOMAIN disk
  BY <1>4, <1>10
<1> HIDE DEF t, m, p, q, r, e, end
<1>15. Follow(disk, t, result, sec, n)
  BY <1>1, <1>2, <1>6, <1>9, <1>11, <1>12, <1>13, <1>14, FollowInclude DEF N
<1>16. QED
  BY <1>7, <1>9, <1>13, <1>15 DEF Gone

\* A section includes a fragment.
LEMMA IncludeFragmentFollows ==
  ASSUME NEW n, Going(n), Clear, IncludeFragment
  PROVE  Gone(n)
<1> DEFINE from == Instruction.end
           types == {"include"}
<1>1. Instructed(types) /\ Include(get_path(Text, from), "fragment")
  BY DEF IncludeFragment
<1>2. PICK line : LineOf(types, line)
  BY <1>1, InstructionLine
<1> DEFINE e == EntryAt(Text, line)
           w == Words(Text)[line]
           path == Expanded(w[3])
<1>3. /\ RightLine(Text, line) /\ line \in Starts(Text) /\ Text[line] = "ws"
      /\ Behind(Text, line, from, 1) /\ w[1] = "include"
      /\ FormOf(w, RestOf(Text, line), e) /\ Indented(line)
  BY <1>1, <1>2, LineOfIs
<1>4. ~Disabled(w, e)
  <2>1. Len(w) = 3 /\ w[2] = "="
    BY <1>3 DEF FormOf, Tools
  <2>2. QED
    BY <2>1 DEF Disabled
<1>5. /\ Yields(Text, line, get_path(Text, from), {path})
      /\ e.key = "include" /\ e.value = path
  <2>1. w[1] \in Paths
    BY <1>3 DEF Paths
  <2> HIDE DEF from
  <2>2. QED
    BY <1>3, <1>4, <2>1, PathIs
<1>6. stack # <<>> /\ stack[Len(stack)].in # "file"
  <2>1. stack # <<>> /\ Last(stack).in \in {"section", "fragment"}
    BY <1>1 DEF Instructed, Reading
  <2>2. QED
    BY <2>1, Seen
<1>7. NextLine(Text, stack[Len(stack)].at, line)
  BY <1>3 DEF Indented
<1>8. Includes(line, from, "fragment")
  BY <1>3, <1>5, <1>6, <1>7 DEF Includes
<1> HIDE DEF from
<1>9. QED
  BY <1>1, <1>6, <1>8, IncludeFollows

\* A line that is not indented.
Unindented(line) ==
  LET w == Words(Text)[line]
      e == EntryAt(Text, line)
  IN /\ NextLine(Text, stack[Len(stack)].at, line) /\ line \in Starts(Text)
     /\ Text[line] # "ws" /\ Text[line] = w[1]
     /\ Heading(w, e) \/ Inclusion(w, e)
     /\ Peeked.type = w[1] /\ Behind(Text, line, Peeked.end, 1)

\* What peek_token finds is such a line, unless the text ends.
LEMMA HeadingIs ==
  ASSUME NEW n, Going(n), Clear, stack # <<>>, Peeked.type \notin {"INDENT", "END"}
  PROVE  \E line : Unindented(line)
<1> DEFINE at == stack[Len(stack)].at
<1>1. /\ IsText(Text) /\ Tidy(Text) /\ at \in 1 .. Len(Text) + 1
      /\ Found(Text, at, Peeked)
  BY Seen
<1> HIDE DEF at
<1>2. PICK s : /\ NextLine(Text, at, s) /\ Text[s] # "ws" /\ Peeked.end = s + 1
               /\ Peeked.type = TypeOf(Text[s]) /\ Peeked.word = Text[s]
  BY <1>1, FoundTells
<1>3. s \in Starts(Text) /\ RightLine(Text, s)
  BY <1>1, <1>2, NextLineIs DEF Clear, at
<1> DEFINE w == Words(Text)[s]
           e == EntryAt(Text, s)
<1>4. /\ Heading(w, e) \/ Inclusion(w, e)
      /\ Text[s] = w[1] /\ TypeOf(w[1]) = w[1] /\ Behind(Text, s, s + 1, 1)
  BY <1>1, <1>2, <1>3, UnindentedIs
<1>5. QED
  BY <1>2, <1>3, <1>4 DEF Unindented, at

\* A file includes a file.
LEMMA IncludeFileFollows ==
  ASSUME NEW n, Going(n), Clear, IncludeFile
  PROVE  Gone(n)
<1> DEFINE from == Peeked.end
<1>1. /\ stack # <<>> /\ Last(stack).in = "file" /\ Peeked.type = "include"
      /\ Include(get_path(Text, from), "file")
  BY DEF IncludeFile, Reading
<1>2. PICK line : Unindented(line)
  BY <1>1, HeadingIs
<1> DEFINE e == EntryAt(Text, line)
           w == Words(Text)[line]
           path == Expanded(w[3])
<1>3. /\ IsText(Text) /\ Tidy(Text)
      /\ stack[Len(stack)].in = "file"
  BY <1>1, Seen
<1>4. /\ line \in Starts(Text) /\ Text[line] = "include" /\ Text[line] # "ws"
      /\ w[1] = "include" /\ Inclusion(w, e) /\ Behind(Text, line, from, 1)
      /\ NextLine(Text, stack[Len(stack)].at, line)
  BY <1>1, <1>2 DEF Unindented, Heading
<1>5. Len(w) = 3 /\ w[2] = "=" /\ e = Entry("include", path)
  BY <1>4 DEF Inclusion
<1>6. e.key = "include" /\ e.value = path
  BY <1>5, EntryIs
<1>7. TypeOf(w[3]) = "STRING"
  <2>1. Spelled(Text, line)
    BY <1>1, <1>4 DEF Clear, RightLine
  <2>2. TypeOf(Last(w)) = "STRING"
    BY <1>5, <1>6, <2>1 DEF Spelled
  <2>3. QED
    BY <1>5, <2>2 DEF Last
<1>8. Yields(Text, line, get_path(Text, from), {path})
  <2> DEFINE word == w[3]
  <2>1. word = Words(Text)[line][Len(Words(Text)[line])] /\ TypeOf(word) = "STRING"
    BY <1>5, <1>7
  <2>2. Len(Words(Text)[line]) = 1 + 2 /\ Words(Text)[line][1 + 1] = "="
    BY <1>5
  <2> HIDE DEF word, from
  <2>3. Yields(Text, line, get_path(Text, from), {Expanded(word)})
    BY <1>3, <1>4, <2>1, <2>2, PathRead
  <2>4. QED
    BY <2>3 DEF word
<1>9. Includes(line, from, "file")
  BY <1>3, <1>4, <1>6, <1>8 DEF Includes
<1> HIDE DEF from
<1>10. QED
  BY <1>1, <1>9, IncludeFollows

\* No line is wrong.
LEMMA NoInstructionFollows ==
  ASSUME NEW n, Going(n), Clear, NoInstruction
  PROVE  FALSE
<1>1. /\ stack # <<>> /\ Peeked.type = "INDENT"
      /\ Instruction.type \notin Keyword \ {"disable", "env"}
  BY DEF NoInstruction, Reading
<1>2. PICK line : Indented(line)
  BY <1>1, InstructionIs
<1>3. QED
  BY <1>1, <1>2 DEF Indented, FormOf

\* The stack without its innermost reader.
LEMMA FrontIs ==
  ASSUME NEW s, Readers(s), s # <<>>
  PROVE  LET t == Front(s)
         IN /\ Readers(t) /\ Under(t, s)
            /\ s[Len(s)].in = "fragment" => InOf(t) # "file"
            /\ s[Len(s)].in = "file" => InOf(t) = "file"
<1> DEFINE n == Len(s)
           t == Front(s)
<1>1. n \in Nat /\ DOMAIN s = 1 .. n /\ s \in Seq(Range(s))
  BY DEF Readers
<1>2. n # 0
  BY <1>1
<1>3. t = [i \in 1 .. n - 1 |-> s[i]]
  BY <1>1, <1>2 DEF Front
<1>4. Readers(t)
  BY Ended
<1>5. \A i \in 1 .. n - 1 : t[i] = s[i]
  BY <1>3
<1>6. Len(t) = n - 1 /\ DOMAIN t = 1 .. n - 1
  <2>1. n - 1 \in Nat /\ DOMAIN t = 1 .. n - 1 /\ t \in [1 .. n - 1 -> Range(s)]
    BY <1>1, <1>2, <1>3 DEF Range
  <2> HIDE DEF t
  <2>2. QED
    BY <2>1, IsSequence
<1> HIDE DEF t
<1>7. Under(t, s)
  BY <1>1, <1>2, <1>5, <1>6 DEF Under
<1>8. ReaderAt(s, n)
  BY <1>1, <1>2 DEF Readers
<1>9. s[n].in = "fragment" => InOf(t) # "file"
  <2>1. SUFFICES ASSUME s[n].in = "fragment" PROVE InOf(t) # "file"
    OBVIOUS
  <2>2. n > 1 /\ s[n - 1].in # "file"
    BY <1>8, <2>1 DEF ReaderAt
  <2>3. n - 1 \in 1 .. n - 1 /\ Len(t) = n - 1 /\ t # <<>>
    BY <1>1, <1>6, <2>2
  <2>4. QED
    BY <1>5, <2>2, <2>3 DEF InOf
<1>10. s[n].in = "file" => InOf(t) = "file"
  <2>1. SUFFICES ASSUME s[n].in = "file", t # <<>> PROVE t[Len(t)].in = "file"
    BY DEF InOf
  <2>2. \A j \in 1 .. n - 1 : s[j].in = "file"
    BY <1>8, <2>1 DEF ReaderAt
  <2>3. Len(t) # 0
    <3>1. t \in Seq(Range(t))
      BY <1>4 DEF Readers, t
    <3>2. QED
      BY <2>1, <3>1
  <2>4. Len(t) \in 1 .. n - 1
    BY <1>1, <1>2, <1>6, <2>3
  <2>5. QED
    BY <1>5, <2>2, <2>4
<1>11. QED
  BY <1>4, <1>7, <1>9, <1>10 DEF t

\* A fragment ends where its text does.
LEMMA FragmentEndsFollows ==
  ASSUME NEW n, Going(n), FragmentEnds
  PROVE  Gone(n)
<1> DEFINE r == stack[Len(stack)]
           t == Front(stack)
<1>1. /\ stack # <<>> /\ Last(stack).in = "fragment" /\ Peeked.type # "INDENT"
      /\ stack' = t /\ UNCHANGED <<disk, result, sec, failed>>
  BY DEF FragmentEnds, Reading
<1>2. /\ Readers(stack) /\ r.in = "fragment" /\ InPlace(disk, r) /\ r.text = Text
      /\ IsText(Text) /\ Tidy(Text) /\ r.at \in 1 .. Len(Text) + 1
      /\ Found(Text, r.at, Peeked)
  BY <1>1, Seen
<1>3. Ahead(Text, r.at) = {}
  <2> DEFINE at == r.at
             A == Ahead(Text, at)
             s == Min(A)
  <2>1. OfEntries(Text)
    BY <1>2 DEF InPlace
  <2>2. NotIndented(Text, at)
    <3> HIDE DEF at
    <3>1. at \in 1 .. Len(Text) + 1 /\ Found(Text, at, Peeked)
      BY <1>2 DEF at
    <3>2. QED
      BY <1>1, <1>2, <3>1, FoundTells
  <2>3. A # {} => s \in Starts(Text)
    BY <1>2, AheadIs
  <2>4. A # {} => Text[s] = "ws"
    BY <2>1, <2>3 DEF OfEntries
  <2>5. QED
    BY <2>2, <2>4 DEF NotIndented
<1>4. Readers(t) /\ Under(t, stack) /\ InOf(t) # "file"
  BY <1>1, <1>2, FrontIs
<1>5. Follow(disk, stack, result, sec, n) /\ Sound(disk) /\ ~failed
  BY DEF Going
<1>6. Ahead(r.text, r.at) = {} /\ r = stack[Len(stack)]
      /\ (InOf(t) = "file" <=> r.in = "file")
  BY <1>2, <1>3, <1>4
<1> HIDE DEF t, r
<1>7. Follow(disk, t, result, sec, n)
  BY <1>2, <1>4, <1>5, <1>6, FollowEnd
<1>8. t # <<>>
  BY <1>4 DEF InOf
<1>9. QED
  BY <1>1, <1>5, <1>7, <1>8 DEF Gone

\* A file ends where its text does.
LEMMA FileEndsFollows ==
  ASSUME NEW n, Going(n), FileEnds
  PROVE  Gone(n)
<1> DEFINE r == stack[Len(stack)]
           t == Front(stack)
           new == ResolvedOf(result)
<1>1. /\ stack # <<>> /\ Last(stack).in = "file" /\ Peeked.type = "END"
      /\ stack' = t /\ UNCHANGED <<disk, sec, failed>> /\ result' = new
  BY DEF FileEnds, Reading, ResolvedOf
<1>2. /\ Readers(stack) /\ r.in = "file" /\ r.text = Text
      /\ IsText(Text) /\ Tidy(Text) /\ r.at \in 1 .. Len(Text) + 1
      /\ Found(Text, r.at, Peeked)
  BY <1>1, Seen
<1>3. Ahead(Text, r.at) = {}
  <2> DEFINE at == r.at
  <2>1. at \in 1 .. Len(Text) + 1 /\ Found(Text, at, Peeked)
    BY <1>2
  <2> HIDE DEF at
  <2>2. Ahead(Text, at) = {}
    BY <1>1, <1>2, <2>1, FoundTells
  <2>3. QED
    BY <2>2 DEF at
<1>4. Readers(t) /\ Under(t, stack) /\ InOf(t) = "file"
  BY <1>1, <1>2, FrontIs
<1>5. Follow(disk, stack, result, sec, n) /\ Sound(disk) /\ ~failed /\ NoNesting
  BY DEF Going
<1>6. Ahead(r.text, r.at) = {} /\ r = stack[Len(stack)]
      /\ (InOf(t) = "file" <=> r.in = "file")
  BY <1>2, <1>3, <1>4
<1>7. DOMAIN result = Fields
  BY FieldsAre DEF Going, TypeOK, Settings
<1> HIDE DEF t, r
<1>8. Follow(disk, t, result, sec, n)
  BY <1>2, <1>4, <1>5, <1>6, FollowEnd
<1>9. Follow(disk, t, new, sec, n)
  BY <1>4, <1>5, <1>7, <1>8, FollowResolved
<1>10. Resolved(new)
  BY <1>5, <1>7, ResolvedIs
<1> HIDE DEF new
<1>11. Resolved(result')
  BY <1>1, <1>10
<1>12. QED
  BY <1>1, <1>5, <1>9, <1>11 DEF Gone

\* A file becomes a section of it, and a section the file again.
Switched(s, t, r, in, at) ==
  /\ r = [[s[Len(s)] EXCEPT !.in = in] EXCEPT !.at = at]
  /\ t = [s EXCEPT ![Len(s)] = r]

\* The other readers stay.
LEMMA SwitchIs ==
  ASSUME TypeOK, stack # <<>>, NEW in \in {"file", "section"},
         stack[Len(stack)].in \in {"file", "section"}, NEW at \in 1 .. Len(Text) + 1,
         NEW t, NEW r, Switched(stack, t, r, in, at)
  PROVE  /\ Readers(t) /\ Beside(stack, t) /\ t[Len(stack)] = r /\ t # <<>>
         /\ r.text = Text /\ r.at = at /\ r.in = in
<1> DEFINE n == Len(stack)
<1>1. /\ Readers(stack) /\ n \in Nat \ {0} /\ ReaderAt(stack, n)
      /\ stack[n].text = Text
  BY PlaceIs
<1>2. LastIs(stack, t, r)
  <2>1. t = Replaced(stack, r)
    BY DEF Replaced, Switched
  <2>2. stack \in Seq(Range(stack))
    BY <1>1 DEF Readers
  <2>3. LastIs(stack, Replaced(stack, r), r)
    BY <1>1, <2>2, ReplacedIs
  <2>4. QED
    BY <2>1, <2>3
<1>3. DOMAIN stack[n] = {"text", "at", "in"}
  BY <1>1 DEF ReaderAt
<1>4. /\ DOMAIN r = {"text", "at", "in"} /\ r.at = at
      /\ r.text = stack[n].text /\ r.in = in
  BY <1>3 DEF Switched
<1>5. in \in Kinds /\ (in = "fragment" <=> stack[n].in = "fragment")
  BY DEF Kinds
<1>6. Readers(t)
  BY <1>1, <1>2, <1>4, <1>5, Moved
<1>7. t # <<>>
  BY <1>1, <1>2 DEF LastIs
<1>8. QED
  BY <1>1, <1>2, <1>4, <1>6, <1>7 DEF LastIs, Beside

\* The end of a section.
LEMMA SectionEndsFollows ==
  ASSUME NEW n, Going(n), SectionEnds
  PROVE  Gone(n)
<1> DEFINE r == stack[Len(stack)]
           at == r.at
           q == [[r EXCEPT !.in = "file"] EXCEPT !.at = at]
           t == [stack EXCEPT ![Len(stack)] = q]
           new == IF Matches(sec) THEN sec ELSE result
<1>1. /\ stack # <<>> /\ Last(stack).in = "section" /\ Peeked.type # "INDENT"
      /\ stack' = [stack EXCEPT ![Len(stack)].in = "file"]
      /\ UNCHANGED <<disk, sec, failed>> /\ result' = new
  BY DEF SectionEnds, Reading, Matches, section_matches
<1>2. /\ Readers(stack) /\ r.in = "section" /\ r.text = Text
      /\ IsText(Text) /\ Tidy(Text) /\ at \in 1 .. Len(Text) + 1
      /\ Found(Text, at, Peeked) /\ TypeOK
  BY <1>1, Seen DEF Going
<1>3. stack' = t
  <2>1. ReaderAt(stack, Len(stack))
    BY <1>1, PlaceIs DEF Going
  <2>2. q = [r EXCEPT !.in = "file"]
    BY <2>1 DEF ReaderAt
  <2> HIDE DEF q
  <2>3. QED
    BY <1>1, <2>2
<1>4. NotIndented(Text, at)
  <2> HIDE DEF at
  <2>1. QED
    BY <1>1, <1>2, FoundTells
<1>5. /\ Readers(t) /\ Beside(stack, t) /\ t[Len(stack)] = q /\ t # <<>>
      /\ q.text = Text /\ q.at = at /\ q.in = "file"
  <2> DEFINE i == "file"
  <2>1. i \in {"file", "section"} /\ stack[Len(stack)].in \in {"file", "section"}
    BY <1>2
  <2>2. Switched(stack, t, q, i, at)
    BY DEF Switched
  <2> HIDE DEF i, q, t, at
  <2>3. QED
    BY <1>1, <1>2, <2>1, <2>2, SwitchIs DEF i
<1>6. Follow(disk, stack, result, sec, n) /\ Sound(disk) /\ ~failed
  BY DEF Going
<1>7. /\ r = stack[Len(stack)] /\ q = t[Len(stack)] /\ q.text = r.text /\ q.at = r.at
      /\ NotIndented(r.text, r.at)
  BY <1>2, <1>4, <1>5
<1>8. new = IF Matches(sec) THEN sec ELSE result
  OBVIOUS
<1> HIDE DEF t, r, q, at, new
<1>9. Follow(disk, t, new, sec, n)
  BY <1>2, <1>5, <1>6, <1>7, <1>8, FollowSection
<1>10. QED
  BY <1>1, <1>3, <1>5, <1>6, <1>9 DEF Gone

\* The header of the next one.
LEMMA SectionFollows ==
  ASSUME NEW n, Going(n), Clear, Section
  PROVE  Gone(n + 1)
<1> DEFINE N == Len(stack)
           r == stack[N]
           name == peek_token(Text, Peeked.end)
           close == peek_token(Text, name.end)
           at == close.end
           q == [[r EXCEPT !.in = "section"] EXCEPT !.at = at]
           t == [stack EXCEPT ![N] = q]
           new == [result EXCEPT !.name = {name.word}]
<1>1. /\ stack # <<>> /\ Last(stack).in = "file"
      /\ Peeked.type \notin {"include", "END"}
  BY DEF Section, Reading
<1>2. /\ Readers(stack) /\ r.in = "file" /\ r.text = Text /\ TypeOK
      /\ IsText(Text) /\ Tidy(Text)
      /\ r.at \in 1 .. Len(Text) + 1 /\ Found(Text, r.at, Peeked) /\ InPlace(disk, r)
  BY <1>1, Seen DEF Going
<1>3. Peeked.type # "INDENT"
  <2> DEFINE from == r.at
             s == Min(Ahead(Text, from))
  <2>1. NotIndented(Text, from)
    BY <1>2 DEF InPlace
  <2>2. Ahead(Text, from) # {} => Text[s] # "ws"
    BY <2>1 DEF NotIndented
  <2>3. \A word : TypeOf(word) # "INDENT"
    BY TypeIs DEF Marks, Keyword, Names, Tools, Hosts
  <2>4. Found(Text, from, Peeked)
    BY <1>2
  <2> HIDE DEF from
  <2>5. QED
    BY <2>2, <2>3, <2>4 DEF Found
<1>4. PICK line : Unindented(line)
  BY <1>1, <1>3, HeadingIs
<1> DEFINE w == Words(Text)[line]
           e == EntryAt(Text, line)
<1>5. /\ NextLine(Text, r.at, line) /\ line \in Starts(Text)
      /\ Heading(w, e) /\ Peeked.type = "[" /\ Behind(Text, line, Peeked.end, 1)
  BY <1>1, <1>4 DEF Unindented, Heading, Inclusion
<1>6. Len(w) = 3 /\ w[3] = "]" /\ e = Entry("[", w[2])
  BY <1>5 DEF Heading
<1>7. e.key = "[" /\ e.value = w[2]
  BY <1>6, EntryIs
<1>8. TypeOf(w[2]) = "STRING"
  BY <1>1, <1>5, <1>7 DEF Clear, RightLine, Spelled
<1>9. name.type = "STRING" /\ name.word = w[2] /\ Behind(Text, line, name.end, 2)
  <2> DEFINE p == Peeked.end
             tok == peek_token(Text, p)
  <2>1. Behind(Text, line, p, 1) /\ 1 < Len(Words(Text)[line])
    BY <1>5, <1>6
  <2> HIDE DEF p
  <2>2. /\ tok.type = TypeOf(w[1 + 1]) /\ tok.word = w[1 + 1]
        /\ Behind(Text, line, tok.end, 1 + 1)
    BY <1>2, <1>5, <2>1, NextWord
  <2>3. QED
    BY <1>8, <2>2 DEF p
<1>10. close.type = "]" /\ Behind(Text, line, close.end, 3)
  <2> DEFINE p == name.end
             tok == peek_token(Text, p)
  <2>1. Behind(Text, line, p, 2) /\ 2 < Len(Words(Text)[line])
    BY <1>6, <1>9
  <2> HIDE DEF p
  <2>2. tok.type = TypeOf(w[2 + 1]) /\ Behind(Text, line, tok.end, 2 + 1)
    BY <1>2, <1>5, <2>1, NextWord
  <2>3. TypeOf("]") = "]"
    BY DEF TypeOf, Marks
  <2>4. QED
    BY <1>6, <2>2, <2>3 DEF p
<1>11. LineRead(Text, line, at)
  <2>1. Behind(Text, line, at, Len(Words(Text)[line]))
    BY <1>6, <1>10
  <2> HIDE DEF at
  <2>2. QED
    BY <1>2, <1>5, <2>1, LineIsRead
<1>12. at \in 1 .. Len(Text) + 1
  <2> HIDE DEF at
  <2>1. QED
    BY <1>2, <1>5, <1>11, AfterLine
<1>13. sec' = new /\ stack' = t /\ UNCHANGED <<disk, result, failed>>
  <2>1. Peeked.type = "[" /\ name.type = "STRING" /\ close.type = "]"
    BY <1>5, <1>9, <1>10
  <2>2. QED
    BY <2>1 DEF Section
<1>14. /\ Readers(t) /\ Beside(stack, t) /\ t[N] = q /\ t # <<>>
       /\ q.text = Text /\ q.at = at /\ q.in = "section"
  <2> DEFINE i == "section"
  <2>1. i \in {"file", "section"} /\ stack[Len(stack)].in \in {"file", "section"}
    BY <1>2
  <2>2. Switched(stack, t, q, i, at)
    BY DEF Switched
  <2> HIDE DEF i, q, t, at
  <2>3. QED
    BY <1>1, <1>2, <1>12, <2>1, <2>2, SwitchIs DEF i
<1>15. Headed(e, result, new)
  <2>1. DOMAIN result = Fields
    BY <1>2, FieldsAre DEF TypeOK, Settings
  <2>2. Alike(result, new) /\ new.name = {name.word}
    BY <2>1 DEF Alike, Fields
  <2>3. w[2] # ""
    <3>1. w \in Seq(Range(Text))
      <4>1. line \in 1 .. Len(Text) + 1
        BY <1>2, <1>5, StartIs
      <4>2. QED
        BY <1>2, <4>1, WordsAreSeq
    <3>2. w[2] \in Range(Text)
      BY <1>6, <3>1
    <3>3. "" \notin Range(Text)
      BY <1>2 DEF Tidy
    <3>4. QED
      BY <3>2, <3>3
  <2> HIDE DEF new, name, e
  <2>4. QED
    BY <1>7, <1>9, <2>2, <2>3 DEF Headed
<1>16. Follow(disk, stack, result, sec, n) /\ Sound(disk) /\ ~failed
  BY DEF Going
<1>17. /\ r = stack[N] /\ q = t[N] /\ e = EntryAt(Text, line)
       /\ NextLine(Text, r.at, line) /\ LineRead(Text, line, q.at)
       /\ q.text = Text /\ r.text = Text
  BY <1>2, <1>5, <1>11, <1>14
<1> HIDE DEF t, r, q, at, new, e, name, close
<1>18. Follow(disk, t, result, new, n + 1)
  BY <1>2, <1>14, <1>15, <1>16, <1>17, FollowHeader DEF N
<1>19. QED
  BY <1>13, <1>14, <1>16, <1>18 DEF Gone

-----------------------------------------------------------------------------
(* The steps at a line that is wrong.                                      *)

\* The next line of the innermost reader is wrong, or includes what is not there.
Blocked(files, r, line) ==
  /\ NextLine(r.text, r.at, line)
  /\ LET e == EntryAt(r.text, line)
     IN e.key = "wrong" \/ (e.key = "include" /\ e.value \notin DOMAIN files)

\* Then something in the files is.
LEMMA BlockedIs ==
  ASSUME NEW files, Sound(files), NEW s, Readers(s), s # <<>>, NEW res, NEW sc, NEW n,
         Follow(files, s, res, sc, n), NEW line, Blocked(files, s[Len(s)], line)
  PROVE  Faulty(Inserted(files))
<1> DEFINE c == Contents(files)
           S == AllEntries(files)
           entries == Inserted(files)
           r == s[Len(s)]
           after == EntriesFrom(c, r.text)
           e == EntryAt(r.text, line)
           u == Unread(files, s)
           t == Front(s)
<1>1. Len(s) \in Nat \ {0} /\ Len(s) \in 1 .. Len(s)
  <2>1. s \in Seq(Range(s))
    BY DEF Readers
  <2>2. QED
    BY <2>1
<1>2. AllInPlace(files, s) /\ Left(entries, n, u)
  BY DEF Follow
<1>3. Waiting(files, s) /\ ReaderOf(files, r)
  <2>1. Waiting(files, s)
    BY <1>2, WaitingIs
  <2>2. QED
    BY <1>1, <2>1 DEF Waiting
<1>4. Readers(t) /\ Under(t, s) /\ Waiting(files, t)
  <2>1. Readers(t) /\ Under(t, s)
    BY FrontIs
  <2>2. AllInPlace(files, t)
    BY <1>1, <1>2, <2>1 DEF AllInPlace, Under
  <2>3. QED
    BY <2>1, <2>2, WaitingIs
<1>5. u = Rest(files, r) \o Unread(files, t) /\ Unread(files, t) \in Seq(S)
  BY <1>3, <1>4, UnreadSplit
<1>6. /\ IsText(r.text) /\ r.at \in 1 .. Len(r.text) + 1
      /\ EntriesOf(c, r.text, S, after)
  BY <1>3, RestIs
<1>7. /\ line \in Starts(r.text) /\ line \in r.at .. Len(r.text)
      /\ line \in 1 .. Len(r.text) /\ \A i \in r.at .. line - 1 : i \notin Starts(r.text)
  BY <1>6, NextLineIs DEF Blocked
<1>8. Len(r.text) \in Nat
  BY <1>6, TextIs
<1>9. line \in r.at .. Len(r.text) + 1 /\ line + 1 \in 1 .. Len(r.text) + 1
  BY <1>7, <1>8
<1>10. Rest(files, r) = Expansion(c, e) \o after[line + 1]
  <2>1. after[r.at] = after[line]
    <3> DEFINE at == r.at
               text == r.text
    <3>1. /\ IsText(text) /\ at \in 1 .. Len(text) + 1
          /\ EntriesOf(c, text, S, after) /\ line \in at .. Len(text) + 1
          /\ \A i \in at .. line - 1 : i \notin Starts(text)
      BY <1>6, <1>7, <1>9
    <3> HIDE DEF at, text, after, c, S
    <3>2. after[at] = after[line]
      BY <3>1, AfterSkips
    <3>3. QED
      BY <3>2 DEF at
  <2>2. after[line] = Expansion(c, e) \o after[line + 1]
    BY <1>6, <1>7 DEF EntriesOf, StartAt
  <2>3. QED
    BY <2>1, <2>2 DEF Rest
<1>11. after[line + 1] \in Seq(S)
  BY <1>6, <1>9 DEF EntriesOf
<1>12. e \in S /\ Wrong \in S
  BY <1>3, <1>7, EntryThere DEF AllEntries
<1>13. \E x \in S : x.key = "wrong" /\ Expansion(c, e) = <<x>>
  <2>1. CASE e.key = "wrong"
    BY <1>12, <2>1 DEF Expansion
  <2>2. CASE e.key = "include" /\ e.value \notin DOMAIN files
    <3>1. DOMAIN c = DOMAIN files
      BY SoundIs DEF ContentsOf
    <3>2. Expansion(c, e) = <<Wrong>>
      BY <2>2, <3>1 DEF Expansion
    <3>3. Wrong.key = "wrong"
      BY EntryIs DEF Wrong
    <3>4. QED
      BY <1>12, <3>2, <3>3
  <2>3. QED
    BY <2>1, <2>2 DEF Blocked
<1>14. PICK x \in S : x.key = "wrong" /\ Expansion(c, e) = <<x>>
  BY <1>13
<1> DEFINE v == after[line + 1] \o Unread(files, t)
<1>15. u = <<x>> \o v /\ v \in Seq(S)
  <2> DEFINE a == after[line + 1]
             b == Unread(files, t)
  <2>1. u = (<<x>> \o a) \o b /\ a \in Seq(S) /\ b \in Seq(S)
    BY <1>5, <1>10, <1>11, <1>14
  <2> HIDE DEF a, b, u, S
  <2>2. (<<x>> \o a) \o b = <<x>> \o (a \o b) /\ a \o b \in Seq(S)
    BY <2>1
  <2>3. QED
    BY <2>1, <2>2 DEF a, b
<1>16. entries \in Seq(S)
  BY InsertedIs
<1> HIDE DEF S, entries, u, v
<1>17. EntryNext(entries, n, x, v)
  BY <1>2, <1>14, <1>15, <1>16, LeftStep
<1>18. n + 1 \in 1 .. Len(entries) /\ entries[n + 1] = x
  BY <1>17 DEF EntryNext
<1>19. QED
  BY <1>14, <1>16, <1>18 DEF Faulty, entries

\* The reading fails, or it is about to.
Dooms == failed' \/ Doomed(stack')

\* Such a line is wrong itself, or an include of what is not there.
Missing(line) ==
  /\ RightLine(Text, line) /\ EntryAt(Text, line).key = "include"
  /\ EntryAt(Text, line).value \notin DOMAIN disk

\* Where the next line is not clear, it is blocked; and no line of a fragment
\* is wrong.
LEMMA UnclearIs ==
  ASSUME NEW n, Going(n), stack # <<>>, ~Clear
  PROVE  \E line : /\ NextLine(Text, stack[Len(stack)].at, line)
                   /\ Blocked(disk, stack[Len(stack)], line)
                   /\ WrongLine(Text, line) \/ Missing(line)
                   /\ WrongLine(Text, line) => Last(stack).in # "fragment"
<1> DEFINE r == stack[Len(stack)]
<1>1. /\ Last(stack) = r /\ InPlace(disk, r) /\ r.text = Text /\ LegibleText(Text)
      /\ IsText(Text) /\ Tidy(Text)
  BY Seen
<1>2. PICK line : /\ NextLine(Text, r.at, line)
                  /\ \/ ~RightLine(Text, line)
                     \/ /\ EntryAt(Text, line).key = "include"
                        /\ EntryAt(Text, line).value \notin DOMAIN disk
  BY DEF Clear
<1> DEFINE e == EntryAt(Text, line)
<1>3. line \in Starts(Text)
  BY <1>1, <1>2, NextLineIs
<1>4. RightLine(Text, line) \/ WrongLine(Text, line)
  BY <1>1, <1>3 DEF LegibleText, RightLine, WrongLine
<1>5. WrongLine(Text, line) => e.key = "wrong"
  BY DEF WrongLine, Misspelled
<1>6. WrongLine(Text, line) \/ Missing(line)
  BY <1>2, <1>4 DEF Missing
<1>7. Blocked(disk, r, line)
  BY <1>1, <1>2, <1>5, <1>6 DEF Blocked, Missing
<1>8. r.in = "fragment" => e.key # "wrong"
  BY <1>1, <1>3 DEF InPlace, OfEntries
<1>9. QED
  BY <1>1, <1>2, <1>5, <1>6, <1>7, <1>8

\* In the files something is wrong then.
LEMMA UnclearFaulty ==
  ASSUME NEW n, Going(n), stack # <<>>, ~Clear
  PROVE  Faulty(Inserted(disk))
<1>1. PICK line : Blocked(disk, stack[Len(stack)], line)
  BY UnclearIs
<1>2. Readers(stack) /\ Sound(disk) /\ Follow(disk, stack, result, sec, n)
  BY Seen DEF Going
<1>3. QED
  BY <1>1, <1>2, BlockedIs

\* The line of an instruction that is wrong.
WrongInstruction(types, line) ==
  /\ WrongLine(Text, line) /\ Behind(Text, line, Instruction.end, 1)
  /\ Words(Text)[line][1] \in types /\ Instruction.type = Words(Text)[line][1]
  /\ ~Understood(Words(Text)[line]) /\ Len(Words(Text)[line]) \in Nat \ {0}

\* An indented line: its first word is the instruction.
LEMMA InstructionAt ==
  ASSUME NEW n, Going(n), NEW types \in SUBSET Keyword, Instructed(types), NEW line,
         NextLine(Text, stack[Len(stack)].at, line)
  PROVE  /\ Text[line] = "ws" /\ Behind(Text, line, Instruction.end, 1)
         /\ Words(Text)[line][1] \in types /\ Instruction.type = Words(Text)[line][1]
<1> DEFINE at == stack[Len(stack)].at
           w == Words(Text)[line]
<1>1. /\ stack # <<>> /\ Peeked.type = "INDENT" /\ Instruction.type \in types
  BY DEF Instructed, Reading
<1>2. /\ IsText(Text) /\ Tidy(Text) /\ at \in 1 .. Len(Text) + 1
      /\ Found(Text, at, Peeked) /\ NextLine(Text, at, line)
  BY <1>1, Seen
<1> HIDE DEF at
<1>3. /\ Text[line] = "ws" /\ Peeked.end = line + 1 /\ line \in Starts(Text)
  <2>1. \E s : NextLine(Text, at, s) /\ Text[s] = "ws" /\ Peeked.end = s + 1
    BY <1>1, <1>2, FoundTells
  <2>2. \A s : NextLine(Text, at, s) => s = line
    BY <1>2 DEF NextLine
  <2>3. QED
    BY <1>2, <2>1, <2>2, NextLineIs
<1>4. Instruction = peek_token(Text, line + 1)
  BY <1>3 DEF Instruction
<1>5. Behind(Text, line, line + 1, 0) /\ 0 < Len(w)
  <2>1. Len(w) \in Nat \ {0}
    BY <1>2, <1>3, StartIs
  <2>2. QED
    BY <1>2, <1>3, <2>1, LineBegins
<1>6. Instruction.type = TypeOf(w[0 + 1]) /\ Behind(Text, line, Instruction.end, 0 + 1)
  <2> HIDE DEF w
  <2>1. LET tok == peek_token(Text, line + 1)
        IN tok.type = TypeOf(w[0 + 1]) /\ Behind(Text, line, tok.end, 0 + 1)
    BY <1>2, <1>3, <1>5, NextWord DEF w
  <2>2. QED
    BY <1>4, <2>1
<1>7. Instruction.type = w[1]
  <2>1. TypeOf(w[1]) \in Keyword
    BY <1>1, <1>6
  <2> HIDE DEF w
  <2>2. QED
    BY <1>6, <2>1, TypeIs
<1>8. QED
  BY <1>1, <1>3, <1>6, <1>7

\* Only the forms of an include have its key.
LEMMA FormKey ==
  ASSUME NEW w, NEW b, NEW e, FormOf(w, b, e), e.key = "include"
  PROVE  w[1] = "include"
<1> DEFINE key == w[1]
           list == IF w[2] = "make" THEN "make_add" ELSE "env_add"
<1>1. list # "include"
  OBVIOUS
<1>2. \A v : e = Entry(key, v) => key = "include"
  BY EntryIs
<1>3. \A v : e # Entry(list, v)
  BY <1>1, EntryIs
<1>4. key = "add" => \E v : e = Entry(list, v)
  BY DEF FormOf
<1>5. key # "add" => \E v : e = Entry(key, v)
  <2>1. CASE key \in Plain
    BY <2>1 DEF FormOf, Disabled
  <2>2. CASE key \in Tools \cup Names
    BY <2>2 DEF FormOf, Disabled
  <2>3. CASE key \in {"verbose", "cpus", "nice", "lock-file", "include"}
    BY <2>3 DEF FormOf
  <2>4. key \in Keyword \ {"disable", "env"}
    BY DEF FormOf
  <2>5. key \in Plain \cup Tools \cup Names
                  \cup {"verbose", "cpus", "nice", "lock-file", "include", "add"}
    BY <2>4 DEF Keyword, Plain
  <2>6. QED
    BY <2>1, <2>2, <2>3, <2>5
<1> HIDE DEF key, list
<1>6. key = "include"
  BY <1>2, <1>3, <1>4, <1>5
<1>7. QED
  BY <1>6 DEF key

\* Only in a section there are wrong instructions.
LEMMA WrongInstructionIs ==
  ASSUME NEW n, Going(n), ~Clear, NEW types \in SUBSET (Keyword \ {"include"}),
         Instructed(types)
  PROVE  Last(stack).in = "section" /\ \E line : WrongInstruction(types, line)
<1>1. stack # <<>> /\ Last(stack).in \in {"section", "fragment"}
  BY DEF Instructed, Reading
<1>2. PICK line : /\ NextLine(Text, stack[Len(stack)].at, line)
                  /\ WrongLine(Text, line) \/ Missing(line)
                  /\ WrongLine(Text, line) => Last(stack).in # "fragment"
  BY <1>1, UnclearIs
<1> DEFINE w == Words(Text)[line]
<1>3. /\ Text[line] = "ws" /\ Behind(Text, line, Instruction.end, 1)
      /\ w[1] \in types /\ Instruction.type = w[1]
  <2>1. types \in SUBSET Keyword
    OBVIOUS
  <2>2. QED
    BY <1>2, <2>1, InstructionAt
<1>4. ~Missing(line)
  <2>1. SUFFICES ASSUME Missing(line) PROVE w[1] = "include"
    BY <1>3
  <2>2. RightLine(Text, line) /\ EntryAt(Text, line).key = "include"
    BY <2>1 DEF Missing
  <2>3. FormOf(w, RestOf(Text, line), EntryAt(Text, line))
    BY <1>3, <2>2, IndentedIs
  <2> HIDE DEF w
  <2>4. QED
    BY <2>2, <2>3, FormKey
<1>5. ~Understood(w) /\ Len(w) \in Nat \ {0}
  BY <1>2, <1>3, <1>4, WrongIs
<1>6. QED
  BY <1>1, <1>2, <1>3, <1>4, <1>5 DEF WrongInstruction

\* A step that sets a value that ends inside the line.
LEMMA SetDooms ==
  ASSUME NEW n, Going(n), stack # <<>>, Last(stack).in = "section", NEW line,
         WrongLine(Text, line), NEW STATE read, NEW STATE new, Set(read, new),
         read.ok => Inside(Text, line, read.end)
  PROVE  Dooms
<1> DEFINE N == Len(stack)
           r == stack[N]
           end == read.end
           t == At(end)
           q == t[N]
<1>1. CASE ~read.ok
  BY <1>1 DEF Set, Die, Dooms
<1>2. CASE read.ok
  <2>1. /\ TypeOK /\ Readers(stack) /\ N \in Nat \ {0} /\ Last(stack) = r
        /\ r.text = Text /\ IsText(Text)
    BY Seen DEF Going
  <2>2. stack' = t
    BY <1>2 DEF Set
  <2>3. Inside(Text, line, end)
    BY <1>2
  <2>4. end \in 1 .. Len(Text) + 1
    <3> HIDE DEF end
    <3>1. PICK k : Behind(Text, line, end, k)
      BY <2>3 DEF Inside
    <3>2. end \in line + 1 .. Len(Text) + 1 /\ line \in 1 .. Len(Text)
      BY <2>1, <3>1, StartIs DEF Behind, WrongLine
    <3>3. Len(Text) \in Nat
      BY <2>1, TextIs
    <3>4. QED
      BY <3>2, <3>3
  <2>5. /\ Readers(t) /\ Len(t) = N
        /\ q.text = r.text /\ q.at = end /\ q.in = r.in /\ t # <<>>
    <3> HIDE DEF end
    <3>1. QED
      BY <2>1, <2>4, AtIs
  <2>6. Last(t) = q
    BY <2>5 DEF Last
  <2>7. peek_token(Text, end).type \notin {"INDENT", "[", "include", "END"}
    <3> HIDE DEF end
    <3>1. QED
      BY <2>3, PartlyDoomed
  <2> HIDE DEF t, q, r, end
  <2>8. Doomed(t)
    BY <2>1, <2>5, <2>6, <2>7 DEF Doomed
  <2>9. QED
    BY <2>2, <2>8 DEF Dooms
<1>3. QED
  BY <1>1, <1>2

-----------------------------------------------------------------------------
(* Wrong instructions.                                                     *)

\* A place behind some words of a line, but not all.
LEMMA InsideIs ==
  ASSUME NEW text, NEW s, NEW p, NEW k \in Nat \ {0}, Behind(text, s, p, k),
         Len(Words(text)[s]) \in Nat, k # Len(Words(text)[s])
  PROVE  Inside(text, s, p)
<1>1. k \in 0 .. Len(Words(text)[s])
  BY DEF Behind
<1>2. k < Len(Words(text)[s])
  BY <1>1
<1>3. QED
  BY <1>2 DEF Inside

\* What the values of wrong instructions read ends inside the line.
Falls(types, read) ==
  \A line : WrongInstruction(types, line) /\ read.ok => Inside(Text, line, read.end)

\* A wrong instruction that sets a value is the last.
LEMMA InstructionDooms ==
  ASSUME NEW n, Going(n), ~Clear, NEW types \in SUBSET (Keyword \ {"include"}),
         Instructed(types), NEW STATE read, NEW STATE new, Set(read, new),
         Falls(types, read)
  PROVE  Dooms
<1>1. stack # <<>>
  BY DEF Instructed, Reading
<1>2. PICK line : WrongInstruction(types, line) /\ Last(stack).in = "section"
  BY WrongInstructionIs
<1>3. WrongLine(Text, line) /\ (read.ok => Inside(Text, line, read.end))
  BY <1>2 DEF Falls, WrongInstruction
<1>4. QED
  BY <1>1, <1>2, <1>3, SetDooms

\* "verbose": the first of the wrong instructions, one lemma for each.
LEMMA VerboseDooms ==
  ASSUME NEW n, Going(n), ~Clear, Verbose
  PROVE  Dooms
<1> DEFINE types == {"verbose"}
           read == Read(TRUE, TRUE, Instruction.end)
           new == [sec EXCEPT !.verbose = TRUE]
<1>1. Instructed(types) /\ Set(read, new) /\ types \in SUBSET (Keyword \ {"include"})
  BY DEF Verbose, Keyword
<1>2. Falls(types, read)
  <2> SUFFICES ASSUME NEW line, WrongInstruction(types, line), read.ok
               PROVE  Inside(Text, line, read.end)
    BY DEF Falls
  <2> DEFINE w == Words(Text)[line]
             at == Instruction.end
  <2>1. read.end = at
    BY DEF Read
  <2>2. w[1] = "verbose" /\ ~Understood(w) /\ Len(w) \in Nat /\ Behind(Text, line, at, 1)
    BY DEF WrongInstruction
  <2>3. Len(w) # 1 /\ 1 \in Nat \ {0}
    BY <2>2 DEF Understood
  <2> HIDE DEF read, at, w
  <2>4. Inside(Text, line, at)
    BY <2>2, <2>3, InsideIs DEF w
  <2>5. QED
    BY <2>1, <2>4
<1> HIDE DEF read, new, types
<1>3. QED
  BY <1>1, <1>2, InstructionDooms

\* Values to the end of the line: a wrong one is "disable", and more.
LEMMA PlainFalls ==
  ASSUME NEW types \in SUBSET Plain
  PROVE  Falls(types, get_to_eol(Text, Instruction.end))
<1> DEFINE at == Instruction.end
           read == get_to_eol(Text, at)
<1> SUFFICES ASSUME NEW line, WrongInstruction(types, line), read.ok
             PROVE  Inside(Text, line, read.end)
  BY DEF Falls
<1> DEFINE w == Words(Text)[line]
<1>1. /\ w[1] \in Plain /\ ~Understood(w) /\ Len(w) \in Nat
      /\ WrongLine(Text, line) /\ Behind(Text, line, at, 1)
  BY DEF WrongInstruction
<1>2. /\ 1 + 1 <= Len(w)
      /\ \/ w[1 + 1] = "="
         \/ w[1 + 1] = "disable" /\ Behind(Text, line, read.end, 1 + 1)
  <2> HIDE DEF at
  <2>1. QED
    BY <1>1, WrongToEol
<1>3. w[2] # "="
  BY <1>1, <1>2 DEF Understood
<1>4. Len(w) # 2
  BY <1>1, <1>2, <1>3 DEF Understood
<1> HIDE DEF read, w
<1>5. 1 + 1 # Len(w) /\ 1 + 1 \in Nat \ {0} /\ Behind(Text, line, read.end, 1 + 1)
  BY <1>2, <1>3, <1>4
<1>6. QED
  BY <1>1, <1>5, InsideIs DEF w

\* The three whose value is the rest of the line.
LEMMA NoParallelDooms ==
  ASSUME NEW n, Going(n), ~Clear, NoParallel
  PROVE  Dooms
<1> DEFINE types == {"no-parallel"}
           read == get_to_eol(Text, Instruction.end)
           new == [sec EXCEPT !.no_parallel = read.value]
<1>1. /\ Instructed(types) /\ Set(read, new) /\ types \in SUBSET (Keyword \ {"include"})
      /\ types \in SUBSET Plain
  BY DEF NoParallel, Keyword, Plain
<1>2. Falls(types, read)
  BY <1>1, PlainFalls
<1> HIDE DEF read, new, types
<1>3. QED
  BY <1>1, <1>2, InstructionDooms

LEMMA DistccHostsDooms ==
  ASSUME NEW n, Going(n), ~Clear, DistccHosts
  PROVE  Dooms
<1> DEFINE types == {"distcc-hosts"}
           read == get_to_eol(Text, Instruction.end)
           both == [sec EXCEPT !.distcc_hosts = read.value,
                               !.distcplusplus_hosts = read.value]
           new == IF sec.distcplusplus_hosts_set
                    THEN [sec EXCEPT !.distcc_hosts = read.value] ELSE both
<1>1. /\ Instructed(types) /\ Set(read, new) /\ types \in SUBSET (Keyword \ {"include"})
      /\ types \in SUBSET Plain
  BY DEF DistccHosts, Keyword, Plain, Hosts
<1>2. Falls(types, read)
  BY <1>1, PlainFalls
<1> HIDE DEF read, new, types
<1>3. QED
  BY <1>1, <1>2, InstructionDooms

LEMMA DistcplusplusHostsDooms ==
  ASSUME NEW n, Going(n), ~Clear, DistcplusplusHosts
  PROVE  Dooms
<1> DEFINE types == {"distc++-hosts"}
           read == get_to_eol(Text, Instruction.end)
           new == [sec EXCEPT !.distcplusplus_hosts = read.value,
                              !.distcplusplus_hosts_set = TRUE]
<1>1. /\ Instructed(types) /\ Set(read, new) /\ types \in SUBSET (Keyword \ {"include"})
      /\ types \in SUBSET Plain
  BY DEF DistcplusplusHosts, Keyword, Plain, Hosts
<1>2. Falls(types, read)
  BY <1>1, PlainFalls
<1> HIDE DEF read, new, types
<1>3. QED
  BY <1>1, <1>2, InstructionDooms

\* Numbers: a wrong one in range is followed by more.
LEMMA NumberFalls ==
  ASSUME NEW key, NEW min, NEW max,
         \/ key = "cpus" /\ min = 1 /\ max = MaxCpus
         \/ key = "nice" /\ min = -19 /\ max = 20
  PROVE  Falls({key}, to_int(get_value(Text, Instruction.end), min, max))
<1> DEFINE at == Instruction.end
           read == to_int(get_value(Text, at), min, max)
<1> SUFFICES ASSUME NEW line, WrongInstruction({key}, line), read.ok
             PROVE  Inside(Text, line, read.end)
  BY DEF Falls
<1> DEFINE w == Words(Text)[line]
<1>1. /\ w[1] = key /\ ~Understood(w) /\ Len(w) \in Nat
      /\ WrongLine(Text, line) /\ Behind(Text, line, at, 1)
  BY DEF WrongInstruction
<1>2. /\ 1 + 2 <= Len(w) /\ w[1 + 1] = "=" /\ Within(w[1 + 2], min, max)
      /\ Behind(Text, line, read.end, 1 + 2)
  <2> HIDE DEF at
  <2>1. QED
    BY <1>1, WrongNumber
<1> HIDE DEF read, w
<1>3. w[2] = "=" /\ Within(w[3], min, max)
  BY <1>2
<1>4. Len(w) # 3
  BY <1>1, <1>3 DEF Understood
<1>5. 1 + 2 # Len(w) /\ 1 + 2 \in Nat \ {0}
  BY <1>1, <1>4
<1>6. QED
  BY <1>1, <1>2, <1>5, InsideIs DEF w

\* The two numbers.
LEMMA CpusDooms ==
  ASSUME NEW n, Going(n), ~Clear, Cpus
  PROVE  Dooms
<1> DEFINE types == {"cpus"}
           read == to_int(get_value(Text, Instruction.end), 1, MaxCpus)
           new == [sec EXCEPT !.cpus = read.value]
<1>1. Instructed(types) /\ Set(read, new) /\ types \in SUBSET (Keyword \ {"include"})
  BY DEF Cpus, Keyword
<1>2. Falls(types, read)
  <2> DEFINE key == "cpus"
             min == 1
             max == MaxCpus
  <2>1. key = "cpus" /\ min = 1 /\ max = MaxCpus
    OBVIOUS
  <2> HIDE DEF key, min, max
  <2>2. Falls({key}, to_int(get_value(Text, Instruction.end), min, max))
    BY <2>1, NumberFalls
  <2>3. QED
    BY <2>2 DEF key, min, max
<1> HIDE DEF read, new, types
<1>3. QED
  BY <1>1, <1>2, InstructionDooms

LEMMA NiceDooms ==
  ASSUME NEW n, Going(n), ~Clear, Nice
  PROVE  Dooms
<1> DEFINE types == {"nice"}
           read == to_int(get_value(Text, Instruction.end), -19, 20)
           new == [sec EXCEPT !.nice = read.value]
<1>1. Instructed(types) /\ Set(read, new) /\ types \in SUBSET (Keyword \ {"include"})
  BY DEF Nice, Keyword
<1>2. Falls(types, read)
  <2> DEFINE key == "nice"
             min == -19
             max == 20
  <2>1. key = "nice" /\ min = -19 /\ max = 20
    OBVIOUS
  <2> HIDE DEF key, min, max
  <2>2. Falls({key}, to_int(get_value(Text, Instruction.end), min, max))
    BY <2>1, NumberFalls
  <2>3. QED
    BY <2>2 DEF key, min, max
<1> HIDE DEF read, new, types
<1>3. QED
  BY <1>1, <1>2, InstructionDooms

\* A tool: a path or "disable", and more.
LEMMA ToolDooms ==
  ASSUME NEW n, Going(n), ~Clear, Tool
  PROVE  Dooms
<1> DEFINE at == Instruction.end
           read == get_optional_path(Text, at)
           new == [sec EXCEPT ![Instruction.type] = read.value]
<1>1. Instructed(Tools) /\ Set(read, new) /\ Tools \in SUBSET (Keyword \ {"include"})
  BY DEF Tool, Keyword, Tools
<1>2. Falls(Tools, read)
  <2> SUFFICES ASSUME NEW line, WrongInstruction(Tools, line), read.ok
               PROVE  Inside(Text, line, read.end)
    BY DEF Falls
  <2> DEFINE w == Words(Text)[line]
  <2>1. /\ w[1] \in Tools /\ ~Understood(w) /\ Len(w) \in Nat
        /\ WrongLine(Text, line) /\ Behind(Text, line, at, 1)
    BY DEF WrongInstruction
  <2>2. \/ 1 + 1 <= Len(w) /\ w[1 + 1] = "disable" /\ Behind(Text, line, read.end, 1 + 1)
        \/ 1 + 2 <= Len(w) /\ w[1 + 1] = "=" /\ Behind(Text, line, read.end, 1 + 2)
    <3> HIDE DEF at
    <3>1. QED
      BY <2>1, WrongOptionalPath
  <2> HIDE DEF read, w
  <2>3. /\ w[2] = "disable" => Len(w) # 2
        /\ w[2] = "=" => Len(w) # 3
    BY <2>1 DEF Understood
  <2>4. \/ 1 + 1 # Len(w) /\ Behind(Text, line, read.end, 1 + 1)
        \/ 1 + 2 # Len(w) /\ Behind(Text, line, read.end, 1 + 2)
    BY <2>1, <2>2, <2>3
  <2>5. 1 + 1 \in Nat \ {0} /\ 1 + 2 \in Nat \ {0}
    OBVIOUS
  <2>6. QED
    BY <2>1, <2>4, <2>5, InsideIs DEF w
<1> HIDE DEF read, new
<1>3. QED
  BY <1>1, <1>2, InstructionDooms

\* A path, and more.
LEMMA PathFalls ==
  ASSUME NEW types, NEW line, WrongInstruction(types, line),
         get_path(Text, Instruction.end).ok
  PROVE  LET w == Words(Text)[line]
             read == get_path(Text, Instruction.end)
         IN /\ Len(w) \in Nat /\ 3 <= Len(w) /\ w[2] = "="
            /\ read.value = {Expanded(w[3])}
            /\ Len(w) # 3 => Inside(Text, line, read.end)
<1> DEFINE at == Instruction.end
           read == get_path(Text, at)
           w == Words(Text)[line]
<1>1. /\ Len(w) \in Nat /\ WrongLine(Text, line) /\ Behind(Text, line, at, 1)
      /\ read.ok
  BY DEF WrongInstruction
<1>2. /\ 1 + 2 <= Len(w) /\ w[1 + 1] = "=" /\ read.value = {Expanded(w[1 + 2])}
      /\ Behind(Text, line, read.end, 1 + 2)
  <2> HIDE DEF at
  <2>1. QED
    BY <1>1, WrongPath
<1> HIDE DEF read, w
<1>3. 3 <= Len(w) /\ w[2] = "=" /\ read.value = {Expanded(w[3])}
  BY <1>2
<1>4. ASSUME Len(w) # 3 PROVE Inside(Text, line, read.end)
  <2>1. 1 + 2 # Len(w) /\ 1 + 2 \in Nat \ {0}
    BY <1>1, <1>4
  <2>2. QED
    BY <1>1, <1>2, <2>1, InsideIs DEF w
<1>5. QED
  BY <1>1, <1>3, <1>4 DEF read, w

\* A program: a path, and more.
LEMMA ProgramDooms ==
  ASSUME NEW n, Going(n), ~Clear, Program
  PROVE  Dooms
<1> DEFINE read == get_path(Text, Instruction.end)
           new == [sec EXCEPT !.names[Instruction.type] = read.value]
<1>1. Instructed(Names) /\ Set(read, new) /\ Names \in SUBSET (Keyword \ {"include"})
  BY DEF Program, Keyword, Names
<1>2. Falls(Names, read)
  <2> SUFFICES ASSUME NEW line, WrongInstruction(Names, line), read.ok
               PROVE  Inside(Text, line, read.end)
    BY DEF Falls
  <2> DEFINE w == Words(Text)[line]
  <2>1. w[1] \in Names /\ ~Understood(w)
    BY DEF WrongInstruction
  <2>2. w[2] = "=" /\ (Len(w) # 3 => Inside(Text, line, read.end))
    BY PathFalls
  <2>3. Len(w) # 3
    BY <2>1, <2>2 DEF Understood
  <2>4. QED
    BY <2>2, <2>3
<1> HIDE DEF read, new
<1>3. QED
  BY <1>1, <1>2, InstructionDooms

\* A lock file that can be opened, and more, or one that cannot.
LEMMA LockFileDooms ==
  ASSUME NEW n, Going(n), ~Clear, LockFile
  PROVE  Dooms
<1> DEFINE types == {"lock-file"}
           read == get_path(Text, Instruction.end)
           file == CHOOSE x \in read.value : TRUE
           new == [sec EXCEPT !.lock_file = {file}, !.lock_fd = file]
           opened == Read(read.ok /\ file \in Locked, read.value, read.end)
<1>1. Instructed(types) /\ types \in SUBSET (Keyword \ {"include"})
  BY DEF LockFile, Keyword
<1>2. opened.ok = (read.ok /\ file \in Locked) /\ opened.end = read.end
  BY DEF Read
<1>3. Set(opened, new)
  BY <1>2 DEF LockFile, Set
<1>4. Falls(types, opened)
  <2> SUFFICES ASSUME NEW line, WrongInstruction(types, line), opened.ok
               PROVE  Inside(Text, line, opened.end)
    BY DEF Falls
  <2> DEFINE w == Words(Text)[line]
  <2>1. w[1] = "lock-file" /\ ~Understood(w)
    BY DEF WrongInstruction
  <2>2. /\ w[2] = "=" /\ read.value = {Expanded(w[3])}
        /\ Len(w) # 3 => Inside(Text, line, read.end)
    BY <1>2, PathFalls
  <2>3. Expanded(w[3]) \in Locked
    <3>1. file = Expanded(w[3])
      BY <2>2
    <3>2. QED
      BY <1>2, <3>1
  <2>4. Len(w) # 3
    BY <2>1, <2>2, <2>3 DEF Understood
  <2>5. QED
    BY <1>2, <2>2, <2>4
<1> HIDE DEF opened, new, types, file
<1>5. QED
  BY <1>1, <1>3, <1>4, InstructionDooms

\* A list of "add" that is there: the value is "disable", and more.
LEMMA AddToDooms ==
  ASSUME NEW n, Going(n), ~Clear, AddTo
  PROVE  Dooms
<1> DEFINE types == {"add"}
           to == peek_token(Text, Instruction.end)
           list == IF to.type = "make" THEN "make_add" ELSE "env_add"
           read == get_to_eol(Text, to.end)
           new == [sec EXCEPT ![list] =
                     IF read.value = {} THEN <<>>
                     ELSE <<CHOOSE x \in read.value : TRUE>> \o @]
           added == Read(to.type \in {"make", "env"} /\ read.ok, read.value, read.end)
<1>1. Instructed(types) /\ types \in SUBSET (Keyword \ {"include"})
  BY DEF AddTo, Keyword
<1>2. added.ok = (to.type \in {"make", "env"} /\ read.ok) /\ added.end = read.end
  BY DEF Read
<1>3. Set(added, new)
  <2>1. IF to.type \in {"make", "env"} THEN Set(read, new) ELSE Die
    BY DEF AddTo
  <2> HIDE DEF added, to, read, new
  <2>2. QED
    BY <1>2, <2>1 DEF Set
<1> HIDE DEF new, list
<1>4. Falls(types, added)
  <2> SUFFICES ASSUME NEW line, WrongInstruction(types, line), added.ok
               PROVE  Inside(Text, line, added.end)
    BY DEF Falls
  <2> DEFINE w == Words(Text)[line]
             at == Instruction.end
  <2>1. /\ w[1] = "add" /\ ~Understood(w) /\ Len(w) \in Nat
        /\ WrongLine(Text, line) /\ Behind(Text, line, at, 1)
    BY DEF WrongInstruction
  <2>2. to.type \in {"make", "env"} /\ read.ok
    BY <1>2
  <2>3. /\ 1 \in 0 .. Len(w)
        /\ 1 < Len(w) => to.type = TypeOf(w[1 + 1]) /\ Behind(Text, line, to.end, 1 + 1)
        /\ 1 = Len(w) => to.type \in Stops
    <3> HIDE DEF at
    <3>1. LET tok == peek_token(Text, at)
          IN /\ 1 \in 0 .. Len(w)
             /\ 1 < Len(w) => tok.type = TypeOf(w[1 + 1])
                              /\ Behind(Text, line, tok.end, 1 + 1)
             /\ 1 = Len(w) => tok.type \in Stops
      BY <2>1, PeekWrong
    <3>2. QED
      BY <3>1 DEF at
  <2>4. 1 < Len(w)
    <3>1. to.type \notin Stops
      BY <2>2 DEF Stops
    <3> HIDE DEF w, to
    <3>2. Len(w) # 1
      BY <2>3, <3>1
    <3>3. Len(w) \in Nat /\ 1 \in 0 .. Len(w)
      BY <2>1, <2>3
    <3>4. \A l \in Nat : 1 \in 0 .. l /\ l # 1 => 1 < l
      OBVIOUS
    <3>5. QED
      BY <3>2, <3>3, <3>4
  <2> DEFINE p == to.end
             k == 1 + 1
  <2>5. w[2] \in {"make", "env"} /\ Behind(Text, line, p, k)
    <3>1. TypeOf(w[2]) \in Keyword
      BY <2>2, <2>3, <2>4 DEF Keyword, Names
    <3>2. w[2] = to.type
      BY <2>3, <2>4, <3>1, TypeIs
    <3>3. QED
      BY <2>2, <2>3, <2>4, <3>2
  <2>6. /\ k + 1 <= Len(w)
        /\ \/ w[k + 1] = "="
           \/ w[k + 1] = "disable" /\ Behind(Text, line, read.end, k + 1)
    <3>1. get_to_eol(Text, p).ok
      BY <2>2
    <3> HIDE DEF p, k, w
    <3>2. LET end == get_to_eol(Text, p).end
          IN /\ k + 1 <= Len(w)
             /\ \/ w[k + 1] = "="
                \/ w[k + 1] = "disable" /\ Behind(Text, line, end, k + 1)
      BY <2>1, <2>5, <3>1, WrongToEol DEF w
    <3>3. QED
      BY <3>2 DEF p
  <2> HIDE DEF read, added, w, to
  <2>7. k + 1 = 3
    OBVIOUS
  <2>8. /\ Len(w) > 2
        /\ \/ w[3] = "="
           \/ w[3] = "disable" /\ Behind(Text, line, read.end, 3)
    BY <2>1, <2>6, <2>7
  <2>9. w[3] # "=" /\ ~(Len(w) = 3 /\ w[3] = "disable")
    BY <2>1, <2>5, <2>8 DEF Understood
  <2>10. Len(w) # 3 /\ Behind(Text, line, read.end, 3) /\ 3 \in Nat \ {0}
    BY <2>8, <2>9
  <2>11. Inside(Text, line, read.end)
    BY <2>1, <2>10, InsideIs DEF w
  <2>12. QED
    BY <1>2, <2>11
<1> HIDE DEF added, types
<1>5. QED
  BY <1>1, <1>3, <1>4, InstructionDooms

-----------------------------------------------------------------------------
(* Wrong includes and headers, and what comes after a wrong line.          *)

\* A wrong include names nothing, and a right one a file that is not there.
LEMMA IncludeDooms ==
  ASSUME NEW read, NEW in, Include(read, in),
         \/ ~read.ok
         \/ \E path : read.value = {path} /\ path \notin DOMAIN disk
  PROVE  Dooms
<1>1. ~(read.ok /\ (CHOOSE x \in read.value : TRUE) \in DOMAIN disk)
  OBVIOUS
<1>2. Die
  BY <1>1 DEF Include
<1>3. QED
  BY <1>2 DEF Die, Dooms

\* In a section.
LEMMA IncludeFragmentDooms ==
  ASSUME NEW n, Going(n), ~Clear, IncludeFragment
  PROVE  Dooms
<1> DEFINE from == Instruction.end
           read == get_path(Text, from)
           types == {"include"}
<1>1. /\ Instructed(types) /\ Include(read, "fragment") /\ stack # <<>>
      /\ types \in SUBSET Keyword
  BY DEF IncludeFragment, Instructed, Reading, Keyword
<1>2. PICK line : /\ NextLine(Text, stack[Len(stack)].at, line)
                  /\ WrongLine(Text, line) \/ Missing(line)
  BY <1>1, UnclearIs
<1> DEFINE w == Words(Text)[line]
           e == EntryAt(Text, line)
           path == Expanded(w[3])
<1>3. /\ Text[line] = "ws" /\ Behind(Text, line, from, 1)
      /\ w[1] = "include" /\ Instruction.type = w[1]
  <2> HIDE DEF from
  <2>1. /\ Text[line] = "ws" /\ Behind(Text, line, Instruction.end, 1)
        /\ w[1] \in types /\ Instruction.type = w[1]
    BY <1>1, <1>2, InstructionAt
  <2>2. QED
    BY <2>1 DEF from
<1>4. CASE WrongLine(Text, line)
  <2>1. ~Understood(w) /\ Len(w) \in Nat \ {0} /\ Len(w) <= 3
    BY <1>3, <1>4, WrongIs
  <2>2. ASSUME read.ok PROVE FALSE
    <3>1. WrongInstruction(types, line)
      BY <1>3, <1>4, <2>1 DEF WrongInstruction
    <3>2. Len(w) \in Nat /\ 3 <= Len(w) /\ w[2] = "="
      BY <2>2, <3>1, PathFalls
    <3> HIDE DEF w
    <3>3. Len(w) = 3
      BY <2>1, <3>2
    <3>4. QED
      BY <1>3, <2>1, <3>2, <3>3 DEF Understood
  <2> HIDE DEF read
  <2>3. QED
    BY <1>1, <2>2, IncludeDooms
<1>5. CASE Missing(line)
  <2>1. RightLine(Text, line) /\ e.value \notin DOMAIN disk
    BY <1>5 DEF Missing
  <2>2. FormOf(w, RestOf(Text, line), e)
    BY <1>3, <2>1, IndentedIs
  <2>3. ~Disabled(w, e)
    <3>1. Len(w) = 3 /\ w[2] = "="
      BY <1>3, <2>2 DEF FormOf, Tools
    <3>2. QED
      BY <3>1 DEF Disabled
  <2>4. Yields(Text, line, read, {path}) /\ e.value = path
    <3>1. w[1] \in Paths
      BY <1>3 DEF Paths
    <3> HIDE DEF from
    <3>2. QED
      BY <1>3, <2>1, <2>3, <3>1, PathIs
  <2>5. read.value = {path} /\ path \notin DOMAIN disk
    BY <2>1, <2>4 DEF Yields
  <2> HIDE DEF read, path
  <2>6. QED
    BY <1>1, <2>5, IncludeDooms
<1>6. QED
  BY <1>2, <1>4, <1>5

\* A line that is not indented, right or wrong: its first word is seen.
LEMMA UnindentedAt ==
  ASSUME NEW n, Going(n), stack # <<>>, Peeked.type \notin {"INDENT", "END"}, NEW line,
         NextLine(Text, stack[Len(stack)].at, line)
  PROVE  LET w == Words(Text)[line]
         IN /\ IsText(Text) /\ Tidy(Text) /\ line \in Starts(Text)
            /\ Text[line] # "ws" /\ Peeked.type = TypeOf(w[1])
            /\ Behind(Text, line, Peeked.end, 1)
<1> DEFINE at == stack[Len(stack)].at
<1>1. /\ IsText(Text) /\ Tidy(Text) /\ at \in 1 .. Len(Text) + 1
      /\ Found(Text, at, Peeked) /\ NextLine(Text, at, line)
  BY Seen
<1> HIDE DEF at
<1>2. /\ Text[line] # "ws" /\ Peeked.end = line + 1 /\ Peeked.type = TypeOf(Text[line])
      /\ line \in Starts(Text)
  <2>1. PICK s : /\ NextLine(Text, at, s) /\ Text[s] # "ws" /\ Peeked.end = s + 1
                 /\ Peeked.type = TypeOf(Text[s]) /\ Peeked.word = Text[s]
    BY <1>1, FoundTells
  <2>2. s = line
    BY <1>1, <2>1 DEF NextLine
  <2>3. QED
    BY <1>1, <2>1, <2>2, NextLineIs
<1>3. Text[line] = Words(Text)[line][1] /\ Behind(Text, line, line + 1, 1)
  BY <1>1, <1>2, LineBegins
<1>4. QED
  BY <1>1, <1>2, <1>3

\* In a file.
LEMMA IncludeFileDooms ==
  ASSUME NEW n, Going(n), ~Clear, IncludeFile
  PROVE  Dooms
<1> DEFINE from == Peeked.end
           read == get_path(Text, from)
<1>1. stack # <<>> /\ Peeked.type = "include" /\ Include(read, "file")
  BY DEF IncludeFile, Reading
<1>2. PICK line : /\ NextLine(Text, stack[Len(stack)].at, line)
                  /\ WrongLine(Text, line) \/ Missing(line)
  BY <1>1, UnclearIs
<1> DEFINE w == Words(Text)[line]
           e == EntryAt(Text, line)
           path == Expanded(w[3])
<1>3. /\ IsText(Text) /\ Tidy(Text) /\ line \in Starts(Text)
      /\ Text[line] # "ws" /\ Behind(Text, line, from, 1) /\ w[1] = "include"
  <2>1. /\ IsText(Text) /\ Tidy(Text) /\ line \in Starts(Text)
        /\ Text[line] # "ws" /\ Peeked.type = TypeOf(w[1])
        /\ Behind(Text, line, Peeked.end, 1)
    BY <1>1, <1>2, UnindentedAt
  <2>2. TypeOf(w[1]) \in Keyword
    BY <1>1, <2>1 DEF Keyword
  <2>3. QED
    BY <1>1, <2>1, <2>2, TypeIs
<1>4. CASE WrongLine(Text, line)
  <2>1. /\ Len(w) \in Nat \ {0} /\ Len(w) <= 3
        /\ Len(w) = 3 => w[2] # "="
    BY <1>3, <1>4, WrongIs
  <2>2. ASSUME read.ok PROVE FALSE
    <3>1. 1 + 2 <= Len(w) /\ w[1 + 1] = "="
      <4> HIDE DEF from
      <4>1. QED
        BY <1>3, <1>4, <2>2, WrongPath
    <3> HIDE DEF w
    <3>2. 3 <= Len(w) /\ w[2] = "="
      BY <3>1
    <3>3. \A l \in Nat \ {0} : 3 <= l /\ l <= 3 => l = 3
      OBVIOUS
    <3>4. Len(w) = 3
      BY <2>1, <3>2, <3>3
    <3>5. QED
      BY <2>1, <3>2, <3>4
  <2> HIDE DEF read
  <2>3. QED
    BY <1>1, <2>2, IncludeDooms
<1>5. CASE Missing(line)
  <2>1. RightLine(Text, line) /\ e.key = "include" /\ e.value \notin DOMAIN disk
    BY <1>5 DEF Missing
  <2>2. Heading(w, e) \/ Inclusion(w, e)
    BY <1>3, <2>1, UnindentedIs
  <2>3. Inclusion(w, e)
    BY <1>3, <2>2 DEF Heading
  <2>4. Len(w) = 3 /\ w[2] = "=" /\ e = Entry("include", path)
    BY <2>3 DEF Inclusion
  <2>5. e.value = path
    BY <2>4, EntryIs
  <2>6. TypeOf(w[3]) = "STRING"
    <3>1. Spelled(Text, line)
      BY <2>1 DEF RightLine
    <3>2. TypeOf(Last(w)) = "STRING"
      BY <2>1, <2>4, <3>1 DEF Spelled
    <3>3. QED
      BY <2>4, <3>2 DEF Last
  <2>7. Yields(Text, line, read, {path})
    <3> DEFINE word == w[3]
    <3>1. word = Words(Text)[line][Len(Words(Text)[line])] /\ TypeOf(word) = "STRING"
      BY <2>4, <2>6
    <3>2. Len(Words(Text)[line]) = 1 + 2 /\ Words(Text)[line][1 + 1] = "="
      BY <2>4
    <3> HIDE DEF word, from
    <3>3. Yields(Text, line, get_path(Text, from), {Expanded(word)})
      BY <1>3, <3>1, <3>2, PathRead
    <3>4. QED
      BY <3>3 DEF word
  <2>8. read.value = {path} /\ path \notin DOMAIN disk
    BY <2>1, <2>5, <2>7 DEF Yields
  <2> HIDE DEF read, path
  <2>9. QED
    BY <1>1, <2>8, IncludeDooms
<1>6. QED
  BY <1>2, <1>4, <1>5

\* A file that becomes a section, or a section the file again, where nothing can
\* come.
LEMMA SwitchDooms ==
  ASSUME TypeOK, stack # <<>>, NEW in \in {"file", "section"},
         stack[Len(stack)].in \in {"file", "section"}, NEW at \in 1 .. Len(Text) + 1,
         NEW t, NEW r, Switched(stack, t, r, in, at),
         peek_token(Text, at).type \notin {"INDENT", "[", "include", "END"}
  PROVE  Doomed(t)
<1>1. /\ Readers(t) /\ Beside(stack, t) /\ t[Len(stack)] = r /\ t # <<>>
      /\ r.text = Text /\ r.at = at /\ r.in = in
  BY SwitchIs
<1>2. Last(t) = r
  BY <1>1 DEF Last, Beside
<1>3. QED
  BY <1>1, <1>2 DEF Doomed

\* A header that is wrong is none, or ends inside its line.
LEMMA SectionDooms ==
  ASSUME NEW n, Going(n), ~Clear, Section
  PROVE  Dooms
<1> DEFINE N == Len(stack)
           r == stack[N]
           p == Peeked.end
           name == peek_token(Text, p)
           m == name.end
           close == peek_token(Text, m)
           at == close.end
           q == [[r EXCEPT !.in = "section"] EXCEPT !.at = at]
           t == [stack EXCEPT ![N] = q]
           header == Peeked.type = "[" /\ name.type = "STRING" /\ close.type = "]"
<1>1. /\ stack # <<>> /\ Last(stack).in = "file"
      /\ Peeked.type \notin {"include", "END"}
  BY DEF Section, Reading
<1>2. /\ Readers(stack) /\ r.in = "file" /\ TypeOK /\ r.text = Text
      /\ IsText(Text) /\ InPlace(disk, r) /\ Found(Text, r.at, Peeked)
  BY <1>1, Seen DEF Going
<1>3. Peeked.type # "INDENT"
  <2> DEFINE from == r.at
             s == Min(Ahead(Text, from))
  <2>1. NotIndented(Text, from)
    BY <1>2 DEF InPlace
  <2>2. Ahead(Text, from) # {} => Text[s] # "ws"
    BY <2>1 DEF NotIndented
  <2>3. \A word : TypeOf(word) # "INDENT"
    BY TypeIs DEF Marks, Keyword, Names, Tools, Hosts
  <2>4. Found(Text, from, Peeked)
    BY <1>2
  <2> HIDE DEF from
  <2>5. QED
    BY <2>2, <2>3, <2>4 DEF Found
<1>4. PICK line : /\ NextLine(Text, r.at, line)
                  /\ WrongLine(Text, line) \/ Missing(line)
  BY <1>1, UnclearIs
<1> DEFINE w == Words(Text)[line]
           e == EntryAt(Text, line)
<1>5. /\ line \in Starts(Text) /\ Text[line] # "ws" /\ Peeked.type = TypeOf(w[1])
      /\ Behind(Text, line, p, 1)
  BY <1>1, <1>3, <1>4, UnindentedAt
<1>6. ~Missing(line)
  <2>1. SUFFICES ASSUME Missing(line) PROVE FALSE
    OBVIOUS
  <2>2. RightLine(Text, line) /\ e.key = "include"
    BY <2>1 DEF Missing
  <2>3. /\ Heading(w, e) \/ Inclusion(w, e)
        /\ TypeOf(w[1]) = w[1]
    BY <1>5, <2>2, UnindentedIs
  <2>4. ~Heading(w, e)
    BY <2>2, EntryIs DEF Heading
  <2>5. w[1] = "include"
    BY <2>3, <2>4 DEF Inclusion
  <2>6. QED
    BY <1>1, <1>5, <2>3, <2>5
<1>7. /\ WrongLine(Text, line) /\ Len(w) \in Nat \ {0}
      /\ Len(w) = 3 => w[1] # "[" \/ w[3] # "]"
  BY <1>4, <1>5, <1>6, WrongIs
<1>8. CASE header
  <2>1. "STRING" \notin Stops /\ "]" \notin Stops
    BY DEF Stops, Keyword, Names, Tools, Hosts
  <2>2. \A word : /\ TypeOf(word) = "[" => word = "["
                  /\ TypeOf(word) = "]" => word = "]"
    BY TypeIs DEF Marks
  <2>3. w[1] = "["
    BY <1>5, <1>8, <2>2
  <2>4. /\ 1 < Len(w) => Behind(Text, line, m, 1 + 1)
        /\ 1 = Len(w) => name.type \in Stops
    <3> HIDE DEF p
    <3>1. QED
      BY <1>5, <1>7, PeekWrong
  <2>5. 1 < Len(w) /\ Behind(Text, line, m, 2)
    <3> HIDE DEF w, name, m
    <3>1. 1 # Len(w)
      BY <1>8, <2>1, <2>4
    <3>2. \A l \in Nat \ {0} : 1 # l => 1 < l
      OBVIOUS
    <3>3. 1 < Len(w)
      BY <1>7, <3>1, <3>2
    <3>4. QED
      BY <2>4, <3>3
  <2>6. /\ 2 < Len(w) => close.type = TypeOf(w[2 + 1]) /\ Behind(Text, line, at, 2 + 1)
        /\ 2 = Len(w) => close.type \in Stops
    <3> HIDE DEF m
    <3>1. QED
      BY <1>7, <2>5, PeekWrong
  <2>7. 2 < Len(w) /\ w[3] = "]" /\ Behind(Text, line, at, 3)
    <3> HIDE DEF w, close, at
    <3>1. 2 # Len(w)
      BY <1>8, <2>1, <2>6
    <3>2. \A l \in Nat \ {0} : 1 < l /\ 2 # l => 2 < l
      OBVIOUS
    <3>3. 2 < Len(w)
      BY <1>7, <2>5, <3>1, <3>2
    <3>4. close.type = TypeOf(w[3]) /\ Behind(Text, line, at, 3)
      BY <2>6, <3>3
    <3>5. QED
      BY <1>8, <2>2, <3>3, <3>4
  <2>8. Inside(Text, line, at) /\ at \in 1 .. Len(Text) + 1
    <3> HIDE DEF at
    <3>1. 3 # Len(w) /\ 3 \in Nat \ {0}
      BY <1>7, <2>3, <2>7
    <3>2. Inside(Text, line, at)
      BY <1>7, <2>7, <3>1, InsideIs
    <3>3. at \in line + 1 .. Len(Text) + 1 /\ line \in 1 .. Len(Text)
      BY <1>2, <1>5, <2>7, StartIs DEF Behind
    <3>4. Len(Text) \in Nat
      BY <1>2, TextIs
    <3>5. QED
      BY <3>2, <3>3, <3>4
  <2>9. peek_token(Text, at).type \notin {"INDENT", "[", "include", "END"}
    <3> HIDE DEF at
    <3>1. QED
      BY <1>7, <2>8, PartlyDoomed
  <2>10. stack' = t
    BY <1>8 DEF Section
  <2>11. Doomed(t)
    <3> DEFINE i == "section"
    <3>1. i \in {"file", "section"} /\ stack[Len(stack)].in \in {"file", "section"}
      BY <1>2
    <3>2. Switched(stack, t, q, i, at)
      BY DEF Switched
    <3> HIDE DEF i, q, t, at
    <3>3. QED
      BY <1>1, <1>2, <2>8, <2>9, <3>1, <3>2, SwitchDooms
  <2>12. QED
    BY <2>10, <2>11 DEF Dooms
<1>9. CASE ~header
  <2>1. Die
    BY <1>9 DEF Section
  <2>2. QED
    BY <2>1 DEF Die, Dooms
<1>10. QED
  BY <1>8, <1>9

\* A doomed section ends, and a doomed file is rejected.
LEMMA DoomedStep ==
  ASSUME TypeOK, Doomed(stack), ~failed, Next
  PROVE  Dooms
<1> DEFINE r == stack[Len(stack)]
           at == r.at
<1>1. /\ Last(stack).in \in {"file", "section"} /\ stack # <<>>
      /\ Peeked.type \notin {"INDENT", "[", "include", "END"}
  BY DEF Doomed, Peeked, Text
<1>2. Next => SectionEnds \/ Section
  BY <1>1 DEF Next, NoParallel, Cpus, Nice, Verbose, Tool, DistccHosts,
     DistcplusplusHosts, Program, AddTo, LockFile, IncludeFragment, Instructed,
     NoInstruction, FragmentEnds, IncludeFile, FileEnds, Reading
<1>3. CASE Section
  <2>1. Die
    BY <1>1, <1>3 DEF Section
  <2>2. QED
    BY <2>1 DEF Die, Dooms
<1>4. CASE SectionEnds
  <2> DEFINE q == [[r EXCEPT !.in = "file"] EXCEPT !.at = at]
             t == [stack EXCEPT ![Len(stack)] = q]
  <2>1. Last(stack).in = "section" /\ stack' = [stack EXCEPT ![Len(stack)].in = "file"]
    BY <1>4 DEF SectionEnds, Reading
  <2>2. /\ Readers(stack) /\ Last(stack) = r /\ r.text = Text
        /\ at \in 1 .. Len(Text) + 1 /\ ReaderAt(stack, Len(stack))
    BY <1>1, PlaceIs
  <2>3. stack' = t
    <3>1. q = [r EXCEPT !.in = "file"]
      BY <2>2 DEF ReaderAt
    <3> HIDE DEF q
    <3>2. QED
      BY <2>1, <3>1
  <2>4. peek_token(Text, at).type \notin {"INDENT", "[", "include", "END"}
    BY <1>1, <2>2 DEF Peeked
  <2>5. Doomed(t)
    <3> DEFINE i == "file"
    <3>1. i \in {"file", "section"} /\ stack[Len(stack)].in \in {"file", "section"}
      BY <2>1, <2>2
    <3>2. Switched(stack, t, q, i, at)
      BY DEF Switched
    <3> HIDE DEF i, q, t, at
    <3>3. QED
      BY <1>1, <2>2, <2>4, <3>1, <3>2, SwitchDooms
  <2>6. QED
    BY <2>3, <2>5 DEF Dooms
<1>5. QED
  BY <1>2, <1>3, <1>4

-----------------------------------------------------------------------------
(* The reading of legible files, from its beginning to its end.            *)
\* The assumption on the files, of those that are read.
LEMMA SoundDisk ==
  ASSUME disk \in Disks, Legible(disk)
  PROVE  Sound(disk)
BY ConstantsOK DEF ConstantsOK, Sound

\* Follows is what Follow says for some number of entries.
Following(files, t, res, sc) ==
  LET entries == Inserted(files)
      n == Len(entries) - Len(Unread(files, t))
  IN /\ n \in Nat
     /\ AllInPlace(files, t)
     /\ Unread(files, t) = SubSeq(entries, n + 1, Len(entries))
     /\ Right(entries, n)
     /\ Gathered(entries, n, InOf(t), res, sc)

\* There is one such number at most: those that are not left.
LEMMA FollowingIs ==
  ASSUME NEW files, Sound(files), NEW t, Readers(t), NEW res, NEW sc
  PROVE  Following(files, t, res, sc) <=> \E n : Follow(files, t, res, sc, n)
<1> DEFINE entries == Inserted(files)
           u == Unread(files, t)
           S == AllEntries(files)
           n == Len(entries) - Len(u)
<1>1. SUFFICES ASSUME AllInPlace(files, t)
               PROVE  Following(files, t, res, sc) <=>
                        \E m : Follow(files, t, res, sc, m)
  BY DEF Following, Follow
<1>2. entries \in Seq(S) /\ u \in Seq(S)
  BY <1>1, InsertedIs, WaitingIs, UnreadIsSeq
<1>3. Len(entries) \in Nat /\ Len(u) \in Nat
  BY <1>2
<1>4. n \in Nat <=> Len(u) <= Len(entries)
  <2> DEFINE l == Len(entries)
             k == Len(u)
  <2>1. l \in Nat /\ k \in Nat
    BY <1>3
  <2> HIDE DEF l, k
  <2>2. l - k \in Nat <=> k <= l
    BY <2>1
  <2>3. QED
    BY <2>2 DEF l, k
<1>5. \A m : Left(entries, m, u) <=>
               /\ m = n /\ Len(u) <= Len(entries)
               /\ u = SubSeq(entries, m + 1, Len(entries))
  <2> HIDE DEF entries, u, S
  <2>1. QED
    BY <1>2, LeftIs
<1>6. \A m : Follow(files, t, res, sc, m) <=>
               /\ Left(entries, m, u) /\ Right(entries, m)
               /\ Gathered(entries, m, InOf(t), res, sc)
  BY <1>1 DEF Follow
<1>7. Following(files, t, res, sc) <=>
        /\ n \in Nat /\ u = SubSeq(entries, n + 1, Len(entries))
        /\ Right(entries, n) /\ Gathered(entries, n, InOf(t), res, sc)
  BY <1>1 DEF Following
<1> HIDE DEF entries, u, n
<1>8. QED
  BY <1>4, <1>5, <1>6, <1>7

\* Follows, and the same in the next state.
LEMMA FollowsIs ==
  /\ Readers(stack) =>
       (Follows <=> /\ ~failed /\ Following(disk, stack, result, sec)
                    /\ stack = <<>> => Resolved(result))
  /\ Readers(stack') =>
       (Follows' <=> /\ ~failed' /\ Following(disk', stack', result', sec')
                     /\ stack' = <<>> => Resolved(result'))
<1>1. Readers(stack) => DOMAIN stack = 1 .. Len(stack) /\ Last(stack) = stack[Len(stack)]
  BY DEF Readers, Last
<1>2. Readers(stack') =>
        DOMAIN stack' = 1 .. Len(stack') /\ Last(stack') = stack'[Len(stack')]
  BY DEF Readers, Last
<1>3. \A entries, n, in : Collected(entries, n, in) <=>
                            Gathered(entries, n, in, result, sec)
  BY DEF Collected, Gathered
<1>4. \A entries, n, in : Collected(entries, n, in)' <=>
                            Gathered(entries, n, in, result', sec')
  BY DEF Collected, Gathered
<1>5. Readers(stack) =>
       (Follows <=> /\ ~failed /\ Following(disk, stack, result, sec)
                    /\ stack = <<>> => Resolved(result))
  BY <1>1, <1>3 DEF Follows, Following, Done, AllInPlace, Right, InOf
<1>6. Readers(stack') =>
       (Follows' <=> /\ ~failed' /\ Following(disk', stack', result', sec')
                     /\ stack' = <<>> => Resolved(result'))
  BY <1>2, <1>4 DEF Follows, Following, Done, AllInPlace, Right, InOf
<1>7. QED
  BY <1>5, <1>6

\* Before anything is read, all entries are left, and the settings are those of
\* get_default.
LEMMA NothingMeans ==
  ASSUME NEW S, NEW entries \in Seq(S)
  PROVE  Means(entries, {}, get_default)
<1>1. Len(entries) \in Nat /\ 0 \in 0 .. Len(entries)
  OBVIOUS
<1>2. \A key : Given(entries, {}, key) = {}
  BY DEF Given
<1>3. \A key, default : LastOf(entries, {}, key, default) = default
  BY <1>2 DEF LastOf
<1>4. ASSUME NEW key
      PROVE  Added(entries, {}, key) = <<>>
  <2>1. PICK a : /\ AddsUp(entries, {}, key, a)
                 /\ Added(entries, {}, key) = a[Len(entries)]
    BY <1>1, AddedIs
  <2>2. {} \subseteq 1 .. 0
    OBVIOUS
  <2>3. a[Len(entries)] = a[0]
    BY <1>1, <2>1, <2>2, AddedUpto
  <2>4. a[0] = <<>>
    BY <2>1 DEF AddsUp
  <2>5. QED
    BY <2>1, <2>3, <2>4
<1>5. Lasts(entries, {}, get_default)
  BY <1>2, <1>3, <1>4 DEF Lasts, get_default
<1>6. QED
  BY <1>5, MeansIs

\* A reading begins before the first entry.
LEMMA ReadingBegins ==
  ASSUME Init, Sound(disk)
  PROVE  Follow(disk, stack, result, sec, 0) /\ stack # <<>> /\ ~failed
<1> DEFINE r == Reader(Config, "file")
           entries == Inserted(disk)
<1>1. stack = <<r>> /\ Len(stack) = 1 /\ stack[1] = r /\ stack # <<>>
  BY DEF Init
<1>2. r.text = disk[Config] /\ r.at = 1 /\ r.in = "file"
  BY DEF Reader
<1>3. TypeOK /\ Readers(stack)
  BY TypeInit, NestedIs DEF TypeOK
<1>4. Legible(disk) /\ Config \in DOMAIN disk
  BY DEF Sound
<1>5. OfSections(disk[Config]) /\ NotIndented(disk[Config], 1)
  BY <1>4 DEF Legible, OfSections
<1>6. InPlace(disk, r)
  BY <1>2, <1>4, <1>5 DEF InPlace, Between
<1>7. AllInPlace(disk, stack)
  BY <1>1, <1>6 DEF AllInPlace
<1>8. Unread(disk, stack) = entries
  <2>1. Waiting(disk, stack)
    BY <1>3, <1>7, WaitingIs
  <2>2. Waiting(disk, <<>>) /\ Under(<<>>, stack)
    BY <1>1 DEF Waiting, Under
  <2>3. Unread(disk, stack) = Rest(disk, stack[Len(stack)]) \o Unread(disk, <<>>)
    BY <2>1, <2>2, UnreadSplit
  <2>4. Unread(disk, <<>>) = <<>>
    BY UnreadNothing
  <2>5. Rest(disk, r) = Contents(disk)[Config]
    BY <1>2, <1>4, SoundIs DEF Rest, ContentsOf
  <2>6. entries \in Seq(AllEntries(disk))
    BY InsertedIs
  <2>7. Unread(disk, stack) = entries \o <<>>
    BY <1>1, <2>3, <2>4, <2>5 DEF Inserted
  <2> HIDE DEF entries
  <2>8. QED
    BY <2>6, <2>7
<1>9. entries \in Seq(AllEntries(disk)) /\ Len(entries) \in Nat
  BY InsertedIs
<1> HIDE DEF entries, r
<1>10. Left(entries, 0, entries)
  BY <1>9 DEF Left
<1>11. Right(entries, 0)
  BY DEF Right
<1>12. Applying(entries, 0) = {}
  BY DEF Applying
<1>13. Means(entries, Applying(entries, 0), result)
  BY <1>9, <1>12, NothingMeans DEF Init
<1>14. InOf(stack) = "file"
  BY <1>1, <1>2 DEF InOf
<1>15. Gathered(entries, 0, InOf(stack), result, sec)
  BY <1>13, <1>14 DEF Gathered
<1>16. QED
  BY <1>1, <1>7, <1>8, <1>10, <1>11, <1>15 DEF Follow, Init, entries

\* After a step at a line that is right some number of entries has been read.
LEMMA StepFollows ==
  ASSUME NEW n, Going(n), Clear, Next
  PROVE  \E m : Gone(m)
<1>1. ASSUME NoParallel \/ Cpus \/ Nice \/ Verbose \/ Tool
      PROVE  Gone(n + 1)
  BY <1>1, NoParallelFollows, CpusFollows, NiceFollows, VerboseFollows, ToolFollows
<1>2. ASSUME DistccHosts \/ DistcplusplusHosts \/ Program \/ AddTo \/ LockFile
      PROVE  Gone(n + 1)
  BY <1>2, DistccHostsFollows, DistcplusplusHostsFollows, ProgramFollows,
     AddToFollows, LockFileFollows
<1>3. ASSUME Section
      PROVE  Gone(n + 1)
  BY <1>3, SectionFollows
<1>4. ASSUME \/ IncludeFragment \/ FragmentEnds \/ SectionEnds \/ IncludeFile
             \/ FileEnds
      PROVE  Gone(n)
  BY <1>4, IncludeFragmentFollows, FragmentEndsFollows, SectionEndsFollows,
     IncludeFileFollows, FileEndsFollows
<1>5. ~NoInstruction
  BY NoInstructionFollows
<1>6. QED
  BY <1>1, <1>2, <1>3, <1>4, <1>5 DEF Next

\* At another line too, or the reading has failed or is about to.
LEMMA StepRejects ==
  ASSUME NEW n, Going(n), ~Clear, Next
  PROVE  (\E m : Gone(m)) \/ (Dooms /\ Faulty(Inserted(disk)))
<1>1. ASSUME NoParallel \/ Cpus \/ Nice \/ Verbose \/ Tool
      PROVE  Dooms
  BY <1>1, NoParallelDooms, CpusDooms, NiceDooms, VerboseDooms, ToolDooms
<1>2. ASSUME DistccHosts \/ DistcplusplusHosts \/ Program \/ AddTo \/ LockFile
      PROVE  Dooms
  BY <1>2, DistccHostsDooms, DistcplusplusHostsDooms, ProgramDooms, AddToDooms,
     LockFileDooms
<1>3. ASSUME IncludeFragment \/ IncludeFile \/ Section
      PROVE  Dooms
  BY <1>3, IncludeFragmentDooms, IncludeFileDooms, SectionDooms
<1>4. ASSUME NoInstruction
      PROVE  Dooms
  BY <1>4 DEF NoInstruction, Die, Dooms
<1>5. ASSUME FragmentEnds \/ SectionEnds \/ FileEnds
      PROVE  Gone(n)
  BY <1>5, FragmentEndsFollows, SectionEndsFollows, FileEndsFollows
<1>6. Faulty(Inserted(disk))
  <2>1. stack # <<>>
    BY DEF Clear
  <2>2. QED
    BY <2>1, UnclearFaulty
<1>7. QED
  BY <1>1, <1>2, <1>3, <1>4, <1>5, <1>6 DEF Next

\* No file is written while it is read.
LEMMA DiskKept ==
  ASSUME [Next]_vars
  PROVE  disk' = disk
<1>1. \A read, new : Set(read, new) => disk' = disk
  BY DEF Set, Die
<1>2. \A read, in : Include(read, in) => disk' = disk
  BY DEF Include, Die
<1>3. QED
  BY <1>1, <1>2
  DEF Next, vars, NoParallel, Cpus, Nice, Verbose, Tool, DistccHosts,
      DistcplusplusHosts, Program, AddTo, LockFile, IncludeFragment,
      NoInstruction, FragmentEnds, SectionEnds, IncludeFile, Section, FileEnds, Die

\* A reading that has failed stops.
LEMMA FailedStops == Next => ~failed
BY DEF Next, NoParallel, Cpus, Nice, Verbose, Tool, DistccHosts,
   DistcplusplusHosts, Program, AddTo, LockFile, IncludeFragment, Instructed,
   NoInstruction, FragmentEnds, SectionEnds, IncludeFile, Section, FileEnds, Reading

\* The readers of a state.
LEMMA TypeReaders == (TypeOK => Readers(stack)) /\ (TypeOK' => Readers(stack'))
BY NestedIs DEF TypeOK

\* The invariant holds at the beginning.
LEMMA ReadingInit ==
  ASSUME Init
  PROVE  ReadingInv /\ disk \in Disks
<1>1. TypeOK /\ disk \in Disks /\ Readers(stack)
  BY TypeInit, TypeReaders DEF Init
<1>2. ASSUME Legible(disk)
      PROVE  Follows
  <2>1. Sound(disk)
    BY <1>1, <1>2, SoundDisk
  <2>2. Following(disk, stack, result, sec) /\ stack # <<>> /\ ~failed
    BY <1>1, <2>1, ReadingBegins, FollowingIs
  <2>3. QED
    BY <1>1, <2>2, FollowsIs
<1>3. QED
  BY <1>1, <1>2 DEF ReadingInv

\* It holds after every step.
LEMMA ReadingStep ==
  ASSUME ReadingInv, disk \in Disks, [Next]_vars
  PROVE  ReadingInv' /\ disk' \in Disks
<1>1. TypeOK /\ TypeOK' /\ Readers(stack) /\ Readers(stack')
  BY EveryStep, TypeStutters, TypeReaders DEF ReadingInv
<1>2. disk' = disk
  BY DiskKept
<1>3. ASSUME Legible(disk), NoNesting, Follows
      PROVE  Follows' \/ Rejects'
  <2>1. Sound(disk)
    BY <1>3, SoundDisk
  <2>2. /\ ~failed /\ Following(disk, stack, result, sec)
        /\ stack = <<>> => Resolved(result)
    BY <1>1, <1>3, FollowsIs
  <2>3. CASE Next
    <3>1. PICK n : Follow(disk, stack, result, sec, n)
      BY <1>1, <2>1, <2>2, FollowingIs
    <3>2. Going(n)
      BY <1>1, <1>3, <2>1, <2>2, <3>1 DEF Going
    <3>3. (\E m : Gone(m)) \/ (Dooms /\ Faulty(Inserted(disk)))
      BY <2>3, <3>2, StepFollows, StepRejects
    <3>4. ASSUME NEW m, Gone(m) PROVE Follows'
      <4>1. ~failed' /\ (stack' = <<>> => Resolved(result'))
        BY <3>4 DEF Gone
      <4>2. Follow(disk', stack', result', sec', m) /\ Sound(disk')
        BY <1>2, <2>1, <3>4 DEF Gone
      <4>3. Following(disk', stack', result', sec')
        BY <1>1, <4>2, FollowingIs
      <4>4. QED
        BY <1>1, <4>1, <4>3, FollowsIs
    <3>5. QED
      BY <1>2, <3>3, <3>4 DEF Dooms, Rejects
  <2>4. CASE UNCHANGED vars
    <3>1. /\ ~failed' /\ Following(disk', stack', result', sec')
          /\ stack' = <<>> => Resolved(result')
      BY <2>2, <2>4 DEF vars
    <3>2. QED
      BY <1>1, <3>1, FollowsIs
  <2>5. QED
    BY <2>3, <2>4
<1>4. ASSUME Rejects
      PROVE  Rejects'
  <2>1. CASE Next
    <3>1. Doomed(stack) /\ ~failed
      BY <1>4, <2>1, FailedStops DEF Rejects
    <3>2. Dooms
      BY <1>1, <2>1, <3>1, DoomedStep
    <3>3. QED
      BY <1>2, <1>4, <3>2 DEF Dooms, Rejects
  <2>2. CASE UNCHANGED vars
    BY <1>4, <2>2 DEF vars, Rejects
  <2>3. QED
    BY <2>1, <2>2
<1>5. NoNesting' <=> NoNesting
  BY DEF NoNesting
<1>6. Legible(disk)' <=> Legible(disk)
  BY <1>2
<1>7. QED
  BY <1>1, <1>2, <1>3, <1>4, <1>5, <1>6 DEF ReadingInv

\* At the end nothing is left, and the settings are those of all entries.
LEMMA ReadWell ==
  ASSUME TypeOK, Follows, disk \in Disks, Legible(disk)
  PROVE  ReadsAsWritten /\ RejectsFaults
<1> DEFINE entries == Inserted(disk)
<1>1. Sound(disk) /\ Readers(stack)
  BY SoundDisk, TypeReaders
<1>2. /\ ~failed /\ Following(disk, stack, result, sec)
      /\ stack = <<>> => Resolved(result)
  BY <1>1, FollowsIs
<1>3. PICK n : Follow(disk, stack, result, sec, n)
  BY <1>1, <1>2, FollowingIs
<1>4. entries \in Seq(AllEntries(disk)) /\ Len(entries) \in Nat
  BY <1>1, InsertedIs
<1>5. DOMAIN entries = 1 .. Len(entries)
  BY <1>4
<1>6. ASSUME Done
      PROVE  n = Len(entries) /\ Means(entries, Applying(entries, n), result)
  <2>1. stack = <<>> /\ InOf(stack) = "file"
    BY <1>6 DEF Done, InOf
  <2>2. Unread(disk, stack) = <<>>
    BY <1>1, <2>1, UnreadNothing
  <2>3. Left(entries, n, <<>>)
    BY <1>3, <2>2 DEF Follow
  <2>4. Means(entries, Applying(entries, n), result)
    BY <1>3, <2>1 DEF Follow, Gathered
  <2>5. n \in 0 .. Len(entries) /\ 0 = Len(entries) - n
    BY <2>3 DEF Left
  <2> HIDE DEF entries
  <2>6. QED
    BY <1>4, <2>4, <2>5
<1>7. Done => ~Faulty(entries)
  BY <1>3, <1>5, <1>6 DEF Follow, Right, Faulty
<1>8. ASSUME Done
      PROVE  \A key \in DOMAIN Meaning(entries) : result[key] = Meaning(entries)[key]
  <2>1. Applying(entries, n) = {i \in DOMAIN entries : Applies(entries, i)}
    BY <1>5, <1>6, <1>8 DEF Applying
  <2>2. MeaningOf(entries, Applying(entries, n)) = Meaning(entries)
    BY <2>1 DEF Meaning
  <2> DEFINE meaning == Meaning(entries)
  <2>3. /\ \A key \in DOMAIN meaning \ Tools : result[key] = meaning[key]
        /\ \A tool \in Tools : resolve_path(result[tool], tool) = meaning[tool]
    BY <1>6, <1>8, <2>2 DEF Means
  <2>4. Resolved(result)
    BY <1>2, <1>8 DEF Done
  <2> HIDE DEF meaning
  <2>5. \A key \in DOMAIN meaning : result[key] = meaning[key]
    BY <2>3, <2>4 DEF Resolved
  <2>6. QED
    BY <2>5 DEF meaning
<1>9. {result.lock_fd} = IF result.lock_file = {} THEN {Config} ELSE result.lock_file
  BY DEF TypeOK, Settings
<1>10. ReadsAsWritten
  BY <1>8, <1>9 DEF ReadsAsWritten
<1>11. RejectsFaults
  BY <1>2, <1>7 DEF RejectsFaults
<1>12. QED
  BY <1>10, <1>11

\* What is rejected has not come to its end.
LEMMA RejectedWell ==
  ASSUME TypeOK, Rejects
  PROVE  ReadsAsWritten /\ RejectsFaults
<1>1. Faulty(Inserted(disk)) /\ stack # <<>>
  BY DEF TypeOK, Rejects, Doomed
<1>2. QED
  BY <1>1 DEF Done, ReadsAsWritten, RejectsFaults

\* What has been read of legible files and what is left to the readers are
\* together what the files say, and the settings mean the former; or a line is
\* wrong, and the reading has failed or is about to.
THEOREM ReadingCorrect == Spec => []ReadingInv
<1>1. Init => ReadingInv /\ disk \in Disks
  BY ReadingInit
<1>2. (ReadingInv /\ disk \in Disks) /\ [Next]_vars =>
        (ReadingInv /\ disk \in Disks)'
  BY ReadingStep
<1>3. QED
  BY <1>1, <1>2, PTL DEF Spec

\* Of legible files exactly those are rejected in which a line is wrong, in
\* whatever file and section, and what the others set is what they say.
THEOREM ReadsLegible ==
  Spec => [](Legible(disk) /\ NoNesting => ReadsAsWritten /\ RejectsFaults)
<1>1. Init => ReadingInv /\ disk \in Disks
  BY ReadingInit
<1>2. (ReadingInv /\ disk \in Disks) /\ [Next]_vars =>
        (ReadingInv /\ disk \in Disks)'
  BY ReadingStep
<1>3. ReadingInv /\ disk \in Disks =>
        (Legible(disk) /\ NoNesting => ReadsAsWritten /\ RejectsFaults)
  BY ReadWell, RejectedWell DEF ReadingInv
<1>4. QED
  BY <1>1, <1>2, <1>3, PTL DEF Spec
=============================================================================
