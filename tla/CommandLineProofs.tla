-------------------------- MODULE CommandLineProofs --------------------------
(***************************************************************************)
(* For every command, environment and set of sections whose "add make"     *)
(* leave room for it: nothing is written behind the end of new_argv, and   *)
(* however often main begins again, what it runs is what was typed, with   *)
(* what its section adds.  This follows from IndInv (CommandLine).         *)
(*                                                                         *)
(* Of the operators of CommandLine it is proved what they compute, for     *)
(* every argument: setenvs, int_to_string, can_distcc.  With that, from    *)
(* RoundInv: the environment a program gets, the jobs of a make, and which *)
(* compiles distcc is run for.                                             *)
(***************************************************************************)
EXTENDS CommandLine, SequenceTheorems, Recursion

(***************************************************************************)
(* Sequences.                                                              *)
(***************************************************************************)
LEMMA Prefixed ==
  ASSUME NEW S, NEW p \in S, NEW t \in Seq(S)
  PROVE  /\ <<p>> \o t \in Seq(S)
         /\ Len(<<p>> \o t) = Len(t) + 1
         /\ (<<p>> \o t)[1] = p
         /\ Tail(<<p>> \o t) = t
<1>1. <<p>> \in Seq(S) /\ Len(<<p>>) = 1
  OBVIOUS
<1>2. /\ <<p>> \o t \in Seq(S) /\ Len(<<p>> \o t) = 1 + Len(t)
      /\ \A i \in 1 .. 1 + Len(t) :
           (<<p>> \o t)[i] = IF i <= 1 THEN <<p>>[i] ELSE t[i - 1]
  BY <1>1, ConcatProperties
<1>3. Len(t) \in Nat
  BY LenProperties
<1>4. <<p>> \o t # <<>>
  BY <1>2, <1>3
<1> DEFINE s == <<p>> \o t
<1>5. s \in Seq(S) /\ s # <<>> /\ Len(s) = 1 + Len(t)
      /\ \A i \in 1 .. Len(t) : s[i + 1] = t[i]
  BY <1>2, <1>3, <1>4
<1>6. s[1] = p
  BY <1>2, <1>3
<1> HIDE DEF s
<1>7. Tail(s) = t
  <2>1. /\ Tail(s) \in Seq(S) /\ Len(Tail(s)) = Len(t)
        /\ \A i \in 1 .. Len(Tail(s)) : Tail(s)[i] = s[i + 1]
    BY <1>3, <1>5, HeadTailProperties
  <2>2. \A i \in 1 .. Len(Tail(s)) : Tail(s)[i] = t[i]
    BY <2>1, <1>5
  <2>3. QED
    BY <2>1, <2>2, SeqEqual
<1>8. QED
  BY <1>3, <1>5, <1>6, <1>7 DEF s

\* A line with arguments a and then j put behind its first word.
LEMMA Inserted ==
  ASSUME NEW S, NEW p \in S, NEW a \in Seq(S), NEW j \in Seq(S),
         NEW t \in Seq(S)
  PROVE  LET line == <<p>> \o a \o j \o t
         IN /\ line \in Seq(S)
            /\ Len(line) = 1 + Len(a) + Len(j) + Len(t)
            /\ Len(j) = 1 => line[Len(a) + 2] = j[1]
<1> DEFINE b == <<p>> \o a
           c == b \o j
<1>1. b \in Seq(S) /\ Len(b) = 1 + Len(a) /\ Len(a) \in Nat
  BY Prefixed, LenProperties
<1> HIDE DEF b
<1>2. /\ c \in Seq(S) /\ Len(c) = Len(b) + Len(j) /\ Len(j) \in Nat
      /\ \A i \in 1 .. Len(b) + Len(j) :
           c[i] = IF i <= Len(b) THEN b[i] ELSE j[i - Len(b)]
  BY <1>1, ConcatProperties, LenProperties
<1> HIDE DEF c
<1>3. /\ c \o t \in Seq(S) /\ Len(c \o t) = Len(c) + Len(t) /\ Len(t) \in Nat
      /\ \A i \in 1 .. Len(c) + Len(t) :
           (c \o t)[i] = IF i <= Len(c) THEN c[i] ELSE t[i - Len(c)]
  <2>1. c \in Seq(S)
    BY <1>2
  <2>2. QED
    BY <2>1, ConcatProperties, LenProperties
<1>4. Len(j) = 1 => (c \o t)[Len(a) + 2] = j[1]
  BY <1>1, <1>2, <1>3
<1>5. QED
  BY <1>1, <1>2, <1>3, <1>4 DEF b, c

LEMMA Reversed ==
  ASSUME NEW S, NEW s \in Seq(S)
  PROVE  Reverse(s) \in Seq(S) /\ Len(Reverse(s)) = Len(s)
<1>1. Len(s) \in Nat /\ \A i \in 1 .. Len(s) : s[i] \in S
  BY LenProperties, ElementOfSeq
<1>2. \A i \in 1 .. Len(s) : s[(Len(s) - i) + 1] \in S
  BY <1>1
<1>3. QED
  BY <1>1, <1>2 DEF Reverse

(***************************************************************************)
(* What was typed.                                                         *)
(***************************************************************************)
LEMMA AskedIs ==
  ASSUME Typable(typed), Command
  PROVE  /\ Asked \in Seq(Words) /\ Asked # <<>>
         /\ Skipped \in 0 .. 2
         /\ Len(Asked) \in Nat \ {0}
         /\ Len(typed) = Skipped + Len(Asked)
<1>1. /\ typed \in Seq(Words) /\ typed # <<>> /\ Asked # <<>>
      /\ Len(typed) \in Nat \ {0}
  BY EmptySeq DEF Typable, Command
<1>2. Skipped \in 0 .. 2 /\ Skipped <= Len(typed)
  BY <1>1 DEF Skipped, HasSection
<1>3. \A i \in Skipped + 1 .. Len(typed) : typed[i] \in Words
  BY <1>1, <1>2, ElementOfSeq
<1>4. /\ Asked \in Seq(Words)
      /\ Len(Asked) = IF Skipped + 1 <= Len(typed)
                      THEN Len(typed) - (Skipped + 1) + 1 ELSE 0
  BY <1>1, <1>2, <1>3, SubSeqProperties DEF Asked
<1>5. Len(Asked) \in Nat \ {0}
  BY <1>1, <1>4, EmptySeq
<1>6. QED
  BY <1>1, <1>2, <1>4, <1>5

LEMMA TypedSame ==
  ASSUME UNCHANGED typed
  PROVE  /\ Typable(typed)' = Typable(typed)
         /\ Asked' = Asked /\ Skipped' = Skipped
         /\ HasSection' = HasSection /\ Command' = Command
BY DEF Typable, Asked, Skipped, HasSection, Command

LEMMA DirKnown ==
  ASSUME Typable(typed), NEW c \in Configs
  PROVE  (IF HasSection THEN typed[2].text ELSE Cwd) \in DOMAIN c
<1>1. CASE HasSection
  <2>1. 2 \in DOMAIN typed /\ typed[2].kind = "--section="
    BY <1>1, LenProperties DEF HasSection, Typable
  <2>2. QED
    BY <1>1, <2>1 DEF Typable
<1>2. CASE ~HasSection
  BY <1>2, ConstantsOK
<1>3. QED
  BY <1>1, <1>2

LEMMA Identified == ASSUME NEW line PROVE what_am_i(line) \in Type
BY DEF what_am_i, Type

LEMMA ResolveType ==
  ASSUME NEW word \in Words, NEW cmd \in Words
  PROVE  resolve_path(word, cmd) \in Words
<1>1. word.text \o cmd.text \in Seq(Nat) /\ cmd.kind \in STRING
  BY ConcatProperties DEF Words
<1>2. QED
  BY <1>1 DEF resolve_path, Word, Words


(***************************************************************************)
(* The steps.  A step that leaves alone what an invariant speaks of.       *)
(***************************************************************************)
LEMMA Elsewhere ==
  ASSUME IndInv, UNCHANGED typed,
         pc' \notin {"again", "lock", "ran", "wait", "overrun"}
  PROVE  IndInv'
<1>1. Typable(typed)'
  BY TypedSame DEF IndInv
<1>2. Restored' /\ SectionRead' /\ RunsWhatWasTyped'
  BY DEF Restored, SectionRead, RunsWhatWasTyped, Running
<1>3. StaysInRoom'
  BY DEF StaysInRoom, Running
<1>4. QED
  BY <1>1, <1>2, <1>3 DEF IndInv

LEMMA InitInv == ASSUME Init PROVE IndInv
<1>1. Typable(typed) /\ pc = "main"
  BY ConstantsOK DEF Init
<1>2. QED
  BY <1>1
  DEF IndInv, Restored, SectionRead, RunsWhatWasTyped, Running, StaysInRoom

LEMMA RestoreKeeps == ASSUME IndInv, Restore PROVE IndInv'
<1>1. /\ typed' = typed /\ pc' = "again" /\ Command /\ argv' = Asked
      /\ shift' = Skipped /\ used' = Len(typed) + 1
      /\ dirname' = IF HasSection THEN typed[2].text ELSE Cwd
      /\ type' = what_am_i(Asked)
  BY DEF Restore, input
<1>2. /\ Typable(typed)' /\ Asked' = Asked /\ Skipped' = Skipped
      /\ HasSection' = HasSection /\ Command' = Command
  BY <1>1, TypedSame DEF IndInv
<1>3. Restored'
  BY <1>1, <1>2 DEF Restored, what_am_i
<1>4. SectionRead' /\ RunsWhatWasTyped'
  BY <1>1 DEF SectionRead, RunsWhatWasTyped, Running
<1>5. /\ Skipped \in Nat /\ Len(Asked) \in Nat /\ Len(typed) \in Nat
      /\ Len(typed) = Skipped + Len(Asked)
  BY <1>1, AskedIs DEF IndInv
<1>6. StaysInRoom'
  BY <1>1, <1>2, <1>5 DEF StaysInRoom, Running
<1>7. QED
  BY <1>2, <1>3, <1>4, <1>6 DEF IndInv

LEMMA AlteredKeeps == ASSUME IndInv, Altered PROVE IndInv'
<1>1. /\ pc = "lock" /\ pc' = "again"
      /\ UNCHANGED <<typed, argv, shift, used, dirname, type, sec, read>>
  BY DEF Altered, input, args, locals
<1>2. /\ Typable(typed)' /\ Asked' = Asked /\ Skipped' = Skipped
      /\ HasSection' = HasSection /\ Command' = Command
  BY <1>1, TypedSame DEF IndInv
<1>3. Restored'
  BY <1>1, <1>2 DEF IndInv, Restored, what_am_i
<1>4. SectionRead' /\ RunsWhatWasTyped'
  BY <1>1 DEF SectionRead, RunsWhatWasTyped, Running
<1>5. StaysInRoom'
  BY <1>1 DEF IndInv, StaysInRoom, Running
<1>6. QED
  BY <1>2, <1>3, <1>4, <1>5 DEF IndInv

\* What main makes of a section before it looks at ccache and distcc.
LEMMA ResolvedIs ==
  ASSUME NEW r \in Section, type \in Type
  PROVE  LET s == Resolved(r)
         IN /\ s.distcc = r.distcc /\ s.make_add = r.make_add
            /\ "ccache" \in DOMAIN s /\ "distcc" \in DOMAIN s
            /\ "names" \in DOMAIN s /\ "make_add" \in DOMAIN s
            /\ type # "other" =>
                 /\ s.ccache = r.ccache
                 /\ s.names[type] =
                      {resolve_path(w, argv[1]) : w \in NameOf(r)}
<1> DEFINE path == {resolve_path(w, argv[1]) : w \in NameOf(r)}
<1>1. Resolved(r) = IF type = "other" THEN [r EXCEPT !.ccache = path]
                    ELSE [r EXCEPT !.names[type] = path]
  BY DEF Resolved
<1> HIDE DEF path
<1>2. CASE type = "other"
  BY <1>1, <1>2 DEF Section
<1>3. CASE type # "other"
  BY <1>1, <1>3 DEF Section, path
<1>4. QED
  BY <1>2, <1>3

LEMMA ReadKeeps == ASSUME IndInv, Read PROVE IndInv'
<1>1. /\ pc = "again" /\ pc' = "lock"
      /\ UNCHANGED <<typed, argv, shift, used, dirname, type>>
  BY DEF Read, input, args
<1>2. /\ Typable(typed)' /\ Asked' = Asked /\ Skipped' = Skipped
      /\ HasSection' = HasSection /\ Command' = Command
  BY <1>1, TypedSame DEF IndInv
<1>3. Restored'
  BY <1>1, <1>2 DEF IndInv, Restored, what_am_i
<1>4. RunsWhatWasTyped'
  BY <1>1 DEF RunsWhatWasTyped, Running
<1>5. StaysInRoom'
  BY <1>1 DEF IndInv, StaysInRoom, Running
<1>6. SectionRead'
  <2>1. PICK c \in Configs :
          /\ NameOf(c[dirname]) # {}
          /\ read' = c[dirname]
          /\ \E distcc \in {Resolved(c[dirname]).distcc, {}} :
               sec' = [Resolved(c[dirname]) EXCEPT
                         !.ccache = IF noccache THEN {} ELSE @,
                         !.distcc = distcc]
    BY DEF Read
  <2>2. dirname \in DOMAIN c /\ argv = Asked /\ type = what_am_i(Asked)
    BY <1>1, DirKnown DEF IndInv, Restored
  <2>3. c[dirname] \in Section /\ type \in Type
    BY <2>2, ConstantsOK, Identified
  <2> DEFINE r == c[dirname]
             s == Resolved(r)
  <2>4. /\ s.distcc = r.distcc /\ s.make_add = r.make_add
        /\ "ccache" \in DOMAIN s /\ "distcc" \in DOMAIN s
        /\ "names" \in DOMAIN s /\ "make_add" \in DOMAIN s
        /\ type # "other" =>
             /\ s.ccache = r.ccache
             /\ s.names[type] = {resolve_path(w, argv[1]) : w \in NameOf(r)}
    BY <2>3, ResolvedIs
  <2>5. PICK distcc \in {s.distcc, {}} :
          sec' = [s EXCEPT !.ccache = IF noccache THEN {} ELSE @,
                           !.distcc = distcc]
    BY <2>1
  <2>6. NameOf(read)' = NameOf(r)
    BY <1>1, <2>1 DEF NameOf
  <2> HIDE DEF s, r
  <2>7. /\ sec'.make_add = r.make_add /\ sec'.distcc \subseteq r.distcc
        /\ type # "other" =>
             /\ sec'.ccache \subseteq r.ccache
             /\ sec'.names[type] =
                  {resolve_path(w, argv[1]) : w \in NameOf(r)}
    BY <2>4, <2>5
  <2>8. read' = r /\ r \in Section /\ NameOf(r) # {}
    BY <2>1, <2>3 DEF r
  <2>9. QED
    BY <1>1, <1>2, <2>2, <2>6, <2>7, <2>8 DEF SectionRead
<1>7. QED
  BY <1>2, <1>3, <1>4, <1>5, <1>6 DEF IndInv

(***************************************************************************)
(* Run: the command that adjust_args_and_environment makes.                *)
(***************************************************************************)
\* The program main puts into argv[0] is one the section names.
LEMMA ProgramIs ==
  ASSUME IndInv, pc = "lock", type # "other"
  PROVE  \E w \in NameOf(read) :
           /\ resolve_path(w, Asked[1]) \in Words
           /\ Renamed = <<resolve_path(w, Asked[1])>> \o Tail(Asked)
<1>1. /\ Typable(typed) /\ Command /\ argv = Asked /\ type \in Type
      /\ read \in Section /\ NameOf(read) # {} /\ NameOf(read) = read.names[type]
      /\ sec.names[type] = {resolve_path(w, Asked[1]) : w \in NameOf(read)}
  BY Identified DEF IndInv, Restored, SectionRead, NameOf
<1>2. Asked[1] \in Words
  BY <1>1, AskedIs, ElementOfSeq
<1>3. PICK w \in NameOf(read) :
        (CHOOSE p \in sec.names[type] : TRUE) = resolve_path(w, Asked[1])
  BY <1>1
<1>4. w \in Words
  BY <1>1 DEF Section
<1>5. QED
  BY <1>1, <1>2, <1>3, <1>4, ResolveType DEF Renamed

LEMMA MakeIs ==
  ASSUME IndInv, pc = "lock", type = "make"
  PROVE  \E p \in {<<resolve_path(w, Asked[1])>> : w \in NameOf(read)},
            j \in {<<>>, <<Word("-j", int_to_string(sec.cpus * 20))>>} :
           /\ Adjusted = p \o Reverse(read.make_add) \o j \o Tail(Asked)
           /\ Len(j) \in {0, 1}
           /\ Len(Adjusted) = Len(Asked) + Len(read.make_add) + Len(j)
           /\ j # <<>> => /\ Len(read.make_add) + 2 \in DOMAIN Adjusted
                          /\ j = <<Adjusted[Len(read.make_add) + 2]>>
<1> DEFINE word == Word("-j", int_to_string(sec.cpus * 20))
           S == Words \cup {word}
<1>1. /\ Asked \in Seq(Words) /\ Asked # <<>> /\ Len(Asked) \in Nat \ {0}
      /\ read.make_add \in Seq(Words) /\ sec.make_add = read.make_add
  BY AskedIs DEF IndInv, Restored, SectionRead, Section
<1>2. PICK w \in NameOf(read) :
        /\ resolve_path(w, Asked[1]) \in Words
        /\ Renamed = <<resolve_path(w, Asked[1])>> \o Tail(Asked)
  BY ProgramIs
<1> DEFINE program == resolve_path(w, Asked[1])
           add == Reverse(read.make_add)
           rest == Tail(Asked)
<1>3. /\ add \in Seq(Words) /\ Len(add) = Len(read.make_add)
      /\ rest \in Seq(Words) /\ Len(rest) = Len(Asked) - 1
  BY <1>1, Reversed, HeadTailProperties
<1>4. Renamed[1] = program /\ Tail(Renamed) = rest
  BY <1>2, <1>3, Prefixed
<1>5. PICK j \in {<<>>, <<word>>} :
        Adjusted = <<program>> \o add \o j \o rest
  BY <1>1, <1>4 DEF Adjusted, ForMake, Added
<1> HIDE DEF word, program, add, rest
<1>6. /\ program \in S /\ add \in Seq(S) /\ rest \in Seq(S) /\ word \in S
      /\ Words \subseteq S
  BY <1>2, <1>3, SeqMonotonic DEF program
<1> HIDE DEF S
<1>7. j \in Seq(S) /\ Len(j) \in {0, 1} /\ (j # <<>> => Len(j) = 1 /\ j = <<j[1]>>)
  <2>1. CASE j = <<>>
    BY <2>1
  <2>2. CASE j = <<word>>
    BY <1>6, <2>2
  <2>3. QED
    BY <2>1, <2>2
<1>8. /\ Adjusted \in Seq(S)
      /\ Len(Adjusted) = 1 + Len(add) + Len(j) + Len(rest)
      /\ Len(j) = 1 => Adjusted[Len(add) + 2] = j[1]
  BY <1>5, <1>6, <1>7, Inserted
<1>9. Len(add) \in Nat /\ DOMAIN Adjusted = 1 .. Len(Adjusted)
  BY <1>3, <1>8, LenProperties
<1>10. j # <<>> => Len(add) + 2 \in DOMAIN Adjusted
  BY <1>1, <1>3, <1>7, <1>8, <1>9
<1>11. Len(Adjusted) = Len(Asked) + Len(add) + Len(j)
  BY <1>1, <1>3, <1>7, <1>8, <1>9
<1>12. <<program>> \in {<<resolve_path(v, Asked[1])>> : v \in NameOf(read)}
  BY DEF program
<1>13. QED
  BY <1>3, <1>5, <1>7, <1>8, <1>10, <1>11, <1>12 DEF word, add, rest

LEMMA CompileIs ==
  ASSUME IndInv, pc = "lock", type \in {"cc", "c++"}
  PROVE  \E p \in {<<resolve_path(w, Asked[1])>> : w \in NameOf(read)},
            t \in {<<w>> : w \in read.ccache \cup read.distcc} \cup {<<>>} :
           /\ Adjusted = t \o p \o Tail(Asked)
           /\ Len(Adjusted) \in {Len(Asked), Len(Asked) + 1}
<1>1. /\ Asked \in Seq(Words) /\ Asked # <<>> /\ Len(Asked) \in Nat \ {0}
      /\ sec.ccache \subseteq read.ccache /\ sec.distcc \subseteq read.distcc
      /\ read.ccache \subseteq Words /\ read.distcc \subseteq Words
  BY AskedIs DEF IndInv, Restored, SectionRead, Section
<1>2. PICK w \in NameOf(read) :
        /\ resolve_path(w, Asked[1]) \in Words
        /\ Renamed = <<resolve_path(w, Asked[1])>> \o Tail(Asked)
  BY ProgramIs
<1> DEFINE p == <<resolve_path(w, Asked[1])>>
           rest == Tail(Asked)
<1>3. /\ p \in Seq(Words) /\ rest \in Seq(Words) /\ Renamed = p \o rest
      /\ Len(rest) = Len(Asked) - 1
      /\ p \in {<<resolve_path(v, Asked[1])>> : v \in NameOf(read)}
  BY <1>1, <1>2, HeadTailProperties
<1>4. Renamed \in Seq(Words) /\ Len(Renamed) = Len(Asked)
  BY <1>1, <1>2, <1>3, Prefixed
<1>5. Adjusted = ForCompile
  BY DEF Adjusted
<1> HIDE DEF p, rest
<1>6. CASE Prefix = {}
  <2>1. Adjusted = Renamed /\ <<>> \o p = p
    BY <1>3, <1>5, <1>6, ConcatEmptySeq DEF ForCompile
  <2>2. QED
    BY <1>3, <1>4, <2>1 DEF rest
<1>7. CASE Prefix # {}
  <2>1. PICK t \in Prefix : Adjusted = <<t>> \o Renamed
    BY <1>5, <1>7 DEF ForCompile
  <2>2. t \in read.ccache \cup read.distcc /\ t \in Words /\ <<t>> \in Seq(Words)
    BY <1>1 DEF Prefix
  <2>3. Adjusted = <<t>> \o p \o rest
    BY <1>3, <2>1, <2>2, ConcatAssociative
  <2>4. Len(Adjusted) = Len(Asked) + 1
    BY <1>4, <2>1, <2>2, Prefixed
  <2>5. QED
    BY <1>3, <2>2, <2>3, <2>4 DEF rest
<1>8. QED
  BY <1>6, <1>7

LEMMA PlainIs ==
  ASSUME IndInv, pc = "lock", type \in {"ld", "other"}
  PROVE  /\ type = "ld" =>
              \E p \in {<<resolve_path(w, Asked[1])>> : w \in NameOf(read)} :
                Adjusted = p \o Tail(Asked)
         /\ type = "other" => Adjusted = Asked
         /\ Len(Adjusted) = Len(Asked)
<1>1. /\ Asked \in Seq(Words) /\ Asked # <<>> /\ Len(Asked) \in Nat \ {0}
      /\ argv = Asked
  BY AskedIs DEF IndInv, Restored
<1>2. Tail(Asked) \in Seq(Words) /\ Len(Tail(Asked)) = Len(Asked) - 1
  BY <1>1, HeadTailProperties
<1>3. Adjusted = Renamed
  BY DEF Adjusted
<1>4. CASE type = "ld"
  <2>1. PICK w \in NameOf(read) :
          /\ resolve_path(w, Asked[1]) \in Words
          /\ Renamed = <<resolve_path(w, Asked[1])>> \o Tail(Asked)
    BY <1>4, ProgramIs
  <2>2. Len(Renamed) = Len(Asked)
    BY <1>1, <1>2, <2>1, Prefixed
  <2>3. QED
    BY <1>3, <1>4, <2>1, <2>2
<1>5. CASE type = "other"
  <2>1. Adjusted = Asked
    BY <1>1, <1>3, <1>5 DEF Renamed
  <2>2. QED
    BY <1>5, <2>1
<1>6. QED
  BY <1>4, <1>5

\* How many words are added, and how far insert_arg writes for them.
LEMMA SlotsAre ==
  ASSUME IndInv, pc = "lock"
  PROVE  /\ Slots \in Nat /\ used \in Nat
         /\ shift + Len(Adjusted) + 1 <= IF Slots > used THEN Slots ELSE used
         /\ type # "make" => Slots <= Len(typed) + 2
         /\ type = "make" => Slots <= Len(typed) + Len(read.make_add) + 3
<1> DEFINE n == Len(Adjusted) - Len(argv)
           pos == IF type = "make" THEN 1 ELSE 0
<1>1. /\ argv = Asked /\ shift = Skipped /\ used = Len(typed) + 1
      /\ type \in Type
  BY Identified DEF IndInv, Restored
<1>2. /\ Len(Asked) \in Nat /\ Skipped \in Nat
      /\ Len(typed) = Skipped + Len(Asked)
  BY <1>1, AskedIs DEF IndInv, Restored
<1>3. /\ n \in Nat
      /\ type = "make" =>
           /\ Len(read.make_add) \in Nat
           /\ n <= Len(read.make_add) + 1
      /\ type # "make" => n <= 1
  <2>1. CASE type = "make"
    <3>1. PICK k \in {0, 1} :
            Len(Adjusted) = Len(Asked) + Len(read.make_add) + k
      BY <1>1, <2>1, MakeIs
    <3>2. Len(read.make_add) \in Nat
      BY LenProperties DEF IndInv, SectionRead, Section
    <3>3. QED
      BY <1>1, <1>2, <2>1, <3>1, <3>2
  <2>2. CASE type # "make"
    <3>1. Len(Adjusted) \in {Len(Asked), Len(Asked) + 1}
      BY <1>1, <2>2, CompileIs, PlainIs DEF Type
    <3>2. QED
      BY <1>1, <1>2, <2>2, <3>1
  <2>3. QED
    BY <2>1, <2>2
<1>4. Len(Adjusted) = Len(Asked) + n
  <2>1. Len(Adjusted) \in Nat
    BY <1>1, <1>2, MakeIs, CompileIs, PlainIs
  <2>2. QED
    BY <1>1, <1>2, <2>1
<1>5. Slots = Written(n, pos)
  BY DEF Slots
<1>6. pos \in {0, 1} /\ (type # "make" => pos = 0)
  OBVIOUS
<1> HIDE DEF n, pos
<1>7. /\ shift + Len(argv) = Len(typed) /\ Len(typed) \in Nat
      /\ shift + Len(Adjusted) = Len(typed) + n
  BY <1>1, <1>2, <1>3, <1>4
<1>8. shift \in Nat /\ Len(argv) \in Nat
  BY <1>1, <1>2
<1>9. CASE n = 0
  <2>1. Slots = 0
    BY <1>5, <1>9 DEF Written
  <2>2. /\ shift + Len(Adjusted) + 1 = used /\ used \in Nat
        /\ ~(Slots > used)
    BY <1>1, <1>7, <1>9, <2>1
  <2>3. type = "make" => Len(read.make_add) \in Nat
    BY <1>3
  <2>4. QED
    BY <1>7, <2>1, <2>2, <2>3
<1>10. CASE n # 0
  <2>1. Slots = shift + Len(argv) + n + pos + 1
    BY <1>5, <1>10 DEF Written
  <2>2. Slots = Len(typed) + n + pos + 1
    BY <1>3, <1>6, <1>7, <1>8, <2>1
  <2>3. /\ Slots \in Nat /\ Slots > used /\ used \in Nat
        /\ shift + Len(Adjusted) + 1 <= Slots
    BY <1>1, <1>3, <1>6, <1>7, <1>10, <2>2
  <2>4. type # "make" => Slots <= Len(typed) + 2
    BY <1>3, <1>6, <1>7, <2>2
  <2>5. type = "make" => Slots <= Len(typed) + Len(read.make_add) + 3
    BY <1>3, <1>6, <1>7, <2>2
  <2>6. QED
    BY <2>3, <2>4, <2>5
<1>11. QED
  BY <1>9, <1>10

LEMMA RunKeeps == ASSUME IndInv, Run PROVE IndInv'
<1>1. /\ pc = "lock" /\ pc' \in {"ran", "wait"} /\ argv' = Adjusted
      /\ UNCHANGED <<typed, shift, dirname, type, sec, read>>
  BY DEF Run, input, locals
<1>2. /\ Typable(typed)' /\ Asked' = Asked /\ Skipped' = Skipped
      /\ HasSection' = HasSection /\ Command' = Command
      /\ NameOf(read)' = NameOf(read)
  BY <1>1, TypedSame DEF IndInv, NameOf
<1>3. Restored'
  BY <1>1, <1>2 DEF IndInv, Restored, what_am_i
<1>4. SectionRead'
  BY <1>1, <1>2 DEF IndInv, SectionRead
<1>5. type \in Type /\ (HasSection => dirname = typed[2].text)
  BY <1>1, Identified DEF IndInv, Restored
<1>6. RunsWhatWasTyped'
  <2> DEFINE program == {<<resolve_path(w, Asked[1])>> : w \in NameOf(read)}
             tools == {<<w>> : w \in read.ccache \cup read.distcc} \cup {<<>>}
             dash_j == {i \in DOMAIN Adjusted : Adjusted[i].kind = "-j"}
             jobs == {<<Adjusted[i]>> : i \in dash_j} \cup {<<>>}
  <2>1. CASE type = "make"
    <3>1. PICK p \in program,
               j \in {<<>>, <<Word("-j", int_to_string(sec.cpus * 20))>>} :
            /\ Adjusted = p \o Reverse(read.make_add) \o j \o Tail(Asked)
            /\ j # <<>> => /\ Len(read.make_add) + 2 \in DOMAIN Adjusted
                           /\ j = <<Adjusted[Len(read.make_add) + 2]>>
      BY <1>1, <2>1, MakeIs
    <3>2. j \in jobs
      <4>1. CASE j = <<>>
        BY <4>1
      <4>2. CASE j # <<>>
        <5>1. j[1].kind = "-j"
          BY <3>1, <4>2 DEF Word
        <5> DEFINE k == Len(read.make_add) + 2
        <5>2. k \in DOMAIN Adjusted /\ j = <<Adjusted[k]>>
          BY <3>1, <4>2
        <5> HIDE DEF k
        <5>3. j[1] = Adjusted[k]
          BY <5>2
        <5>4. k \in dash_j
          BY <5>1, <5>2, <5>3
        <5>5. QED
          BY <5>2, <5>4
      <4>3. QED
        BY <4>1, <4>2
    <3>3. QED
      BY <1>1, <1>2, <1>5, <2>1, <3>1, <3>2 DEF RunsWhatWasTyped
  <2>2. CASE type \in {"cc", "c++"}
    <3>1. \E t \in tools, p \in program : Adjusted = t \o p \o Tail(Asked)
      BY <1>1, <2>2, CompileIs
    <3>2. QED
      BY <1>1, <1>2, <1>5, <2>2, <3>1 DEF RunsWhatWasTyped
  <2>3. CASE type = "ld"
    <3>1. \E p \in program : Adjusted = p \o Tail(Asked)
      BY <1>1, <2>3, PlainIs
    <3>2. QED
      BY <1>1, <1>2, <1>5, <2>3, <3>1 DEF RunsWhatWasTyped
  <2>4. CASE type = "other"
    <3>1. Adjusted = Asked
      BY <1>1, <2>4, PlainIs
    <3>2. QED
      BY <1>1, <1>2, <1>5, <2>4, <3>1 DEF RunsWhatWasTyped
  <2>5. QED
    BY <1>5, <2>1, <2>2, <2>3, <2>4 DEF Type
<1>7. StaysInRoom'
  <2>1. shift + Len(Adjusted) + 1 <= used'
    BY <1>1, SlotsAre DEF Run
  <2>2. QED
    BY <1>1, <2>1 DEF StaysInRoom
<1>8. QED
  BY <1>2, <1>3, <1>4, <1>6, <1>7 DEF IndInv

LEMMA OverrunKeeps == ASSUME IndInv, Overrun PROVE IndInv'
<1>1. /\ pc = "lock" /\ pc' = "overrun" /\ Slots > Len(typed) + Spare
      /\ UNCHANGED <<typed, type, read>>
  BY DEF Overrun, Room, input, locals
<1>2. Typable(typed)'
  BY <1>1, TypedSame DEF IndInv
<1>3. Restored' /\ SectionRead' /\ RunsWhatWasTyped'
  BY <1>1 DEF Restored, SectionRead, RunsWhatWasTyped, Running
<1>4. StaysInRoom'
  <2>1. /\ Len(typed) \in Nat /\ Len(read.make_add) \in Nat
        /\ Spare \in Nat /\ Spare >= 2
    BY <1>1, ConstantsOK, LenProperties
    DEF IndInv, Typable, SectionRead, Section
  <2>2. type = "make" /\ Len(read.make_add) > Spare - 3
    BY <1>1, <2>1, SlotsAre
  <2>3. QED
    BY <1>1, <2>2 DEF StaysInRoom, Running
<1>5. QED
  BY <1>2, <1>3, <1>4 DEF IndInv

(***************************************************************************)
(* The theorems.                                                           *)
(***************************************************************************)
LEMMA StepKeeps == ASSUME IndInv, [Next]_vars PROVE IndInv'
<1>1. CASE Restore
  BY <1>1, RestoreKeeps
<1>2. CASE Read
  BY <1>2, ReadKeeps
<1>3. CASE Altered
  BY <1>3, AlteredKeeps
<1>4. CASE Run
  BY <1>4, RunKeeps
<1>5. CASE Preprocess \/ Compile \/ Begin \/ NoCommand \/ Crash \/ NoEquals
            \/ Retry
  <2>1. /\ UNCHANGED typed
        /\ pc' \notin {"again", "lock", "ran", "wait", "overrun"}
    BY <1>5
    DEF Preprocess, Compile, Begin, NoCommand, Crash, NoEquals, Retry, input
  <2>2. QED
    BY <2>1, Elsewhere
<1>6. CASE UNCHANGED vars
  <2>1. UNCHANGED <<typed, pc, argv, shift, used, dirname, type, sec, read>>
    BY <1>6 DEF vars, input, args, locals
  <2>2. /\ Typable(typed)' /\ Asked' = Asked /\ Skipped' = Skipped
        /\ HasSection' = HasSection /\ Command' = Command
        /\ NameOf(read)' = NameOf(read) /\ Running' = Running
    BY <2>1, TypedSame DEF IndInv, NameOf, Running
  <2>3. Restored' /\ SectionRead'
    BY <2>1, <2>2 DEF IndInv, Restored, SectionRead, what_am_i
  <2>4. RunsWhatWasTyped' /\ StaysInRoom'
    BY <2>1, <2>2 DEF IndInv, RunsWhatWasTyped, StaysInRoom
  <2>5. QED
    BY <2>2, <2>3, <2>4 DEF IndInv
<1>7. CASE Overrun
  BY <1>7, OverrunKeeps
<1>8. QED
  BY <1>1, <1>2, <1>3, <1>4, <1>5, <1>6, <1>7 DEF Next

\* The inductive invariant: each round of main begins with the words typed,
\* and takes from the section of their directory.
THEOREM Invariance == Spec => []IndInv
<1>1. Init => IndInv
  BY InitInv
<1>2. IndInv /\ [Next]_vars => IndInv'
  BY StepKeeps
<1>3. QED
  BY <1>1, <1>2, PTL DEF Spec

\* Whatever sections there are, insert_arg leaves new_argv only for a make whose
\* section adds more than Spare - 3 words: for no compile, no link, and no make
\* with fewer, whatever ccontrol's own options take.
THEOREM RoomSuffices == Spec => []StaysInRoom
<1>1. IndInv => StaysInRoom
  BY DEF IndInv
<1>2. QED
  BY <1>1, Invariance, PTL

\* What main runs is what was typed, after any number of config changes and
\* failures of distcc.
THEOREM RunsTheCommand == Spec => []RunsWhatWasTyped
<1>1. IndInv => RunsWhatWasTyped
  BY DEF IndInv
<1>2. QED
  BY <1>1, Invariance, PTL

(***************************************************************************)
(* setenvs: the settings of a section, one after the other.                *)
(***************************************************************************)
\* What a sequence of settings makes of an environment: the last one of a
\* variable is in force, the other variables are as they were.
Settles(D, n, adds, e, result) ==
  \A v \in D :
    LET at == {i \in 1 .. n : adds[i][1] = v}
    IN result[v] = IF at = {} THEN e[v] ELSE adds[Max(at)][2]

LEMMA SetenvsIs ==
  ASSUME NEW D, NEW X, NEW e \in [D -> X], NEW n \in Nat, NEW adds,
         DOMAIN adds = 1 .. n, \A i \in 1 .. n : adds[i][2] \in X
  PROVE  /\ setenvs(adds, e) \in [D -> X]
         /\ Settles(D, n, adds, e, setenvs(adds, e))
<1> DEFINE V == [D -> X]
           S == SUBSET (1 .. n)
           op == [p \in V \X (1 .. n) |->
                    [p[1] EXCEPT ![adds[p[2]][1]] = adds[p[2]][2]]]
           Iter(g) == g = [s \in S |->
             IF s = {} THEN e
             ELSE [g[s \ {Max(s)}] EXCEPT ![adds[Max(s)][1]] = adds[Max(s)][2]]]
           iter == CHOOSE g : Iter(g)
<1>1. setenvs(adds, e) = iter[1 .. n]
  BY DEF setenvs, FoldLeft, MapThenFoldSet
<1>2. op \in [V \X (1 .. n) -> V]
  <2>1. ASSUME NEW f \in V, NEW i \in 1 .. n
        PROVE  [f EXCEPT ![adds[i][1]] = adds[i][2]] \in V
    OBVIOUS
  <2>2. QED
    BY <2>1
<1>3. \A f \in V, i \in 1 .. n :
        op[<<f, i>>] = [f EXCEPT ![adds[i][1]] = adds[i][2]]
  OBVIOUS
<1>4. \A s \in S : s # {} => s \ {Max(s)} \in S /\ Max(s) \in 1 .. n
  <2>1. ASSUME NEW s \in S, s # {} PROVE Max(s) \in s
    BY <2>1, MaxIs
  <2>2. QED
    BY <2>1
<1> HIDE DEF op
<1>5. Iter(iter)
  <2>1. PICK g \in [S -> V] : \A s \in S :
          g[s] = IF s = {} THEN e ELSE op[<<g[s \ {Max(s)}], Max(s)>>]
    <3>1. Foldable(V, e, n, op)
      BY <1>2 DEF Foldable
    <3>2. PICK g : Folds(V, e, n, op, g)
      <4> HIDE DEF V
      <4>1. QED
        BY <3>1, FoldDefines
    <3>3. QED
      BY <3>2 DEF Folds
  <2>2. ASSUME NEW s \in S
        PROVE  g[s] = IF s = {} THEN e
                      ELSE [g[s \ {Max(s)}] EXCEPT
                              ![adds[Max(s)][1]] = adds[Max(s)][2]]
    <3>1. CASE s = {}
      BY <2>1, <3>1
    <3>2. CASE s # {}
      <4>1. s \ {Max(s)} \in S /\ Max(s) \in 1 .. n
        BY <1>4, <3>2
      <4>2. g[s \ {Max(s)}] \in V
        BY <4>1
      <4>3. QED
        BY <1>3, <2>1, <3>2, <4>1, <4>2
    <3>3. QED
      BY <3>1, <3>2
  <2>3. Iter(g)
    BY <2>2
  <2>4. QED
    BY <2>3
<1> HIDE DEF iter
<1> DEFINE At(k, v) == {i \in 1 .. k : adds[i][1] = v}
           Good(k, f) == /\ f \in V
                         /\ \A v \in D : f[v] = IF At(k, v) = {} THEN e[v]
                                                ELSE adds[Max(At(k, v))][2]
           T == {k \in Nat : k <= n => Good(k, iter[1 .. k])}
<1>6. 0 \in T
  <2>1. 1 .. 0 = {} /\ {} \in S
    OBVIOUS
  <2>2. iter[1 .. 0] = e
    BY <1>5, <2>1
  <2>3. \A v \in D : At(0, v) = {}
    OBVIOUS
  <2>4. QED
    BY <2>2, <2>3
<1>7. ASSUME NEW k \in Nat, k \in T PROVE k + 1 \in T
  <2>1. SUFFICES ASSUME k + 1 <= n PROVE Good(k + 1, iter[1 .. k + 1])
    OBVIOUS
  <2> DEFINE f == iter[1 .. k]
             a == adds[k + 1]
  <2>2. Good(k, f) /\ k + 1 \in 1 .. n
    <3> HIDE DEF Good
    <3>1. k \in T /\ k <= n
      BY <1>7, <2>1
    <3>2. QED
      BY <2>1, <3>1
  <2>3. iter[1 .. k + 1] = [f EXCEPT ![a[1]] = a[2]]
    <3>1. /\ 1 .. k + 1 \in S /\ 1 .. k + 1 # {}
          /\ Max(1 .. k + 1) = k + 1 /\ (1 .. k + 1) \ {Max(1 .. k + 1)} = 1 .. k
      <4>1. k + 1 \in Nat \ {0} /\ (k + 1) - 1 = k
        OBVIOUS
      <4>2. Max(1 .. k + 1) = k + 1 /\ (1 .. k + 1) \ {Max(1 .. k + 1)} = 1 .. k
        BY <4>1, MaxOfInterval
      <4>3. QED
        BY <2>1, <4>2
    <3>2. QED
      BY <1>5, <3>1
  <2> HIDE DEF f
  <2>4. [f EXCEPT ![a[1]] = a[2]] \in V
    BY <2>2
  <2>5. ASSUME NEW v \in D
        PROVE  [f EXCEPT ![a[1]] = a[2]][v] =
                 IF At(k + 1, v) = {} THEN e[v]
                 ELSE adds[Max(At(k + 1, v))][2]
    <3>1. CASE a[1] = v
      <4>1. At(k + 1, v) \in SUBSET (1 .. k + 1) /\ k + 1 \in At(k + 1, v)
        BY <3>1
      <4>2. Max(At(k + 1, v)) = k + 1
        <5>1. /\ Max(At(k + 1, v)) \in At(k + 1, v)
              /\ \A m \in At(k + 1, v) : Max(At(k + 1, v)) >= m
          <6> DEFINE S1 == At(k + 1, v)
          <6>1. S1 \in SUBSET (1 .. k + 1) /\ S1 # {} /\ k + 1 \in Nat
            BY <4>1
          <6> HIDE DEF S1
          <6>2. Max(S1) \in S1 /\ \A m \in S1 : Max(S1) >= m
            BY <6>1, MaxIs
          <6>3. QED
            BY <6>2 DEF S1
        <5>2. QED
          BY <4>1, <5>1
      <4>3. QED
        BY <2>2, <3>1, <4>1, <4>2
    <3>2. CASE a[1] # v
      <4>1. At(k + 1, v) = At(k, v)
        BY <3>2
      <4>2. [f EXCEPT ![a[1]] = a[2]][v] = f[v]
        BY <2>2, <3>2
      <4>3. QED
        BY <2>2, <4>1, <4>2
    <3>3. QED
      BY <3>1, <3>2
  <2>6. QED
    BY <2>3, <2>4, <2>5
<1>8. n \in T
  <2> HIDE DEF T
  <2>1. QED
    BY <1>6, <1>7, Induction
<1>9. Good(n, iter[1 .. n])
  <2> HIDE DEF Good
  <2>1. QED
    BY <1>8
<1>10. QED
  BY <1>1, <1>9 DEF Settles

\* The same of a function whatever its values are.
LEMMA SetenvsOf ==
  ASSUME NEW D, NEW e, e = [v \in D |-> e[v]], NEW n \in Nat, NEW adds,
         DOMAIN adds = 1 .. n
  PROVE  /\ setenvs(adds, e) = [v \in D |-> setenvs(adds, e)[v]]
         /\ Settles(D, n, adds, e, setenvs(adds, e))
<1> DEFINE X == {e[v] : v \in D} \cup {adds[i][2] : i \in 1 .. n}
<1>1. e \in [D -> X] /\ \A i \in 1 .. n : adds[i][2] \in X
  <2>1. [v \in D |-> e[v]] \in [D -> X]
    OBVIOUS
  <2>2. \A i \in 1 .. n : adds[i][2] \in X
    OBVIOUS
  <2> HIDE DEF X
  <2>3. QED
    BY <2>1, <2>2
<1> HIDE DEF X
<1>2. /\ setenvs(adds, e) \in [D -> X]
      /\ Settles(D, n, adds, e, setenvs(adds, e))
  BY <1>1, SetenvsIs
<1>3. QED
  BY <1>2

LEMMA Overridden ==
  ASSUME NEW D, NEW e, e = [v \in D |-> e[v]], NEW x, NEW y
  PROVE  /\ [e EXCEPT ![x] = y] = [v \in D |-> [e EXCEPT ![x] = y][v]]
         /\ \A v \in D : v # x => [e EXCEPT ![x] = y][v] = e[v]
         /\ x \in D => [e EXCEPT ![x] = y][x] = y
<1>1. DOMAIN e = D
  OBVIOUS
<1>2. QED
  BY <1>1

(***************************************************************************)
(* int_to_string: the digits of the number of jobs.                        *)
(***************************************************************************)
\* The number that digits stand for, digit by digit.
LEMMA ValueIs ==
  ASSUME NEW n \in Nat, NEW digits \in [1 .. n -> Nat]
  PROVE  \E h \in [0 .. n -> Nat] :
           /\ h[0] = 0
           /\ \A k \in 1 .. n : h[k] = 10 * h[k - 1] + digits[k]
           /\ Value(digits) = h[n]
<1> DEFINE S == SUBSET (1 .. n)
           op == [p \in Nat \X (1 .. n) |-> 10 * p[1] + digits[p[2]]]
           Iter(g) == g = [s \in S |->
             IF s = {} THEN 0 ELSE 10 * g[s \ {Max(s)}] + digits[Max(s)]]
           iter == CHOOSE g : Iter(g)
<1>1. Value(digits) = iter[1 .. n]
  BY DEF Value, FoldLeft, MapThenFoldSet
<1>2. op \in [Nat \X (1 .. n) -> Nat]
  OBVIOUS
<1>3. \A m \in Nat, i \in 1 .. n : op[<<m, i>>] = 10 * m + digits[i]
  OBVIOUS
<1>4. \A s \in S : s # {} => s \ {Max(s)} \in S /\ Max(s) \in 1 .. n
  <2>1. ASSUME NEW s \in S, s # {} PROVE Max(s) \in s
    BY <2>1, MaxIs
  <2>2. QED
    BY <2>1
<1> HIDE DEF op
<1>5. PICK g \in [S -> Nat] : \A s \in S :
        g[s] = IF s = {} THEN 0 ELSE op[<<g[s \ {Max(s)}], Max(s)>>]
  <2>1. Foldable(Nat, 0, n, op)
    BY <1>2 DEF Foldable
  <2>2. PICK g : Folds(Nat, 0, n, op, g)
    BY <2>1, FoldDefines
  <2>3. QED
    BY <2>2 DEF Folds
<1>6. Iter(iter)
  <2>1. ASSUME NEW s \in S
        PROVE  g[s] = IF s = {} THEN 0
                      ELSE 10 * g[s \ {Max(s)}] + digits[Max(s)]
    <3>1. CASE s = {}
      BY <1>5, <3>1
    <3>2. CASE s # {}
      <4>1. s \ {Max(s)} \in S /\ Max(s) \in 1 .. n
        BY <1>4, <3>2
      <4>2. g[s \ {Max(s)}] \in Nat
        BY <4>1
      <4>3. QED
        BY <1>3, <1>5, <3>2, <4>1, <4>2
    <3>3. QED
      BY <3>1, <3>2
  <2>2. Iter(g)
    BY <2>1
  <2>3. QED
    BY <2>2
<1> HIDE DEF iter
<1> DEFINE h == [k \in 0 .. n |-> iter[1 .. k]]
<1>7. iter[1 .. 0] = 0
  <2>1. 1 .. 0 = {} /\ {} \in S
    OBVIOUS
  <2>2. QED
    BY <1>6, <2>1
<1>8. \A k \in 1 .. n : iter[1 .. k] = 10 * iter[1 .. k - 1] + digits[k]
  <2>1. ASSUME NEW k \in 1 .. n
        PROVE  iter[1 .. k] = 10 * iter[1 .. k - 1] + digits[k]
    <3>1. /\ 1 .. k \in S /\ 1 .. k # {}
          /\ Max(1 .. k) = k /\ (1 .. k) \ {Max(1 .. k)} = 1 .. k - 1
      <4>1. k \in Nat \ {0}
        OBVIOUS
      <4>2. Max(1 .. k) = k /\ (1 .. k) \ {Max(1 .. k)} = 1 .. k - 1
        BY <4>1, MaxOfInterval
      <4>3. 1 .. k \in S /\ 1 .. k # {}
        OBVIOUS
      <4>4. QED
        BY <4>2, <4>3
    <3>2. QED
      BY <1>6, <3>1
  <2>2. QED
    BY <2>1
<1> DEFINE T == {k \in Nat : k <= n => iter[1 .. k] \in Nat}
<1>9. Nat \subseteq T
  <2>1. 0 \in T
    BY <1>7
  <2>2. ASSUME NEW k \in Nat, k \in T PROVE k + 1 \in T
    <3>1. CASE k + 1 <= n
      <4>1. k + 1 \in 1 .. n /\ (k + 1) - 1 = k /\ iter[1 .. k] \in Nat
        BY <2>2, <3>1
      <4>2. iter[1 .. k + 1] = 10 * iter[1 .. k] + digits[k + 1]
        BY <1>8, <4>1
      <4>3. QED
        BY <4>1, <4>2
    <3>2. QED
      BY <3>1
  <2> HIDE DEF T
  <2>3. QED
    BY <2>1, <2>2, Induction
<1>10. \A k \in 0 .. n : iter[1 .. k] \in Nat
  BY <1>9
<1>11. h \in [0 .. n -> Nat]
  BY <1>10
<1>12. h[0] = 0 /\ h[n] = iter[1 .. n]
  BY <1>7
<1>13. \A k \in 1 .. n : h[k] = 10 * h[k - 1] + digits[k]
  BY <1>8
<1> HIDE DEF h
<1>14. QED
  BY <1>1, <1>11, <1>12, <1>13

\* int_to_string: its digits, and that they stand for the number.
LEMMA DigitsOf ==
  ASSUME NEW val \in Nat, val < 10 * Ords[1]
  PROVE  LET text == int_to_string(val)
         IN /\ \A i \in DOMAIN text : text[i] \in 0 .. 9
            /\ Value(text) = val
<1> DEFINE Digit(k) == (IF k = 1 THEN val ELSE val % Ords[k - 1]) \div Ords[k]
           digits == [k \in DOMAIN Ords |-> Digit(k)]
           zeros == {k \in 1 .. Len(Ords) - 1 : \A j \in 1 .. k : Digit(j) = 0}
           W(k) == IF k = 0 THEN 0 ELSE val \div Ords[k]
<1>1. Len(Ords) = 7 /\ DOMAIN Ords = 1 .. 7
  BY DEF Ords
<1>2. /\ Ords[1] = 1000000 /\ Ords[2] = 100000 /\ Ords[3] = 10000
      /\ Ords[4] = 1000 /\ Ords[5] = 100 /\ Ords[6] = 10 /\ Ords[7] = 1
  BY SMT DEF Ords
<1>3. \A k \in 1 .. 7 : /\ Digit(k) \in 0 .. 9 /\ W(k) \in Nat
                        /\ W(k) = 10 * W(k - 1) + Digit(k)
  <2>1. val < 10000000
    BY <1>2, SMT
  <2>2. /\ Digit(1) = val \div 1000000
        /\ Digit(2) = (val % 1000000) \div 100000
        /\ Digit(3) = (val % 100000) \div 10000
        /\ Digit(4) = (val % 10000) \div 1000
        /\ Digit(5) = (val % 1000) \div 100
        /\ Digit(6) = (val % 100) \div 10
        /\ Digit(7) = (val % 10) \div 1
    BY <1>2, SMT
  <2>3. /\ W(0) = 0
        /\ W(1) = val \div 1000000 /\ W(2) = val \div 100000
        /\ W(3) = val \div 10000 /\ W(4) = val \div 1000
        /\ W(5) = val \div 100 /\ W(6) = val \div 10 /\ W(7) = val \div 1
    BY <1>2, SMT
  <2> HIDE DEF Digit, W
  <2>4. \A k \in 1 .. 7 : Digit(k) \in 0 .. 9
    BY <2>1, <2>2, SMT
  <2>5. \A k \in 1 .. 7 : W(k) \in Nat
    BY <2>3, SMT
  <2>6. /\ W(1) = 10 * W(0) + Digit(1) /\ W(2) = 10 * W(1) + Digit(2)
        /\ W(3) = 10 * W(2) + Digit(3) /\ W(4) = 10 * W(3) + Digit(4)
        /\ W(5) = 10 * W(4) + Digit(5) /\ W(6) = 10 * W(5) + Digit(6)
        /\ W(7) = 10 * W(6) + Digit(7)
    BY <2>2, <2>3, SMT
  <2>7. \A k \in 1 .. 7 : W(k) = 10 * W(k - 1) + Digit(k)
    BY <2>6, SMT
  <2>8. QED
    BY <2>4, <2>5, <2>7
<1>4. W(7) = val
  BY <1>2, SMT
<1> HIDE DEF Digit, W
<1>5. PICK z \in 0 .. 6 : /\ zeros = 1 .. z
                          /\ \A k \in 1 .. z : Digit(k) = 0
  <2> DEFINE U == {k \in 1 .. 6 : Digit(k) # 0}
  <2>1. CASE U = {}
    <3>1. zeros = 1 .. 6 /\ \A k \in 1 .. 6 : Digit(k) = 0
      BY <1>1, <2>1
    <3>2. QED
      BY <3>1
  <2>2. CASE U # {}
    <3>1. PICK k \in U : \A m \in U : k <= m
      <4>1. U \in SUBSET Nat
        OBVIOUS
      <4> HIDE DEF U
      <4>2. QED
        BY <2>2, <4>1, LeastOf
    <3>2. k \in 1 .. 6 /\ Digit(k) # 0 /\ \A j \in 1 .. k - 1 : Digit(j) = 0
      BY <3>1
    <3>3. zeros = 1 .. k - 1
      BY <1>1, <3>2
    <3>4. k - 1 \in 0 .. 6
      BY <3>2
    <3>5. QED
      BY <3>2, <3>3, <3>4
  <2>3. QED
    BY <2>1, <2>2
<1>6. Cardinality(zeros) = z
  <2>1. 1 \in Int /\ z \in Int /\ (z - 1) + 1 = z
    OBVIOUS
  <2>2. Cardinality(1 .. z) = IF 1 > z THEN 0 ELSE (z - 1) + 1
    BY <2>1, FS_Interval
  <2>3. Cardinality(1 .. z) = z
    BY <2>1, <2>2
  <2> HIDE DEF zeros
  <2>4. zeros = 1 .. z
    BY <1>5
  <2>5. QED
    BY <2>3, <2>4
<1> DEFINE text == int_to_string(val)
           n == 7 - z
<1>7. text = SubSeq(digits, z + 1, 7)
  BY <1>1, <1>6 DEF int_to_string, Digit
<1>8. /\ text \in [1 .. n -> 0 .. 9] /\ n \in Nat
      /\ \A i \in 1 .. n : text[i] = Digit(z + i)
  <2>1. digits \in Seq(0 .. 9) /\ Len(digits) = 7
    BY <1>1, <1>3
  <2> HIDE DEF digits
  <2>2. text = [i \in 1 .. (7 - (z + 1)) + 1 |-> digits[i + (z + 1) - 1]]
    BY <1>7, <2>1
  <2>3. (7 - (z + 1)) + 1 = n /\ n \in Nat
    OBVIOUS
  <2>4. \A i \in 1 .. n : digits[i + (z + 1) - 1] = Digit(z + i)
    BY <1>1 DEF digits
  <2>5. \A i \in 1 .. n : Digit(z + i) \in 0 .. 9
    BY <1>3
  <2> HIDE DEF n, text
  <2>6. text = [i \in 1 .. n |-> Digit(z + i)]
    BY <2>2, <2>3, <2>4
  <2>7. QED
    BY <2>3, <2>5, <2>6
<1> HIDE DEF text, digits, zeros
<1>9. W(z) = 0
  <2> DEFINE T == {k \in Nat : k <= z => W(k) = 0}
  <2>1. 0 \in T
    BY DEF W
  <2>2. ASSUME NEW k \in Nat, k \in T PROVE k + 1 \in T
    <3>1. CASE k + 1 <= z
      <4>1. k + 1 \in 1 .. 7 /\ (k + 1) - 1 = k /\ Digit(k + 1) = 0 /\ W(k) = 0
        BY <1>5, <2>2, <3>1
      <4>2. W(k + 1) = 10 * W(k) + Digit(k + 1)
        BY <1>3, <4>1
      <4>3. QED
        BY <4>1, <4>2
    <3>2. QED
      BY <3>1
  <2>3. z \in T
    <3> HIDE DEF T
    <3>1. QED
      BY <2>1, <2>2, Induction
  <2>4. QED
    BY <2>3
<1>10. PICK h \in [0 .. n -> Nat] :
         /\ h[0] = 0
         /\ \A k \in 1 .. n : h[k] = 10 * h[k - 1] + text[k]
         /\ Value(text) = h[n]
  <2>1. text \in [1 .. n -> Nat]
    BY <1>8
  <2> HIDE DEF n
  <2>2. QED
    BY <1>8, <2>1, ValueIs
<1>11. h[n] = W(7)
  <2> DEFINE T == {k \in Nat : k <= n => h[k] = W(z + k)}
  <2>1. 0 \in T
    BY <1>9, <1>10
  <2>2. ASSUME NEW k \in Nat, k \in T PROVE k + 1 \in T
    <3>1. CASE k + 1 <= n
      <4>1. /\ k + 1 \in 1 .. n /\ (k + 1) - 1 = k /\ h[k] = W(z + k)
            /\ z + (k + 1) \in 1 .. 7 /\ (z + (k + 1)) - 1 = z + k
        BY <2>2, <3>1
      <4>2. h[k + 1] = 10 * W(z + k) + Digit(z + (k + 1))
        BY <1>8, <1>10, <4>1
      <4>3. W(z + (k + 1)) = 10 * W(z + k) + Digit(z + (k + 1))
        BY <1>3, <4>1
      <4>4. QED
        BY <4>2, <4>3
    <3>2. QED
      BY <3>1
  <2>3. n \in T
    <3> HIDE DEF T
    <3>1. QED
      BY <1>8, <2>1, <2>2, Induction
  <2>4. z + n = 7
    OBVIOUS
  <2>5. QED
    BY <1>8, <2>3, <2>4
<1>12. \A i \in DOMAIN text : text[i] \in 0 .. 9
  BY <1>8
<1>13. QED
  BY <1>4, <1>10, <1>11, <1>12 DEF text

(***************************************************************************)
(* can_distcc: its verdict for every command line that is complete.        *)
(***************************************************************************)
\* An argument behind -o or -MF belongs to it, unless that one does itself.
LEMMA TakenIs ==
  ASSUME NEW line, NEW n \in Nat, DOMAIN line = 1 .. n
  PROVE  /\ Taken(line) \subseteq 3 .. n
         /\ \A i \in 3 .. n :
              i \in Taken(line) <=> /\ line[i - 1].kind \in {"-o", "-MF"}
                                    /\ i - 1 \notin Taken(line)
<1> DEFINE D == 1 .. n
           Takes(i) == line[i - 1].kind \in {"-o", "-MF"}
           rank == [i \in D |-> i]
           H == [p \in D \X [D -> BOOLEAN] |->
                   p[1] > 2 /\ Takes(p[1]) /\ ~p[2][p[1] - 1]]
           Eqn(t) == t = [i \in D |-> i > 2 /\ Takes(i) /\ ~t[i - 1]]
           taken == CHOOSE t : Eqn(t)
<1>1. Taken(line) = {i \in D : taken[i]}
  BY DEF Taken
<1>2. Descends(D, BOOLEAN, n, rank, H)
  <2>1. H \in [D \X [D -> BOOLEAN] -> BOOLEAN]
    OBVIOUS
  <2>2. rank \in [D -> 0 .. n]
    OBVIOUS
  <2>3. ASSUME NEW i \in D, NEW f \in [D -> BOOLEAN], NEW g \in [D -> BOOLEAN],
               \A j \in D : rank[j] < rank[i] => f[j] = g[j]
        PROVE  H[<<i, f>>] = H[<<i, g>>]
    <3>1. i > 2 => f[i - 1] = g[i - 1]
      BY <2>3
    <3>2. /\ H[<<i, f>>] = (i > 2 /\ Takes(i) /\ ~f[i - 1])
          /\ H[<<i, g>>] = (i > 2 /\ Takes(i) /\ ~g[i - 1])
      OBVIOUS
    <3> HIDE DEF H, Takes
    <3>3. QED
      BY <3>1, <3>2
  <2> HIDE DEF H, rank
  <2>4. QED
    BY <2>1, <2>2, <2>3 DEF Descends
<1>3. PICK t \in [D -> BOOLEAN] : \A i \in D : t[i] = H[<<i, t>>]
  <2> HIDE DEF H, rank
  <2>1. Solvable(D, BOOLEAN, H)
    BY <1>2, RecursionDefines
  <2>2. QED
    BY <2>1 DEF Solvable
<1>4. Eqn(t)
  <2>1. \A i \in D : H[<<i, t>>] = (i > 2 /\ Takes(i) /\ ~t[i - 1])
    OBVIOUS
  <2> HIDE DEF H, Takes
  <2>2. QED
    BY <1>3, <2>1
<1>5. Eqn(taken)
  <2> HIDE DEF Eqn
  <2>1. QED
    BY <1>4
<1> HIDE DEF taken
<1>6. \A i \in D : taken[i] <=> i > 2 /\ Takes(i) /\ ~taken[i - 1]
  BY <1>5
<1>7. \A i \in 3 .. n : i \in D /\ i - 1 \in D
  OBVIOUS
<1>8. QED
  BY <1>1, <1>6, <1>7

Seen == SUBSET {"input", "output", "goal"}
Verdicts == {"yes", "no", "beyond"}

\* What can_distcc makes of line from argument i on, where f is what it makes
\* of the arguments behind.
Verdict(line, n, f, i, seen) ==
  LET kind == line[i].kind
      next == i + Width(kind)
      Once(what) == IF what \in seen THEN "no" ELSE f[next][seen \cup {what}]
  IN CASE i = n + 2 -> "beyond"
       [] i = n + 1 -> IF {"input", "goal"} \subseteq seen THEN "yes" ELSE "no"
       [] OTHER ->
            CASE kind = "source" -> Once("input")
              [] kind \in {"object", "-ofile", "-o"} -> Once("output")
              [] kind \in Refused -> "no"
              [] kind \in {"-c", "-S"} -> f[next][seen \cup {"goal"}]
              [] OTHER -> f[next][seen]

Scans(line, n, f) ==
  \A i \in 1 .. n + 2 : \A seen \in Seen :
    f[i][seen] = Verdict(line, n, f, i, seen)

LEMMA WidthIs ==
  ASSUME NEW kind
  PROVE  /\ Width(kind) \in {1, 2}
         /\ Width(kind) = 2 <=> kind \in {"-o", "-MF"}
BY DEF Width

\* A verdict is one, and rests on the arguments behind only.
LEMMA VerdictIs ==
  ASSUME NEW line, NEW n \in Nat, NEW i \in 1 .. n + 2, NEW seen \in Seen,
         NEW f \in [1 .. n + 2 -> [Seen -> Verdicts]]
  PROVE  Verdict(line, n, f, i, seen) \in Verdicts
<1> DEFINE kind == line[i].kind
           next == i + Width(kind)
<1>1. CASE i <= n
  <2>1. next \in 1 .. n + 2
    BY <1>1, WidthIs
  <2>2. \A s \in Seen : f[next][s] \in Verdicts
    BY <2>1
  <2>3. \A what \in {"input", "output", "goal"} : seen \cup {what} \in Seen
    BY DEF Seen
  <2>4. i # n + 1 /\ i # n + 2
    BY <1>1
  <2>5. \A what \in {"input", "output", "goal"} :
          f[next][seen \cup {what}] \in Verdicts
    BY <2>2, <2>3
  <2>6. f[next][seen] \in Verdicts /\ "no" \in Verdicts
    BY <2>2 DEF Verdicts
  <2> HIDE DEF next, kind
  <2>7. QED
    BY <2>4, <2>5, <2>6 DEF Verdict, kind, next
<1>2. CASE i > n
  BY <1>2 DEF Verdict, Verdicts
<1>3. QED
  BY <1>1, <1>2

LEMMA VerdictLooksBehind ==
  ASSUME NEW line, NEW n \in Nat, NEW i \in 1 .. n + 2, NEW seen,
         NEW f, NEW g, \A j \in 1 .. n + 2 : j > i => f[j] = g[j]
  PROVE  Verdict(line, n, f, i, seen) = Verdict(line, n, g, i, seen)
<1> DEFINE kind == line[i].kind
           next == i + Width(kind)
<1>1. CASE i <= n
  <2>1. f[next] = g[next]
    BY <1>1, WidthIs
  <2>2. i # n + 1 /\ i # n + 2
    BY <1>1
  <2>3. QED
    BY <2>1, <2>2 DEF Verdict
<1>2. CASE i > n
  BY <1>2 DEF Verdict
<1>3. QED
  BY <1>1, <1>2

LEMMA ScanIs ==
  ASSUME NEW line, NEW n \in Nat, Len(line) = n
  PROVE  \E f : Scans(line, n, f) /\ can_distcc(line) = f[2][{}]
<1> DEFINE D == 1 .. n + 2
           V == [Seen -> Verdicts]
           rank == [i \in D |-> n + 2 - i]
           H == [p \in D \X [D -> V] |->
                   [seen \in Seen |-> Verdict(line, n, p[2], p[1], seen)]]
           Eqn(f) == f = [i \in D |->
                            [seen \in Seen |-> Verdict(line, n, f, i, seen)]]
           scan == CHOOSE f : Eqn(f)
<1>1. can_distcc(line) = scan[2][{}]
  BY DEF can_distcc, Verdict, Seen
<1>2. Descends(D, V, n + 2, rank, H)
  <2>1. H \in [D \X [D -> V] -> V]
    BY VerdictIs
  <2>2. rank \in [D -> 0 .. n + 2]
    OBVIOUS
  <2>3. ASSUME NEW i \in D, NEW f \in [D -> V], NEW g \in [D -> V],
               \A j \in D : rank[j] < rank[i] => f[j] = g[j]
        PROVE  H[<<i, f>>] = H[<<i, g>>]
    <3>1. \A j \in D : j > i => f[j] = g[j]
      BY <2>3
    <3>2. \A seen \in Seen :
            Verdict(line, n, f, i, seen) = Verdict(line, n, g, i, seen)
      BY <3>1, VerdictLooksBehind
    <3>3. QED
      BY <3>2
  <2>4. V # {}
    <3>1. [seen \in Seen |-> "no"] \in V
      BY DEF Verdicts
    <3>2. QED
      BY <3>1
  <2>5. n + 2 \in Nat
    OBVIOUS
  <2> DEFINE N == n + 2
  <2> HIDE DEF H, rank, V, D, N
  <2>6. Descends(D, V, N, rank, H)
    BY <2>1, <2>2, <2>3, <2>4, <2>5 DEF Descends, N
  <2>7. QED
    BY <2>6 DEF N
<1>3. PICK f \in [D -> V] : \A i \in D : f[i] = H[<<i, f>>]
  <2> HIDE DEF H, rank, V
  <2>1. Solvable(D, V, H)
    BY <1>2, RecursionDefines
  <2>2. QED
    BY <2>1 DEF Solvable
<1>4. \A i \in D : f[i] = [seen \in Seen |-> Verdict(line, n, f, i, seen)]
  BY <1>3
<1>5. Eqn(f)
  BY <1>4
<1>6. Eqn(scan)
  <2> HIDE DEF Eqn
  <2>1. QED
    BY <1>5
<1> HIDE DEF scan
<1>7. \A i \in D : scan[i] = [seen \in Seen |-> Verdict(line, n, scan, i, seen)]
  BY <1>6
<1>8. Scans(line, n, scan)
  BY <1>7 DEF Scans
<1>9. QED
  BY <1>1, <1>8

\* The verdict behind the last argument, and at an argument by its kind.
LEMMA VerdictAtEnd ==
  ASSUME NEW line, NEW n \in Nat, NEW seen, NEW f
  PROVE  /\ {"input", "goal"} \subseteq seen =>
              Verdict(line, n, f, n + 1, seen) = "yes"
         /\ ~({"input", "goal"} \subseteq seen) =>
              Verdict(line, n, f, n + 1, seen) = "no"
<1>1. n + 1 # n + 2
  OBVIOUS
<1>2. QED
  BY <1>1, Zenon DEF Verdict

Follows(verdict, kind, next, seen, f) ==
  /\ kind = "source" /\ "input" \in seen => verdict = "no"
  /\ kind = "source" /\ "input" \notin seen =>
       verdict = f[next][seen \cup {"input"}]
  /\ kind \in {"object", "-ofile", "-o"} /\ "output" \in seen => verdict = "no"
  /\ kind \in {"object", "-ofile", "-o"} /\ "output" \notin seen =>
       verdict = f[next][seen \cup {"output"}]
  /\ kind \in Refused => verdict = "no"
  /\ kind \in {"-c", "-S"} => verdict = f[next][seen \cup {"goal"}]
  /\ kind \notin {"source", "object", "-ofile", "-o", "-c", "-S"} \cup Refused =>
       verdict = f[next][seen]

LEMMA VerdictAt ==
  ASSUME NEW line, NEW n \in Nat, NEW i \in 1 .. n, NEW seen, NEW f
  PROVE  Follows(Verdict(line, n, f, i, seen), line[i].kind,
                 i + Width(line[i].kind), seen, f)
<1> DEFINE kind == line[i].kind
           next == i + Width(kind)
<1> DEFINE verdict == Verdict(line, n, f, i, seen)
<1>1. i # n + 1 /\ i # n + 2
  OBVIOUS
<1>2. verdict = CASE kind = "source" ->
                       IF "input" \in seen THEN "no"
                       ELSE f[next][seen \cup {"input"}]
                  [] kind \in {"object", "-ofile", "-o"} ->
                       IF "output" \in seen THEN "no"
                       ELSE f[next][seen \cup {"output"}]
                  [] kind \in Refused -> "no"
                  [] kind \in {"-c", "-S"} -> f[next][seen \cup {"goal"}]
                  [] OTHER -> f[next][seen]
  BY <1>1, Zenon DEF Verdict
<1> HIDE DEF verdict, kind, next
<1>3. kind = "source" =>
        verdict = IF "input" \in seen THEN "no"
                  ELSE f[next][seen \cup {"input"}]
  BY <1>2 DEF Refused
<1>4. kind \in {"object", "-ofile", "-o"} =>
        verdict = IF "output" \in seen THEN "no"
                  ELSE f[next][seen \cup {"output"}]
  BY <1>2 DEF Refused
<1>5. kind \in Refused => verdict = "no"
  BY <1>2 DEF Refused
<1>6. kind \in {"-c", "-S"} => verdict = f[next][seen \cup {"goal"}]
  BY <1>2 DEF Refused
<1>7. kind \notin {"source", "object", "-ofile", "-o", "-c", "-S"} \cup Refused
        => verdict = f[next][seen]
  BY <1>2 DEF Refused
<1>8. QED
  BY <1>3, <1>4, <1>5, <1>6, <1>7 DEF verdict, kind, next, Follows

\* What is free of line from argument i on: i itself, and what is free from
\* the argument that can_distcc looks at next.
From(line, n, i, kinds) ==
  {j \in i .. n : j \notin Taken(line) /\ line[j].kind \in kinds}

LEMMA FreeBehind ==
  ASSUME NEW line, NEW n \in Nat, DOMAIN line = 1 .. n, Len(line) = n,
         Complete(line), NEW i \in 2 .. n, i \notin Taken(line)
  PROVE  LET next == i + Width(line[i].kind)
         IN /\ next \in i + 1 .. n + 1 /\ next \notin Taken(line)
            /\ \A kinds : line[i].kind \notin kinds =>
                 From(line, n, i, kinds) = From(line, n, next, kinds)
            /\ \A kinds : line[i].kind \in kinds =>
                 From(line, n, i, kinds) = {i} \cup From(line, n, next, kinds)
<1> DEFINE kind == line[i].kind
           next == i + Width(kind)
<1>1. /\ Taken(line) \subseteq 3 .. n
      /\ \A j \in 3 .. n :
           j \in Taken(line) <=> /\ line[j - 1].kind \in {"-o", "-MF"}
                                 /\ j - 1 \notin Taken(line)
  BY TakenIs
<1>2. CASE kind \notin {"-o", "-MF"}
  <2>1. next = i + 1 /\ (i + 1) - 1 = i
    BY <1>2 DEF Width
  <2>2. i + 1 \notin Taken(line)
    BY <1>1, <1>2, <2>1
  <2>3. QED
    BY <2>1, <2>2 DEF From
<1>3. CASE kind \in {"-o", "-MF"}
  <2>1. i # n
    <3>1. i = n => n \in Free(line, {"-o", "-MF"})
      BY <1>3 DEF Free
    <3>2. QED
      BY <3>1 DEF Complete
  <2>2. next = i + 2 /\ (i + 1) - 1 = i /\ (i + 2) - 1 = i + 1
    BY <1>3 DEF Width
  <2>3. i + 1 \in 3 .. n
    BY <2>1
  <2>4. i + 1 \in Taken(line)
    BY <1>1, <1>3, <2>2, <2>3
  <2>5. i + 2 \notin Taken(line)
    BY <1>1, <2>2, <2>4
  <2>6. QED
    BY <2>1, <2>2, <2>4, <2>5 DEF From
<1>4. QED
  BY <1>2, <1>3

\* What distcc can take, of the arguments from i on when some were seen.
Says(line, n, i, seen) ==
  LET sources == From(line, n, i, {"source"})
      objects == From(line, n, i, {"object", "-ofile", "-o"})
  IN /\ From(line, n, i, Refused) = {}
     /\ "goal" \in seen \/ From(line, n, i, {"-c", "-S"}) # {}
     /\ IF "input" \in seen THEN sources = {} ELSE \E x : sources = {x}
     /\ objects = {} \/ ("output" \notin seen /\ \E x : objects = {x})

LEMMA ScanSays ==
  ASSUME NEW line, NEW n \in Nat \ {0}, DOMAIN line = 1 .. n, Len(line) = n,
         Complete(line), NEW f, Scans(line, n, f)
  PROVE  /\ f[2][{}] \in {"yes", "no"}
         /\ f[2][{}] = "yes" <=> Says(line, n, 2, {})
<1> DEFINE Good(i) == \A seen \in Seen :
                        /\ f[i][seen] \in {"yes", "no"}
                        /\ f[i][seen] = "yes" <=> Says(line, n, i, seen)
           T == {m \in Nat : \A i \in 2 .. n + 1 :
                   i \notin Taken(line) /\ n + 1 <= i + m => Good(i)}
<1>1. Good(n + 1)
  <2>1. ASSUME NEW seen \in Seen
        PROVE  /\ f[n + 1][seen] \in {"yes", "no"}
               /\ f[n + 1][seen] = "yes" <=> Says(line, n, n + 1, seen)
    <3>1. n + 1 \in 1 .. n + 2 /\ n \in Nat
      OBVIOUS
    <3>2. f[n + 1][seen] = Verdict(line, n, f, n + 1, seen)
      BY <2>1, <3>1 DEF Scans
    <3>3. \A kinds : From(line, n, n + 1, kinds) = {}
      BY DEF From
    <3>4. QED
      BY <3>1, <3>2, <3>3, VerdictAtEnd DEF Says
  <2>2. QED
    BY <2>1
<1>2. 0 \in T
  <2> HIDE DEF Good
  <2>1. QED
    BY <1>1
<1>3. ASSUME NEW m \in Nat, m \in T PROVE m + 1 \in T
  <2>1. SUFFICES ASSUME NEW i \in 2 .. n, i \notin Taken(line),
                        n + 1 <= i + (m + 1), NEW seen \in Seen
                 PROVE  /\ f[i][seen] \in {"yes", "no"}
                        /\ f[i][seen] = "yes" <=> Says(line, n, i, seen)
    <3>1. ASSUME \A i \in 2 .. n :
                   i \notin Taken(line) /\ n + 1 <= i + (m + 1) => Good(i)
          PROVE  m + 1 \in T
      <4> HIDE DEF Good
      <4>1. QED
        BY <1>1, <3>1
    <3>2. QED
      BY <3>1
  <2> DEFINE kind == line[i].kind
             next == i + Width(kind)
  <2>2. /\ next \in i + 1 .. n + 1 /\ next \notin Taken(line)
        /\ \A kinds : kind \notin kinds =>
             From(line, n, i, kinds) = From(line, n, next, kinds)
        /\ \A kinds : kind \in kinds =>
             From(line, n, i, kinds) = {i} \cup From(line, n, next, kinds)
    BY <2>1, FreeBehind
  <2>3. \A s \in Seen : /\ f[next][s] \in {"yes", "no"}
                        /\ f[next][s] = "yes" <=> Says(line, n, next, s)
    <3>1. next \in 2 .. n + 1 /\ n + 1 <= next + m
      BY <2>1, <2>2
    <3> HIDE DEF next, Good
    <3>2. Good(next)
      BY <1>3, <2>2, <3>1
    <3>3. QED
      BY <3>2 DEF Good
  <2>4. i \in 1 .. n + 2 /\ i \in 1 .. n /\ n \in Nat
    BY <2>1
  <2>5. f[i][seen] = Verdict(line, n, f, i, seen)
    BY <2>4 DEF Scans
  <2>6. \A kinds : i \notin From(line, n, next, kinds)
    <3> HIDE DEF next
    <3>1. QED
      BY <2>2, <2>4 DEF From
  <2>7. \A what \in {"input", "output", "goal"} : seen \cup {what} \in Seen
    BY DEF Seen
  <2>8. Follows(f[i][seen], kind, next, seen, f)
    BY <2>4, <2>5, VerdictAt
  <2> HIDE DEF kind, next
  <2>9. CASE kind = "source"
    <3>1. kind \notin {"object", "-ofile", "-o", "-c", "-S"} \cup Refused
      BY <2>9 DEF Refused
    <3>2. /\ From(line, n, i, Refused) = From(line, n, next, Refused)
          /\ From(line, n, i, {"-c", "-S"}) = From(line, n, next, {"-c", "-S"})
          /\ From(line, n, i, {"object", "-ofile", "-o"})
               = From(line, n, next, {"object", "-ofile", "-o"})
          /\ From(line, n, i, {"source"})
               = {i} \cup From(line, n, next, {"source"})
      <4>1. /\ kind \in {"source"} /\ kind \notin Refused
            /\ kind \notin {"-c", "-S"} /\ kind \notin {"object", "-ofile", "-o"}
        BY <2>9, <3>1
      <4>2. QED
        BY <2>2, <4>1
    <3>3. (\E x : From(line, n, i, {"source"}) = {x})
            <=> From(line, n, next, {"source"}) = {}
      BY <2>6, <3>2
    <3>4. From(line, n, i, {"source"}) # {}
      BY <3>2
    <3>5. CASE "input" \in seen
      BY <2>8, <2>9, <3>4, <3>5 DEF Says, Follows
    <3>6. CASE "input" \notin seen
      <4>1. f[i][seen] = f[next][seen \cup {"input"}]
        BY <2>8, <2>9, <3>6 DEF Follows
      <4>2. Says(line, n, i, seen) <=> Says(line, n, next, seen \cup {"input"})
        BY <3>2, <3>3, <3>6 DEF Says
      <4>3. QED
        BY <2>3, <2>7, <4>1, <4>2
    <3>7. QED
      BY <3>5, <3>6
  <2>10. CASE kind \in {"object", "-ofile", "-o"}
    <3>1. kind \notin {"source", "-c", "-S"} \cup Refused
      BY <2>10 DEF Refused
    <3>2. /\ From(line, n, i, Refused) = From(line, n, next, Refused)
          /\ From(line, n, i, {"-c", "-S"}) = From(line, n, next, {"-c", "-S"})
          /\ From(line, n, i, {"object", "-ofile", "-o"})
               = {i} \cup From(line, n, next, {"object", "-ofile", "-o"})
          /\ From(line, n, i, {"source"}) = From(line, n, next, {"source"})
      <4>1. /\ kind \notin {"source"} /\ kind \notin Refused
            /\ kind \notin {"-c", "-S"}
        BY <3>1
      <4>2. QED
        BY <2>2, <2>10, <4>1
    <3>3. (\E x : From(line, n, i, {"object", "-ofile", "-o"}) = {x})
            <=> From(line, n, next, {"object", "-ofile", "-o"}) = {}
      BY <2>6, <3>2
    <3>4. From(line, n, i, {"object", "-ofile", "-o"}) # {}
      BY <3>2
    <3>5. CASE "output" \in seen
      BY <2>8, <2>10, <3>4, <3>5 DEF Says, Follows
    <3>6. CASE "output" \notin seen
      <4>1. f[i][seen] = f[next][seen \cup {"output"}]
        BY <2>8, <2>10, <3>6 DEF Follows
      <4>2. Says(line, n, i, seen) <=> Says(line, n, next, seen \cup {"output"})
        BY <3>2, <3>3, <3>4, <3>6 DEF Says
      <4>3. QED
        BY <2>3, <2>7, <4>1, <4>2
    <3>7. QED
      BY <3>5, <3>6
  <2>11. CASE kind \in Refused
    <3>1. From(line, n, i, Refused) # {}
      BY <2>2, <2>11
    <3>2. QED
      BY <2>8, <2>11, <3>1 DEF Says, Follows
  <2>12. CASE kind \in {"-c", "-S"}
    <3>1. kind \notin {"source", "object", "-ofile", "-o"} \cup Refused
      BY <2>12 DEF Refused
    <3>2. /\ From(line, n, i, Refused) = From(line, n, next, Refused)
          /\ From(line, n, i, {"-c", "-S"}) # {}
          /\ From(line, n, i, {"object", "-ofile", "-o"})
               = From(line, n, next, {"object", "-ofile", "-o"})
          /\ From(line, n, i, {"source"}) = From(line, n, next, {"source"})
      <4>1. /\ kind \notin {"source"} /\ kind \notin Refused
            /\ kind \notin {"object", "-ofile", "-o"}
        BY <3>1
      <4>2. QED
        BY <2>2, <2>12, <4>1
    <3>3. Says(line, n, i, seen) <=> Says(line, n, next, seen \cup {"goal"})
      BY <3>2 DEF Says
    <3>4. QED
      BY <2>3, <2>7, <2>8, <2>12, <3>3 DEF Follows
  <2>13. CASE kind \notin {"source", "object", "-ofile", "-o", "-c", "-S"}
                           \cup Refused
    <3>1. /\ From(line, n, i, Refused) = From(line, n, next, Refused)
          /\ From(line, n, i, {"-c", "-S"}) = From(line, n, next, {"-c", "-S"})
          /\ From(line, n, i, {"object", "-ofile", "-o"})
               = From(line, n, next, {"object", "-ofile", "-o"})
          /\ From(line, n, i, {"source"}) = From(line, n, next, {"source"})
      <4>1. /\ kind \notin {"source"} /\ kind \notin Refused
            /\ kind \notin {"-c", "-S"} /\ kind \notin {"object", "-ofile", "-o"}
        BY <2>13
      <4>2. QED
        BY <2>2, <4>1
    <3>2. Says(line, n, i, seen) <=> Says(line, n, next, seen)
      BY <3>1 DEF Says
    <3>3. QED
      BY <2>3, <2>8, <2>13, <3>2 DEF Follows
  <2>14. QED
    BY <2>9, <2>10, <2>11, <2>12, <2>13
<1>4. Good(2)
  <2>1. n - 1 \in T
    <3> HIDE DEF T
    <3>1. QED
      BY <1>2, <1>3, Induction
  <2>2. 2 \notin Taken(line) /\ 2 \in 2 .. n + 1 /\ n + 1 <= 2 + (n - 1)
    BY TakenIs
  <2> HIDE DEF Good
  <2>3. QED
    BY <2>1, <2>2
<1>5. {} \in Seen
  BY DEF Seen
<1>6. QED
  BY <1>4, <1>5

\* can_distcc finds what distcc can take.
LEMMA CanDistccIs ==
  ASSUME NEW line, NEW n \in Nat \ {0}, DOMAIN line = 1 .. n, Len(line) = n,
         Complete(line)
  PROVE  /\ can_distcc(line) \in {"yes", "no"}
         /\ can_distcc(line) = "yes" <=> Distributable(line)
<1>1. PICK f : Scans(line, n, f) /\ can_distcc(line) = f[2][{}]
  BY ScanIs
<1>2. \A kinds : From(line, n, 2, kinds) = Free(line, kinds)
  BY DEF From, Free
<1>3. \A kinds : IsFiniteSet(Free(line, kinds))
  <2>1. IsFiniteSet(2 .. n)
    BY FS_Interval
  <2>2. \A kinds : Free(line, kinds) \subseteq 2 .. n
    BY DEF Free
  <2>3. QED
    BY <2>1, <2>2, FS_Subset
<1>4. \A kinds : /\ Cardinality(Free(line, kinds)) = 1
                      <=> \E x : Free(line, kinds) = {x}
                 /\ Cardinality(Free(line, kinds)) <= 1
                      <=> \/ Free(line, kinds) = {}
                          \/ \E x : Free(line, kinds) = {x}
  <2>1. ASSUME NEW S, IsFiniteSet(S)
        PROVE  /\ Cardinality(S) = 1 <=> \E x : S = {x}
               /\ Cardinality(S) <= 1 <=> S = {} \/ \E x : S = {x}
    <3>1. Cardinality(S) = 1 <=> \E x : S = {x}
      BY <2>1, FS_Singleton
    <3>2. Cardinality(S) = 0 <=> S = {}
      BY <2>1, FS_EmptySet
    <3>3. Cardinality(S) \in Nat
      BY <2>1, FS_CardinalityType
    <3>4. Cardinality(S) <= 1 <=> Cardinality(S) = 0 \/ Cardinality(S) = 1
      BY <3>3
    <3>5. QED
      BY <3>1, <3>2, <3>4, Zenon
  <2>2. QED
    BY <1>3, <2>1
<1>5. Says(line, n, 2, {}) <=> Distributable(line)
  BY <1>2, <1>4 DEF Says, Distributable
<1>6. QED
  BY <1>1, <1>5, ScanSays

(***************************************************************************)
(* What a run of the command is made of.                                   *)
(***************************************************************************)
LEMMA EnvironsAre ==
  ASSUME NEW e \in Environs
  PROVE  e = [v \in DOMAIN e |-> e[v]] /\ Reserved \cup {"MAKEFLAGS"} \subseteq DOMAIN e
BY ConstantsOK

\* What the section is like that was read.
LEMMA ReadIs ==
  ASSUME IndInv, SettingsKept, pc \in {"lock", "ran", "wait"}
  PROVE  /\ read \in Section
         /\ Optional(read.distcc) /\ Optional(read.ccache)
         /\ Optional(read.distcc_hosts) /\ Optional(read.distcplusplus_hosts)
<1>1. PICK c \in Configs : read = c[dirname]
  BY DEF SettingsKept
<1>2. dirname \in DOMAIN c
  BY DirKnown DEF IndInv, Restored
<1>3. QED
  BY <1>1, <1>2, ConstantsOK

LEMMA HostsAre ==
  ASSUME IndInv, SettingsKept, pc \in {"lock", "ran", "wait"}
  PROVE  /\ HostsOf(type, sec) = HostsOf(type, read)
         /\ Optional(HostsOf(type, read))
<1>1. read \in Section /\ sec.distcc_hosts = read.distcc_hosts
      /\ sec.distcplusplus_hosts = read.distcplusplus_hosts
  BY ReadIs DEF SettingsKept
<1>2. QED
  BY <1>1, ReadIs DEF HostsOf

\* adjust_args_and_environment's settings, in force over those there were.
LEMMA EnvironmentIs ==
  ASSUME IndInv, EnvironmentKept, SettingsKept, pc = "lock",
         \A i \in DOMAIN sec.env_add : Len(sec.env_add[i]) = 2
  PROVE  /\ Environment = [v \in DOMAIN home |-> Environment[v]]
         /\ \A v \in DOMAIN home \ Reserved :
              Environment[v] = IF Given(v, read) = {} THEN env[v]
                               ELSE read.env_add[Max(Given(v, read))][2]
         /\ /\ sec.distcc # {} /\ type \in {"cc", "c++"}
            /\ Given("DISTCC_HOSTS", read) = {}
            => Environment["DISTCC_HOSTS"] \in HostsOf(type, read)
<1> DEFINE D == DOMAIN home
           adds == sec.env_add
           make == IF type = "make" THEN [env EXCEPT !["MAKE"] = "make"] ELSE env
           direct == type \in {"cc", "c++"} /\ sec.ccache = {} /\ sec.distcc # {}
           host == CHOOSE h \in HostsOf(type, sec) : TRUE
           hosts == IF direct THEN [make EXCEPT !["DISTCC_HOSTS"] = host]
                    ELSE make
           added == setenvs(adds, hosts)
<1>1. env = [v \in D |-> env[v]] /\ Reserved \subseteq D
  BY EnvironsAre DEF EnvironmentKept
<1>2. make = [v \in D |-> make[v]] /\ \A v \in D \ Reserved : make[v] = env[v]
  <2>1. CASE type = "make"
    <3>1. make = [env EXCEPT !["MAKE"] = "make"]
      BY <2>1
    <3> HIDE DEF make
    <3>2. QED
      BY <1>1, <3>1, Overridden DEF Reserved
  <2>2. CASE type # "make"
    BY <1>1, <2>2
  <2>3. QED
    BY <2>1, <2>2
<1>3. direct => host \in HostsOf(type, read)
  BY HostsAre DEF SettingsKept, Hosts
<1> HIDE DEF make, host
<1>4. /\ hosts = [v \in D |-> hosts[v]] /\ \A v \in D \ Reserved : hosts[v] = env[v]
      /\ direct => hosts["DISTCC_HOSTS"] = host
  <2>1. "DISTCC_HOSTS" \in D /\ "DISTCC_HOSTS" \in Reserved
    BY <1>1 DEF Reserved
  <2>2. QED
    BY <1>2, <1>3, <2>1
<1>5. PICK n \in Nat : DOMAIN adds = 1 .. n
  <2>1. adds \in Seq(Seq(STRING))
    BY ReadIs DEF SettingsKept, Section
  <2>2. QED
    BY <2>1, LenProperties
<1> HIDE DEF hosts, direct
<1>7. /\ added = [v \in D |-> added[v]]
      /\ Settles(D, n, adds, hosts, added)
  <2> HIDE DEF adds, D
  <2>1. QED
    BY <1>4, <1>5, SetenvsOf
<1>8. \A v : {i \in 1 .. n : adds[i][1] = v} = Given(v, read)
  BY <1>5 DEF Given, SettingsKept
<1>9. \A v \in D : added[v] = IF Given(v, read) = {} THEN hosts[v]
                              ELSE read.env_add[Max(Given(v, read))][2]
  <2>1. adds = read.env_add
    BY DEF SettingsKept
  <2> HIDE DEF adds, added
  <2>2. QED
    BY <1>7, <1>8, <2>1 DEF Settles
<1> DEFINE first == [added EXCEPT !["CCONTROL_LOCK_FD"] = "fd",
                                  !["CCACHE_PREFIX"] = "ccontrol"]
           second == [added EXCEPT !["DISTCC_FALLBACK"] = "0"]
<1>10. /\ ccache_then_distcc => Environment = first
       /\ ~ccache_then_distcc /\ sec.distcc # {} => Environment = second
       /\ ~ccache_then_distcc /\ sec.distcc = {} => Environment = added
  BY Zenon DEF Environment, make, direct, host, hosts
<1> HIDE DEF added, adds
<1>11. /\ first = [v \in D |-> first[v]] /\ second = [v \in D |-> second[v]]
       /\ \A v \in D \ Reserved : first[v] = added[v] /\ second[v] = added[v]
       /\ first["DISTCC_HOSTS"] = added["DISTCC_HOSTS"]
       /\ second["DISTCC_HOSTS"] = added["DISTCC_HOSTS"]
  <2> DEFINE half == [added EXCEPT !["CCONTROL_LOCK_FD"] = "fd"]
  <2>1. added = [v \in D |-> added[v]]
    BY <1>7
  <2>2. /\ half = [v \in D |-> half[v]]
        /\ \A v \in D : v # "CCONTROL_LOCK_FD" => half[v] = added[v]
    BY <2>1, Overridden
  <2>3. first = [half EXCEPT !["CCACHE_PREFIX"] = "ccontrol"]
    OBVIOUS
  <2> HIDE DEF half, first
  <2>4. /\ first = [v \in D |-> first[v]]
        /\ \A v \in D : v # "CCACHE_PREFIX" => first[v] = half[v]
    BY <2>1, <2>2, <2>3, Overridden
  <2>5. /\ second = [v \in D |-> second[v]]
        /\ \A v \in D : v # "DISTCC_FALLBACK" => second[v] = added[v]
    BY <2>1, Overridden
  <2> HIDE DEF second
  <2>6. QED
    BY <1>1, <2>2, <2>4, <2>5 DEF Reserved
<1> HIDE DEF first, second
<1>12. /\ Environment = [v \in D |-> Environment[v]]
       /\ \A v \in D \ Reserved : Environment[v] = added[v]
  BY <1>7, <1>10, <1>11
<1>13. ASSUME sec.distcc # {}, type \in {"cc", "c++"},
              Given("DISTCC_HOSTS", read) = {}
       PROVE  Environment["DISTCC_HOSTS"] \in HostsOf(type, read)
  <2>1. direct
    BY <1>13 DEF direct, SettingsKept
  <2>2. "DISTCC_HOSTS" \in D
    BY <1>1 DEF Reserved
  <2>3. Environment["DISTCC_HOSTS"] = added["DISTCC_HOSTS"]
    BY <1>10, <1>11
  <2>4. QED
    BY <1>3, <1>4, <1>9, <1>13, <2>1, <2>2, <2>3
<1>14. QED
  BY <1>4, <1>9, <1>12, <1>13

\* What is behind the first words of a line.
LEMMA Behind ==
  ASSUME NEW S, NEW b \in Seq(S), NEW r \in Seq(S)
  PROVE  SubSeq(b \o r, Len(b) + 1, Len(b \o r)) = r
<1> DEFINE line == b \o r
           part == SubSeq(line, Len(b) + 1, Len(line))
<1>1. /\ line \in Seq(S) /\ Len(line) = Len(b) + Len(r)
      /\ Len(b) \in Nat /\ Len(r) \in Nat
      /\ \A i \in 1 .. Len(b) + Len(r) :
           line[i] = IF i <= Len(b) THEN b[i] ELSE r[i - Len(b)]
  BY ConcatProperties, LenProperties
<1> HIDE DEF line
<1>2. part = [i \in 1 .. (Len(line) - (Len(b) + 1)) + 1 |->
                line[i + (Len(b) + 1) - 1]]
  BY <1>1
<1>3. (Len(line) - (Len(b) + 1)) + 1 = Len(r)
  BY <1>1
<1>4. \A i \in 1 .. Len(r) : line[i + (Len(b) + 1) - 1] = r[i]
  <2>1. ASSUME NEW i \in 1 .. Len(r)
        PROVE  line[i + (Len(b) + 1) - 1] = r[i]
    <3>1. /\ i + (Len(b) + 1) - 1 = i + Len(b) /\ (i + Len(b)) - Len(b) = i
          /\ i + Len(b) \in 1 .. Len(b) + Len(r) /\ ~(i + Len(b) <= Len(b))
      BY <1>1
    <3>2. QED
      BY <1>1, <3>1
  <2>2. QED
    BY <2>1
<1>5. part = [i \in 1 .. Len(r) |-> r[i]]
  BY <1>2, <1>3, <1>4
<1>6. r = [i \in 1 .. Len(r) |-> r[i]]
  OBVIOUS
<1>7. QED
  BY <1>5, <1>6 DEF line

\* A line with a word in front.
LEMMA Headed ==
  ASSUME NEW p, NEW S, NEW t \in Seq(S)
  PROVE  LET line == <<p>> \o t
         IN /\ DOMAIN line = 1 .. Len(t) + 1 /\ Len(t) \in Nat
            /\ line[1] = p
            /\ \A i \in 1 .. Len(t) : line[i + 1] = t[i]
<1> DEFINE P == S \cup {p}
           line == <<p>> \o t
<1>1. p \in P /\ t \in Seq(P)
  BY SeqMonotonic
<1> HIDE DEF P
<1>2. <<p>> \in Seq(P) /\ Len(<<p>>) = 1 /\ Len(t) \in Nat
  BY <1>1, LenProperties
<1>3. /\ line \in Seq(P) /\ Len(line) = 1 + Len(t)
      /\ \A i \in 1 .. 1 + Len(t) :
           line[i] = IF i <= 1 THEN <<p>>[i] ELSE t[i - 1]
  BY <1>1, <1>2, ConcatProperties
<1> HIDE DEF line
<1>4. DOMAIN line = 1 .. Len(t) + 1
  BY <1>2, <1>3, LenProperties
<1>5. line[1] = p
  BY <1>2, <1>3
<1>6. \A i \in 1 .. Len(t) : line[i + 1] = t[i]
  BY <1>2, <1>3
<1>7. QED
  BY <1>2, <1>4, <1>5, <1>6 DEF line

\* The command that a make runs: its program, what the section adds, and -j
\* unless something speaks against it.
LEMMA MakeRuns ==
  ASSUME IndInv, pc = "lock", type = "make"
  PROVE  LET added == Len(read.make_add)
             quiet == \/ make_target_match(Renamed, sec.no_parallel)
                      \/ already_has_dash_j(Renamed)
             job == Word("-j", int_to_string(sec.cpus * 20))
             dash_j == IF quiet THEN <<>> ELSE <<job>>
         IN /\ Tail(Asked) \in Seq(Words)
            /\ Renamed = <<Adjusted[1]>> \o Tail(Asked)
            /\ SubSeq(Adjusted, added + 2, Len(Adjusted))
                 = dash_j \o Tail(Asked)
<1> DEFINE job == Word("-j", int_to_string(sec.cpus * 20))
           dash_j == IF \/ make_target_match(Renamed, sec.no_parallel)
                        \/ already_has_dash_j(Renamed)
                     THEN <<>> ELSE <<job>>
           S == Words \cup {job}
           rest == Tail(Asked)
           add == Reverse(read.make_add)
<1>1. /\ Asked \in Seq(Words) /\ Asked # <<>> /\ Len(Asked) \in Nat \ {0}
      /\ read.make_add \in Seq(Words) /\ sec.make_add = read.make_add
  BY AskedIs DEF IndInv, Restored, SectionRead, Section
<1>2. PICK w \in NameOf(read) :
        /\ resolve_path(w, Asked[1]) \in Words
        /\ Renamed = <<resolve_path(w, Asked[1])>> \o rest
  BY ProgramIs
<1> DEFINE program == resolve_path(w, Asked[1])
<1>3. /\ add \in Seq(Words) /\ Len(add) = Len(read.make_add)
      /\ rest \in Seq(Words)
  BY <1>1, Reversed, HeadTailProperties
<1>4. Renamed[1] = program /\ Tail(Renamed) = rest
  BY <1>2, <1>3, Prefixed
<1>5. Adjusted = <<program>> \o add \o dash_j \o rest
  BY <1>1, <1>4 DEF Adjusted, ForMake, Added
<1> HIDE DEF job, program, add, rest
<1>6. /\ program \in S /\ add \in Seq(S) /\ rest \in Seq(S) /\ job \in S
  BY <1>2, <1>3, SeqMonotonic DEF program
<1> HIDE DEF S
<1>7. dash_j \in Seq(S)
  BY <1>6
<1> HIDE DEF dash_j
<1> DEFINE front == <<program>> \o add
<1>8. front \in Seq(S) /\ Len(front) = Len(add) + 1 /\ front[1] = program
  BY <1>6, Prefixed
<1>9. Adjusted = front \o (dash_j \o rest) /\ dash_j \o rest \in Seq(S)
  <2>1. <<program>> \in Seq(S)
    BY <1>6
  <2> HIDE DEF front
  <2>2. front \o dash_j \o rest = front \o (dash_j \o rest)
    BY <1>6, <1>7, <1>8, ConcatAssociative
  <2>3. dash_j \o rest \in Seq(S)
    BY <1>6, <1>7, ConcatProperties
  <2>4. QED
    BY <1>5, <2>2, <2>3 DEF front
<1> HIDE DEF front
<1>10. SubSeq(Adjusted, Len(front) + 1, Len(Adjusted)) = dash_j \o rest
  BY <1>8, <1>9, Behind
<1>11. Len(front) + 1 = Len(read.make_add) + 2
  <2>1. Len(add) \in Nat
    BY <1>6, LenProperties
  <2>2. QED
    BY <1>3, <1>8, <2>1
<1>12. Adjusted[1] = program
  <2>1. Len(front) \in Nat /\ Len(front) >= 1 /\ Len(dash_j \o rest) \in Nat
    <3>1. Len(add) \in Nat
      BY <1>6, LenProperties
    <3>2. QED
      BY <1>8, <1>9, <3>1, LenProperties
  <2>2. \A i \in 1 .. Len(front) + Len(dash_j \o rest) :
          Adjusted[i] = IF i <= Len(front) THEN front[i]
                        ELSE (dash_j \o rest)[i - Len(front)]
    BY <1>8, <1>9, ConcatProperties
  <2>3. QED
    BY <1>8, <2>1, <2>2
<1>13. QED
  BY <1>2, <1>3, <1>10, <1>11, <1>12 DEF program, rest, dash_j, job

\* It gets one -j for 20 jobs per cpu, or none.
LEMMA ParallelKept ==
  ASSUME IndInv, RoundInv, Run
  PROVE  RunsParallel'
<1>1. SUFFICES ASSUME type = "make" PROVE RunsParallel'
  <2>1. ASSUME type # "make" PROVE RunsParallel'
    <3>1. type' # "make"
      BY <2>1 DEF Run, locals
    <3>2. QED
      BY <3>1 DEF RunsParallel
  <2>2. QED
    BY <2>1
<1>2. /\ pc = "lock" /\ argv' = Adjusted
      /\ UNCHANGED <<typed, home, type, sec, read>>
  BY DEF Run, input, locals
<1>3. Asked' = Asked
  BY <1>2, TypedSame
<1> DEFINE added == Len(read.make_add)
           quiet == \/ make_target_match(Renamed, sec.no_parallel)
                    \/ already_has_dash_j(Renamed)
           text == int_to_string(sec.cpus * 20)
           job == Word("-j", text)
           dash_j == IF quiet THEN <<>> ELSE <<job>>
           line == <<Adjusted[1]>> \o Tail(Asked)
           behind == SubSeq(Adjusted, added + 2, Len(Adjusted))
           wanted == /\ ~Has(line, {"-j"})
                     /\ home["MAKEFLAGS"] # "--jobserver-fds"
                     /\ ~make_target_match(line, read.no_parallel)
<1>4. /\ Tail(Asked) \in Seq(Words)
      /\ Renamed = line
      /\ behind = dash_j \o Tail(Asked)
  BY <1>1, <1>2, MakeRuns
<1>5. env["MAKEFLAGS"] = home["MAKEFLAGS"]
  <2>1. "MAKEFLAGS" \in DOMAIN home \ Reserved
    BY EnvironsAre DEF RoundInv, EnvironmentKept, Reserved
  <2>2. what_am_i(Asked) = "make"
    BY <1>1, <1>2 DEF IndInv, Restored
  <2>3. ~retried
    BY <2>2 DEF RoundInv, EnvironmentKept
  <2>4. QED
    BY <1>2, <2>1, <2>3 DEF RoundInv, EnvironmentKept
<1>6. /\ sec.no_parallel = read.no_parallel /\ sec.cpus = read.cpus
      /\ read.cpus \in Nat
  <2>1. read \in Section
    BY <1>2, ReadIs DEF RoundInv
  <2>2. QED
    BY <1>2, <2>1 DEF RoundInv, SettingsKept, Section
<1>7. wanted <=> ~quiet
  BY <1>4, <1>5, <1>6 DEF already_has_dash_j
<1> HIDE DEF line, behind, text
<1>8. CASE ~wanted
  <2>1. behind = Tail(Asked)
    BY <1>4, <1>7, <1>8, ConcatEmptySeq
  <2>2. QED
    BY <1>2, <1>3, <1>8, <2>1 DEF RunsParallel, line, behind
<1>9. CASE wanted
  <2>1. behind = <<job>> \o Tail(Asked)
    BY <1>4, <1>7, <1>9
  <2> DEFINE rest == Tail(Asked)
  <2>2. rest \in Seq(Words)
    BY <1>4
  <2> HIDE DEF job, rest
  <2>3. /\ DOMAIN behind = 1 .. Len(rest) + 1 /\ Len(rest) \in Nat
        /\ behind[1] = job
        /\ \A i \in 1 .. Len(rest) : behind[i + 1] = rest[i]
    BY <2>1, <2>2, Headed DEF rest
  <2>4. {i \in DOMAIN behind : behind[i].kind = "-j"} = {1}
    <3>1. behind[1].kind = "-j"
      BY <2>3 DEF job, Word
    <3>2. ASSUME NEW i \in 1 .. Len(rest) PROVE behind[i + 1].kind # "-j"
      <4>1. i + 1 \in DOMAIN line /\ line[i + 1] = rest[i]
        BY <2>2, <2>3, Headed DEF line, rest
      <4>2. line[i + 1].kind # "-j"
        BY <1>9, <4>1 DEF Has
      <4>3. QED
        BY <2>3, <4>1, <4>2
    <3>3. ASSUME NEW i \in DOMAIN behind, i # 1 PROVE behind[i].kind # "-j"
      <4>1. i - 1 \in 1 .. Len(rest) /\ (i - 1) + 1 = i
        BY <2>3, <3>3
      <4>2. QED
        BY <3>2, <4>1
    <3>4. 1 \in DOMAIN behind
      BY <2>3
    <3>5. QED
      BY <3>1, <3>3, <3>4
  <2>5. read.cpus < 500000 =>
          /\ \A i \in DOMAIN behind[1].text : behind[1].text[i] \in 0 .. 9
          /\ Value(behind[1].text) = 20 * read.cpus
    <3>1. behind[1].text = int_to_string(sec.cpus * 20)
      BY <2>3 DEF job, text, Word
    <3>2. sec.cpus * 20 \in Nat /\ sec.cpus * 20 = 20 * read.cpus
      BY <1>6
    <3>3. read.cpus < 500000 => sec.cpus * 20 < 10 * Ords[1]
      BY <1>6, SMT DEF Ords
    <3>4. QED
      BY <3>1, <3>2, <3>3, DigitsOf, SMT
  <2>6. JobsFirst(behind, read.cpus)
    BY <2>4, <2>5, SMT DEF JobsFirst
  <2>7. QED
    BY <1>2, <1>3, <1>9, <2>6 DEF RunsParallel, line, behind
<1>10. QED
  BY <1>8, <1>9

\* distcc, or ccache, is put in front of the compiles it can take.
LEMMA DistccKept ==
  ASSUME IndInv, RoundInv, Run
  PROVE  DistccWhereItCan'
<1>1. /\ pc = "lock" /\ argv' = Adjusted /\ env' = Environment
      /\ \A i \in DOMAIN sec.env_add : Len(sec.env_add[i]) = 2
      /\ UNCHANGED <<typed, home, type, sec, read, nodistcc, noccache>>
  BY DEF Run, input, locals, flags
<1>2. Asked' = Asked
  BY <1>1, TypedSame
<1>3. SUFFICES ASSUME type \in {"cc", "c++"}, Complete(Asked)
               PROVE  DistccWhereItCan'
  BY <1>1, <1>2 DEF DistccWhereItCan
<1> DEFINE tried == /\ read.distcc # {} /\ HostsOf(type, read) # {}
                    /\ ~nodistcc
                    /\ read.ccache = {} \/ noccache
                    /\ Distributable(Asked)
           front == IF read.ccache # {} /\ ~noccache THEN read.ccache
                    ELSE IF tried THEN read.distcc ELSE {}
<1>4. /\ sec.distcc # {} <=> tried
      /\ sec.distcc # {} => sec.distcc = read.distcc
      /\ sec.ccache = IF noccache THEN {} ELSE read.ccache
  BY <1>1, <1>3 DEF RoundInv, SettingsKept
<1>5. Prefix = front
  BY <1>4 DEF Prefix
<1>6. tried /\ Given("DISTCC_HOSTS", read) = {} =>
        {Environment["DISTCC_HOSTS"]} = HostsOf(type, read)
  <2>1. Optional(HostsOf(type, read))
    BY <1>1, HostsAre DEF RoundInv
  <2>2. tried /\ Given("DISTCC_HOSTS", read) = {} =>
          Environment["DISTCC_HOSTS"] \in HostsOf(type, read)
    BY <1>1, <1>3, <1>4, EnvironmentIs DEF RoundInv
  <2>3. QED
    BY <2>1, <2>2 DEF Optional
<1>7. Optional(front)
  BY <1>1, ReadIs DEF RoundInv, Optional
<1>8. Renamed \in Seq(Words) /\ Len(Renamed) = Len(Asked)
  <2>1. PICK v \in NameOf(read) :
          /\ resolve_path(v, Asked[1]) \in Words
          /\ Renamed = <<resolve_path(v, Asked[1])>> \o Tail(Asked)
    BY <1>1, <1>3, ProgramIs
  <2>2. /\ Asked \in Seq(Words) /\ Asked # <<>> /\ Len(Asked) \in Nat
        /\ Tail(Asked) \in Seq(Words) /\ Len(Tail(Asked)) = Len(Asked) - 1
    BY <1>1, AskedIs, HeadTailProperties DEF IndInv, Restored
  <2>3. QED
    BY <2>1, <2>2, Prefixed
<1>9. Adjusted = IF front = {} THEN Renamed
                 ELSE <<CHOOSE w \in front : TRUE>> \o Renamed
  BY <1>3, <1>5 DEF Adjusted, ForCompile
<1> HIDE DEF front
<1>10. IF front = {} THEN Len(Adjusted) = Len(Asked)
       ELSE Len(Adjusted) = Len(Asked) + 1 /\ {Adjusted[1]} = front
  <2>1. CASE front = {}
    BY <1>8, <1>9, <2>1
  <2>2. CASE front # {}
    <3>1. PICK w \in front : Adjusted = <<w>> \o Renamed
      BY <1>9, <2>2
    <3>2. Adjusted[1] = w
      BY <1>8, <3>1, Headed
    <3>3. w \in Words
      <4>1. read \in Section
        BY <1>1, ReadIs DEF RoundInv
      <4>2. QED
        BY <4>1 DEF front, Section
    <3>4. Len(Adjusted) = Len(Asked) + 1
      BY <1>8, <3>1, <3>3, Prefixed
    <3>5. QED
      BY <1>7, <2>2, <3>2, <3>4 DEF Optional
  <2>3. QED
    BY <2>1, <2>2
<1>11. QED
  BY <1>1, <1>2, <1>6, <1>10 DEF DistccWhereItCan, front

(***************************************************************************)
(* The steps of RoundInv.                                                  *)
(***************************************************************************)
LEMMA RoundInit == ASSUME Init PROVE RoundInv
<1>1. /\ home \in Environs /\ env = home /\ pc = "main" /\ type = "other"
      /\ retried = FALSE
  BY DEF Init
<1>2. TypeOK /\ EnvironmentKept
  BY <1>1, EnvironsAre DEF TypeOK, EnvironmentKept, Type
<1>3. /\ SettingsKept /\ WaitsForDistcc /\ RunsParallel /\ DistccWhereItCan
      /\ EnvironmentOfSection
  BY <1>1 DEF SettingsKept, WaitsForDistcc, RunsParallel, DistccWhereItCan,
              EnvironmentOfSection, Running
<1>4. QED
  BY <1>2, <1>3 DEF RoundInv

\* main ends, or is on its way to the next round.
LEMMA RoundEnds ==
  ASSUME RoundInv, UNCHANGED <<typed, home, env, type, retried>>,
         pc' \in {"preprocess", "exit", "crash", "fatal", "overrun"}
  PROVE  RoundInv'
<1>1. Asked' = Asked /\ Command' = Command
  BY TypedSame
<1>2. TypeOK' /\ EnvironmentKept'
  BY <1>1 DEF RoundInv, TypeOK, EnvironmentKept, what_am_i
<1>3. /\ SettingsKept' /\ WaitsForDistcc' /\ RunsParallel' /\ DistccWhereItCan'
      /\ EnvironmentOfSection'
  BY DEF SettingsKept, WaitsForDistcc, RunsParallel, DistccWhereItCan,
         EnvironmentOfSection, Running
<1>4. QED
  BY <1>2, <1>3 DEF RoundInv

LEMMA RoundBegins ==
  ASSUME RoundInv, UNCHANGED <<typed, home, retried>>, type' \in Type,
         pc \in {"main", "args", "again", "lock"}, pc' \in {"args", "again"},
         env' = [v \in DOMAIN home |-> env'[v]],
         \A v \in DOMAIN home \ Reserved : env'[v] = env[v]
  PROVE  RoundInv'
<1>1. Asked' = Asked /\ Command' = Command
  BY TypedSame
<1>2. TypeOK'
  BY DEF TypeOK
<1>3. EnvironmentKept'
  BY <1>1 DEF RoundInv, EnvironmentKept, what_am_i
<1>4. /\ SettingsKept' /\ WaitsForDistcc' /\ RunsParallel' /\ DistccWhereItCan'
      /\ EnvironmentOfSection'
  BY DEF SettingsKept, WaitsForDistcc, RunsParallel, DistccWhereItCan,
         EnvironmentOfSection, Running
<1>5. QED
  BY <1>2, <1>3, <1>4 DEF RoundInv

LEMMA CompileRound == ASSUME RoundInv, Compile PROVE RoundInv'
<1>1. /\ pc = "main" /\ pc' = "args"
      /\ UNCHANGED <<typed, home, retried, type>>
      /\ env' = [env EXCEPT !["CCACHE_PREFIX"] = Unset,
                            !["CCONTROL_LOCK_FD"] = Unset]
  BY DEF Compile, input, locals
<1>2. env = [v \in DOMAIN home |-> env[v]]
  BY DEF RoundInv, EnvironmentKept
<1> DEFINE half == [env EXCEPT !["CCACHE_PREFIX"] = Unset]
<1>3. /\ half = [v \in DOMAIN home |-> half[v]]
      /\ \A v \in DOMAIN home : v # "CCACHE_PREFIX" => half[v] = env[v]
  BY <1>2, Overridden
<1>4. env' = [half EXCEPT !["CCONTROL_LOCK_FD"] = Unset]
  BY <1>1
<1> HIDE DEF half
<1>5. /\ env' = [v \in DOMAIN home |-> env'[v]]
      /\ \A v \in DOMAIN home : v # "CCONTROL_LOCK_FD" => env'[v] = half[v]
  BY <1>3, <1>4, Overridden
<1>6. \A v \in DOMAIN home \ Reserved : env'[v] = env[v]
  BY <1>3, <1>5 DEF Reserved
<1>7. type' \in Type
  BY <1>1 DEF RoundInv, TypeOK
<1>8. QED
  BY <1>1, <1>5, <1>6, <1>7, RoundBegins

LEMMA BeginRound ==
  ASSUME IndInv, RoundInv, Begin \/ Restore \/ Altered PROVE RoundInv'
<1>1. /\ pc \in {"main", "args", "again", "lock"} /\ pc' \in {"args", "again"}
      /\ UNCHANGED <<typed, home, env, retried>>
      /\ type' \in {type, what_am_i(Asked)}
  BY DEF Begin, Restore, Altered, input, locals
<1>2. type' \in Type
  BY <1>1, Identified DEF RoundInv, TypeOK
<1>3. env' = [v \in DOMAIN home |-> env'[v]]
  BY <1>1 DEF RoundInv, EnvironmentKept
<1>4. QED
  BY <1>1, <1>2, <1>3, RoundBegins

\* Of the section main keeps what it does not resolve.
LEMMA ResolvedKeeps ==
  ASSUME NEW r \in Section, type \in Type
  PROVE  LET s == Resolved(r)
         IN /\ s.env_add = r.env_add /\ s.no_parallel = r.no_parallel
            /\ s.cpus = r.cpus /\ s.distcc_hosts = r.distcc_hosts
            /\ s.distcplusplus_hosts = r.distcplusplus_hosts
            /\ s.distcc = r.distcc
            /\ type # "other" => s.ccache = r.ccache
            /\ DOMAIN s = DOMAIN r
<1> DEFINE path == {resolve_path(w, argv[1]) : w \in NameOf(r)}
<1>1. Resolved(r) = IF type = "other" THEN [r EXCEPT !.ccache = path]
                    ELSE [r EXCEPT !.names[type] = path]
  BY DEF Resolved
<1> HIDE DEF path
<1>2. CASE type = "other"
  BY <1>1, <1>2 DEF Section
<1>3. CASE type # "other"
  BY <1>1, <1>3 DEF Section
<1>4. QED
  BY <1>2, <1>3

LEMMA ReadRound == ASSUME IndInv, RoundInv, Read PROVE RoundInv'
<1>1. /\ pc = "again" /\ pc' = "lock"
      /\ UNCHANGED <<typed, home, env, argv, dirname, type, nodistcc, noccache,
                     retried>>
  BY DEF Read, input, args
<1>2. Asked' = Asked /\ Command' = Command
  BY <1>1, TypedSame
<1>3. TypeOK'
  BY <1>1 DEF RoundInv, TypeOK
<1>4. EnvironmentKept'
  BY <1>1, <1>2 DEF RoundInv, EnvironmentKept, what_am_i
<1>5. WaitsForDistcc' /\ RunsParallel' /\ DistccWhereItCan' /\ EnvironmentOfSection'
  BY <1>1 DEF WaitsForDistcc, RunsParallel, DistccWhereItCan,
              EnvironmentOfSection, Running
<1>6. SettingsKept'
  <2> DEFINE Chosen(c, distcc) ==
        LET s == Resolved(c[dirname])
            ccache == IF noccache THEN {} ELSE s.ccache
            wanted == s.distcc # {} /\ ~nodistcc /\ type \notin {"ld", "make"}
            direct == wanted /\ ccache = {} /\ Hosts(s)
        IN /\ distcc \in {s.distcc, {}}
           /\ distcc # {} => direct /\ can_distcc(argv) # "no"
           /\ distcc = {} => ~direct \/ can_distcc(argv) # "yes"
           /\ sec' = [s EXCEPT !.ccache = ccache, !.distcc = distcc]
           /\ read' = c[dirname]
  <2>1. PICK c \in Configs : \E distcc : Chosen(c, distcc)
    BY DEF Read
  <2>2. PICK distcc : Chosen(c, distcc)
    BY <2>1
  <2>3. dirname \in DOMAIN c /\ argv = Asked /\ Typable(typed) /\ Command
    BY <1>1, DirKnown DEF IndInv, Restored
  <2> DEFINE r == c[dirname]
             s == Resolved(r)
  <2>4. r \in Section /\ type \in Type
    BY <2>3, ConstantsOK DEF RoundInv, TypeOK
  <2>5. /\ s.env_add = r.env_add /\ s.no_parallel = r.no_parallel
        /\ s.cpus = r.cpus /\ s.distcc_hosts = r.distcc_hosts
        /\ s.distcplusplus_hosts = r.distcplusplus_hosts
        /\ s.distcc = r.distcc
        /\ type # "other" => s.ccache = r.ccache
        /\ {"env_add", "no_parallel", "cpus", "distcc_hosts", "ccache",
            "distcplusplus_hosts", "distcc"} \subseteq DOMAIN s
    BY <2>4, ResolvedKeeps DEF Section
  <2> DEFINE ccache == IF noccache THEN {} ELSE s.ccache
             wanted == s.distcc # {} /\ ~nodistcc /\ type \notin {"ld", "make"}
             direct == wanted /\ ccache = {} /\ Hosts(s)
  <2>6. /\ distcc \in {s.distcc, {}}
        /\ distcc # {} => direct /\ can_distcc(Asked) # "no"
        /\ distcc = {} => ~direct \/ can_distcc(Asked) # "yes"
        /\ sec' = [s EXCEPT !.ccache = ccache, !.distcc = distcc]
        /\ read' = r
    BY <2>2, <2>3
  <2>7. Hosts(s) = Hosts(r) /\ HostsOf(type, s) = HostsOf(type, r)
    <3> HIDE DEF s, r
    <3>1. QED
      BY <2>5 DEF Hosts, HostsOf
  <2> HIDE DEF s, r
  <2>8. /\ sec'.env_add = r.env_add /\ sec'.no_parallel = r.no_parallel
        /\ sec'.cpus = r.cpus /\ sec'.distcc_hosts = r.distcc_hosts
        /\ sec'.distcplusplus_hosts = r.distcplusplus_hosts
        /\ sec'.distcc = distcc /\ sec'.ccache = ccache
    BY <2>5, <2>6
  <2>9. distcc # {} => /\ distcc = r.distcc /\ ccache = {}
                       /\ type \notin {"ld", "make"} /\ Hosts(r)
    BY <2>5, <2>6, <2>7
  <2>10. ASSUME type \in {"cc", "c++"}, Complete(Asked)
         PROVE  distcc # {} <=> /\ r.distcc # {} /\ HostsOf(type, r) # {}
                                /\ ~nodistcc
                                /\ r.ccache = {} \/ noccache
                                /\ Distributable(Asked)
    <3>1. /\ can_distcc(Asked) \in {"yes", "no"}
          /\ can_distcc(Asked) = "yes" <=> Distributable(Asked)
      <4>1. /\ Len(Asked) \in Nat \ {0} /\ DOMAIN Asked = 1 .. Len(Asked)
        BY <2>3, AskedIs, LenProperties
      <4>2. QED
        BY <2>10, <4>1, CanDistccIs
    <3>2. direct <=> /\ r.distcc # {} /\ HostsOf(type, r) # {} /\ ~nodistcc
                     /\ r.ccache = {} \/ noccache
      BY <2>5, <2>7, <2>10 DEF Hosts
    <3>3. distcc # {} <=> direct /\ can_distcc(Asked) = "yes"
      <4>1. direct => s.distcc # {}
        OBVIOUS
      <4> HIDE DEF direct
      <4>2. QED
        BY <2>6, <3>1, <4>1
    <3> HIDE DEF direct
    <3>4. QED
      BY <3>1, <3>2, <3>3
  <2>11. \E d \in Configs : read' = d[dirname]
    BY <2>6 DEF r
  <2> HIDE DEF ccache, direct, wanted
  <2>12. read' = r
    BY <2>6
  <2>13. type \in {"cc", "c++"} =>
           sec'.ccache = IF noccache THEN {} ELSE r.ccache
    BY <2>5, <2>8 DEF ccache
  <2>14. QED
    BY <1>1, <1>2, <2>8, <2>9, <2>10, <2>11, <2>12, <2>13
    DEF SettingsKept, Hosts, HostsOf
<1>7. QED
  BY <1>3, <1>4, <1>5, <1>6 DEF RoundInv

LEMMA RunRound == ASSUME IndInv, RoundInv, Run PROVE RoundInv'
<1>1. /\ pc = "lock" /\ env' = Environment
      /\ pc' = IF ~ccache_then_distcc /\ sec.distcc # {} THEN "wait" ELSE "ran"
      /\ \A i \in DOMAIN sec.env_add : Len(sec.env_add[i]) = 2
      /\ UNCHANGED <<typed, home, dirname, type, sec, read, nodistcc, noccache,
                     ccache_then_distcc, retried>>
  BY DEF Run, input, locals, flags
<1>2. Asked' = Asked /\ Command' = Command
  BY <1>1, TypedSame
<1>3. TypeOK'
  <2>1. CASE sec.distcc # {}
    <3>1. /\ sec.ccache = {} /\ type \in {"cc", "c++", "other"}
          /\ type # "other" => HostsOf(type, sec) # {}
      BY <1>1, <2>1, HostsAre DEF RoundInv, TypeOK, SettingsKept, Hosts, Type
    <3>2. QED
      BY <1>1, <2>1, <3>1 DEF RoundInv, TypeOK
  <2>2. CASE sec.distcc = {}
    BY <1>1, <2>2 DEF RoundInv, TypeOK
  <2>3. QED
    BY <2>1, <2>2
<1>4. /\ Environment = [v \in DOMAIN home |-> Environment[v]]
      /\ \A v \in DOMAIN home \ Reserved :
           Environment[v] = IF Given(v, read) = {} THEN env[v]
                            ELSE read.env_add[Max(Given(v, read))][2]
  BY <1>1, EnvironmentIs DEF RoundInv
<1>5. EnvironmentKept'
  BY <1>1, <1>2, <1>4 DEF RoundInv, EnvironmentKept, what_am_i
<1>6. SettingsKept'
  BY <1>1, <1>2 DEF RoundInv, SettingsKept, Hosts
<1>7. WaitsForDistcc'
  BY <1>1 DEF WaitsForDistcc, Running
<1>8. EnvironmentOfSection'
  <2>1. \A v \in DOMAIN home \ Reserved :
          env[v] = home[v] \/ (retried /\ env[v] = Unset)
    BY <1>1 DEF RoundInv, EnvironmentKept
  <2>2. ASSUME NEW v, Given(v, read) # {}
        PROVE  Max(Given(v, read)) \in Given(v, read)
    <3>1. read.env_add \in Seq(Seq(STRING))
      BY <1>1, ReadIs DEF RoundInv, Section
    <3>2. PICK n \in Nat : DOMAIN read.env_add = 1 .. n
      BY <3>1, LenProperties
    <3>3. Given(v, read) \in SUBSET (1 .. n)
      BY <3>2 DEF Given
    <3>4. QED
      BY <2>2, <3>2, <3>3, MaxIs
  <2>3. QED
    BY <1>1, <1>4, <2>1, <2>2 DEF EnvironmentOfSection, Given
<1>9. QED
  BY <1>3, <1>5, <1>6, <1>7, <1>8, ParallelKept, DistccKept DEF RoundInv

LEMMA RetryRound == ASSUME IndInv, RoundInv, Retry PROVE RoundInv'
<1> DEFINE adds == [i \in DOMAIN sec.env_add |-> <<sec.env_add[i][1], Unset>>]
           half == [env EXCEPT !["CCACHE_PREFIX"] = Unset]
           D == DOMAIN home
<1>1. /\ pc = "wait" /\ pc' = "args" /\ env' = setenvs(adds, half)
      /\ retried' = TRUE
      /\ UNCHANGED <<typed, home, type>>
  BY DEF Retry, input, locals
<1>2. Asked' = Asked /\ Command' = Command
  BY <1>1, TypedSame
<1>3. /\ half = [v \in D |-> half[v]]
      /\ \A v \in D : v # "CCACHE_PREFIX" => half[v] = env[v]
  <2>1. env = [v \in D |-> env[v]]
    BY DEF RoundInv, EnvironmentKept
  <2> HIDE DEF D
  <2>2. QED
    BY <2>1, Overridden
<1>4. PICK n \in Nat : DOMAIN sec.env_add = 1 .. n
  <2>1. sec.env_add \in Seq(Seq(STRING))
    BY <1>1, ReadIs DEF RoundInv, SettingsKept, Section
  <2>2. QED
    BY <2>1, LenProperties
<1>5. /\ DOMAIN adds = 1 .. n
      /\ \A i \in 1 .. n : adds[i][1] = sec.env_add[i][1] /\ adds[i][2] = Unset
  BY <1>4
<1> HIDE DEF adds, half
<1>6. env' = [v \in D |-> env'[v]] /\ Settles(D, n, adds, half, env')
  <2> HIDE DEF D
  <2>1. QED
    BY <1>1, <1>3, <1>5, SetenvsOf
<1>7. ASSUME NEW v \in D \ Reserved
      PROVE  env'[v] = home[v] \/ env'[v] = Unset
  <2> DEFINE at == {i \in 1 .. n : adds[i][1] = v}
  <2>1. at = Given(v, read)
    BY <1>1, <1>4, <1>5 DEF Given, RoundInv, SettingsKept
  <2>2. CASE at = {}
    <3>1. env'[v] = env[v]
      BY <1>3, <1>6, <2>2 DEF Settles, Reserved
    <3>2. env[v] = home[v] \/ env[v] = Unset
      BY <1>1, <2>1, <2>2 DEF RoundInv, EnvironmentOfSection, Running
    <3>3. QED
      BY <3>1, <3>2
  <2>3. CASE at # {}
    <3>1. env'[v] = adds[Max(at)][2]
      BY <1>6, <2>3 DEF Settles
    <3>2. Max(at) \in 1 .. n
      <4>1. at \in SUBSET (1 .. n)
        OBVIOUS
      <4> HIDE DEF at
      <4>2. QED
        BY <2>3, <4>1, MaxIs
    <3>3. QED
      BY <1>5, <3>1, <3>2
  <2>4. QED
    BY <2>2, <2>3
<1>8. EnvironmentKept'
  <2>1. Command /\ what_am_i(Asked) # "make"
    <3>1. type = what_am_i(Asked) /\ Command
      BY <1>1 DEF IndInv, Restored
    <3>2. type # "make"
      BY <1>1 DEF RoundInv, TypeOK
    <3>3. QED
      BY <3>1, <3>2
  <2>2. home \in Environs
    BY DEF RoundInv, EnvironmentKept
  <2>3. QED
    BY <1>1, <1>2, <1>6, <1>7, <2>1, <2>2 DEF EnvironmentKept, what_am_i
<1>9. TypeOK'
  BY <1>1 DEF RoundInv, TypeOK
<1>10. /\ SettingsKept' /\ WaitsForDistcc' /\ RunsParallel' /\ DistccWhereItCan'
       /\ EnvironmentOfSection'
  BY <1>1 DEF SettingsKept, WaitsForDistcc, RunsParallel, DistccWhereItCan,
              EnvironmentOfSection, Running
<1>11. QED
  BY <1>8, <1>9, <1>10 DEF RoundInv

LEMMA RoundStays == ASSUME RoundInv, UNCHANGED vars PROVE RoundInv'
<1>1. UNCHANGED <<typed, env, home, pc, argv, dirname, sec, type, read, retried,
                  nodistcc, noccache, ccache_then_distcc>>
  BY DEF vars, input, args, locals, flags
<1>2. Asked' = Asked /\ Command' = Command
  BY <1>1, TypedSame
<1>3. TypeOK'
  BY <1>1 DEF RoundInv, TypeOK
<1>4. EnvironmentKept'
  BY <1>1, <1>2 DEF RoundInv, EnvironmentKept, what_am_i
<1>5. SettingsKept'
  BY <1>1, <1>2 DEF RoundInv, SettingsKept, Hosts
<1>6. WaitsForDistcc'
  BY <1>1 DEF RoundInv, WaitsForDistcc, Running
<1>7. RunsParallel'
  BY <1>1, <1>2 DEF RoundInv, RunsParallel, Running
<1>8. DistccWhereItCan'
  BY <1>1, <1>2 DEF RoundInv, DistccWhereItCan, Running
<1>9. EnvironmentOfSection'
  BY <1>1 DEF RoundInv, EnvironmentOfSection, Running
<1>10. QED
  BY <1>3, <1>4, <1>5, <1>6, <1>7, <1>8, <1>9 DEF RoundInv

LEMMA RoundStep == ASSUME IndInv, RoundInv, [Next]_vars PROVE RoundInv'
<1>1. CASE Preprocess \/ NoCommand \/ Crash \/ NoEquals \/ Overrun
  <2>1. /\ UNCHANGED <<typed, home, env, type, retried>>
        /\ pc' \in {"preprocess", "exit", "crash", "fatal", "overrun"}
    BY <1>1 DEF Preprocess, NoCommand, Crash, NoEquals, Overrun, input, locals
  <2>2. QED
    BY <2>1, RoundEnds
<1>2. CASE Begin \/ Restore \/ Altered
  BY <1>2, BeginRound
<1>3. CASE Compile
  BY <1>3, CompileRound
<1>4. CASE Read
  BY <1>4, ReadRound
<1>5. CASE Run
  BY <1>5, RunRound
<1>6. CASE Retry
  BY <1>6, RetryRound
<1>7. CASE UNCHANGED vars
  BY <1>7, RoundStays
<1>8. QED
  BY <1>1, <1>2, <1>3, <1>4, <1>5, <1>6, <1>7 DEF Next

\* What main keeps from round to round: of its section, and of the environment
\* it was started with.
THEOREM RoundInvariance == Spec => []RoundInv
<1>1. Init => RoundInv
  BY RoundInit
<1>2. IndInv /\ RoundInv /\ [Next]_vars => RoundInv'
  BY RoundStep
<1>3. QED
  BY <1>1, <1>2, Invariance, PTL DEF Spec

\* A command has one of the five types, and distcc is run directly only without
\* ccache, for a compiler or an unknown command, and with hosts for it.
THEOREM TypeCorrect == Spec => []TypeOK
<1>1. RoundInv => TypeOK
  BY DEF RoundInv
<1>2. QED
  BY <1>1, RoundInvariance, PTL

\* Every make gets the jobs of its section, or none where its command line, a
\* make above it or a wildcard speaks against it: whatever the number of cpus
\* (below 500000), the command and the wildcards.
THEOREM RunsParallelAlways == Spec => []RunsParallel
<1>1. RoundInv => RunsParallel
  BY DEF RoundInv
<1>2. QED
  BY <1>1, RoundInvariance, PTL

\* The one pass of can_distcc over the arguments finds exactly the compiles
\* that distcc can take, for command lines of any length, and main puts distcc
\* in front of those, with its hosts, and in front of no others.
THEOREM DistccRunsWhereItCan == Spec => []DistccWhereItCan
<1>1. RoundInv => DistccWhereItCan
  BY DEF RoundInv
<1>2. QED
  BY <1>1, RoundInvariance, PTL

\* What a program finds in its environment is from its own section or from the
\* start, after any number of config changes and failures of distcc.
THEOREM EnvironmentIsOfSection == Spec => []EnvironmentOfSection
<1>1. RoundInv => EnvironmentOfSection
  BY DEF RoundInv
<1>2. QED
  BY <1>1, RoundInvariance, PTL
=============================================================================
