---------------------------- MODULE ConfigProofs ----------------------------
(***************************************************************************)
(* For any files, however wrong, and any words in them: a reading stays    *)
(* inside the texts it reads and never goes back in one, the files and     *)
(* sections it is in are properly nested, and the settings it collects are *)
(* within their limits and consistent with each other.                     *)
(***************************************************************************)
EXTENDS ConfigReading, SequenceTheorems, Recursion

-----------------------------------------------------------------------------
(* Tokens.                                                                 *)

LEMMA TextIs ==
  ASSUME NEW text, IsText(text)
  PROVE  Len(text) \in Nat /\ DOMAIN text = 1 .. Len(text)
BY LenProperties DEF IsText

\* The rest of a line ends behind its line end.
LEMMA UptoIs ==
  ASSUME NEW text, IsText(text), NEW from \in 1 .. Len(text) + 1
  PROVE  \/ upto(text, from) = 0
         \/ /\ upto(text, from) \in from + 1 .. Len(text) + 1
            /\ text[upto(text, from) - 1] = "nl"
<1> DEFINE I == {i \in from .. Len(text) : text[i] = "nl"}
           nl == IF I # {} THEN Min(I) ELSE 0
<1>1. Len(text) \in Nat
  BY TextIs
<1>2. upto(text, from) = IF nl = 0 THEN 0 ELSE nl + 1
  BY DEF upto, SelectInSubSeq
<1>3. CASE I = {}
  BY <1>2, <1>3
<1>4. CASE I # {}
  <2>1. I \in SUBSET Nat
    BY <1>1
  <2>2. \E n \in I : \A m \in I : n <= m
    <3> HIDE DEF I
    <3>1. QED
      BY <1>4, <2>1, LeastOf
  <2>3. Min(I) \in I
    <3> HIDE DEF I
    <3>1. QED
      BY <2>2 DEF Min
  <2>4. nl = Min(I) /\ nl \in from .. Len(text) /\ text[nl] = "nl"
    BY <1>4, <2>3
  <2> HIDE DEF nl, I
  <2>5. QED
    BY <1>1, <1>2, <2>4
<1>5. QED
  BY <1>3, <1>4

\* Blanks are skipped inside the text.
LEMMA SwallowedIs ==
  ASSUME NEW text, IsText(text), NEW from \in 1 .. Len(text) + 1
  PROVE  Swallowed(text, from) \in from .. Len(text) + 1
BY TextIs DEF Swallowed

\* What a token is: behind the place it was looked for at, unless the text ends.
Lexemes(text) == Range(text) \cup
  {"", "END", "INDENT", "NUMBER", "STRING", "[", "]", "="}
TokenAt(text, from, tok) ==
  /\ tok = Token(tok.type, tok.word, tok.end)
  /\ tok.type \in Lexemes(text) /\ tok.word \in Lexemes(text)
    /\ tok.end \in from .. Len(text) + 1
  /\ tok.type # "END" => tok.end > from
  /\ tok.type = "NUMBER" => tok.word \in DOMAIN Integer

LEMMA IsToken ==
  ASSUME NEW text, IsText(text), NEW from \in 1 .. Len(text) + 1,
         NEW type \in Lexemes(text), NEW word \in Lexemes(text),
         NEW end \in from .. Len(text) + 1,
         type = "END" \/ end > from,
         type = "NUMBER" => word \in DOMAIN Integer
  PROVE  TokenAt(text, from, Token(type, word, end))
BY TextIs DEF TokenAt, Token

LEMMA GetStringIs ==
  ASSUME NEW text, IsText(text), NEW p \in 1 .. Len(text) + 1,
         NEW from \in 1 .. p,
         from < p \/ (p <= Len(text) /\ text[p] # "nl")
  PROVE  TokenAt(text, from, get_string(text, p))
<1>1. Len(text) \in Nat /\ \A i \in 1 .. Len(text) : text[i] \in Lexemes(text)
  BY TextIs DEF Lexemes, Range
<1>0. from \in 1 .. Len(text) + 1
  BY <1>1
<1>2. CASE p > Len(text) \/ text[p] = "nl"
  <2>1. get_string(text, p) = Token("STRING", "", p)
    BY <1>2 DEF get_string
  <2>2. p \in from .. Len(text) + 1 /\ p > from
    BY <1>1, <1>2
  <2>3. "STRING" \in Lexemes(text) /\ "" \in Lexemes(text)
    BY DEF Lexemes
  <2>4. QED
    BY <1>0, <2>1, <2>2, <2>3, IsToken
<1>3. CASE ~(p > Len(text) \/ text[p] = "nl")
  <2>1. /\ p + 1 \in from .. Len(text) + 1 /\ p + 1 > from
        /\ text[p] \in Lexemes(text)
    BY <1>1, <1>3
  <2>2. PICK type \in Lexemes(text) :
          /\ get_string(text, p) = Token(type, text[p], p + 1)
          /\ type = "NUMBER" => text[p] \in DOMAIN Integer
    <3>1. CASE text[p] \in Keyword
      <4>1. get_string(text, p) = Token(text[p], text[p], p + 1)
        BY <1>3, <3>1 DEF get_string
      <4>2. text[p] # "NUMBER"
        BY <3>1 DEF Keyword, Names, Tools, Hosts
      <4>3. QED
        <5>1. \E type \in Lexemes(text) : type = text[p]
          BY <2>1
        <5>2. QED
          BY <4>1, <4>2, <5>1
    <3>2. CASE text[p] \notin Keyword /\ text[p] \in DOMAIN Integer
      <4>1. get_string(text, p) = Token("NUMBER", text[p], p + 1)
        BY <1>3, <3>2 DEF get_string
      <4>2. QED
        BY <3>2, <4>1 DEF Lexemes
    <3>3. CASE text[p] \notin Keyword /\ text[p] \notin DOMAIN Integer
      <4>1. get_string(text, p) = Token("STRING", text[p], p + 1)
        BY <1>3, <3>3 DEF get_string
      <4>2. "STRING" \in Lexemes(text) /\ "STRING" # "NUMBER"
        BY DEF Lexemes
      <4>3. QED
        BY <4>1, <4>2
    <3>4. QED
      BY <3>1, <3>2, <3>3
  <2>3. QED
    BY <1>0, <2>1, <2>2, IsToken
<1>4. QED
  BY <1>2, <1>3

\* One turn of the loop: a token, or on from a place further behind.
LEMMA TurnIs ==
  ASSUME NEW text, IsText(text), NEW p \in 1 .. Len(text) + 1,
         NEW new_line \in BOOLEAN
  PROVE  \/ \E tok : /\ TokenAt(text, p, tok)
                     /\ \A loop : Turn(text, p, new_line, loop) = tok
         \/ \E n \in p + 1 .. Len(text) + 1 :
              \A loop : Turn(text, p, new_line, loop) = loop[<<n, TRUE>>]
<1> DEFINE end == Len(text) + 1
           q == Swallowed(text, p)
           at == IF q = end THEN "" ELSE text[q]
           indented == q # p /\ new_line /\ q # end
           comment == at = "#" /\ ~indented
           turn(loop) == Turn(text, p, new_line, loop)
           Is(tok) == TokenAt(text, p, tok) /\ \A loop : turn(loop) = tok
           GoesOn(n) == n \in p + 1 .. end
                        /\ \A loop : turn(loop) = loop[<<n, TRUE>>]
<1>1. Len(text) \in Nat /\ end \in p .. end /\ end \in Nat
  BY TextIs
<1>2. q \in p .. end /\ q \in 1 .. end /\ p \in 1 .. q
  BY <1>1, SwallowedIs
<1>3. upto(text, q) = 0 \/ upto(text, q) \in q + 1 .. end
  BY <1>2, UptoIs
<1>4. \A loop : turn(loop) =
        CASE p = end -> Token("END", "", end)
          [] p # end /\ text[p] = "nl" -> loop[<<p + 1, TRUE>>]
          [] indented /\ at \in {"nl", "#"} -> loop[<<q, TRUE>>]
          [] indented /\ at \notin {"nl", "#"} -> Token("INDENT", "", q)
          [] comment /\ upto(text, q) = 0 -> Token("END", "", end)
          [] comment /\ upto(text, q) # 0 -> loop[<<upto(text, q), TRUE>>]
          [] ~indented /\ at \in {"[", "]", "="} -> Token(at, at, q + 1)
          [] OTHER -> get_string(text, q)
  BY DEF Turn
<1>5. p = end => q = p /\ at = "" /\ ~indented
  <2>1. SUFFICES ASSUME p = end PROVE q = p
    OBVIOUS
  <2>2. ~(p <= Len(text))
    BY <1>1, <2>1
  <2>3. QED
    BY <2>2 DEF Swallowed
<1>6. p # end /\ text[p] = "nl" => q = p /\ at = "nl" /\ ~indented
  BY <1>1 DEF Swallowed
<1>7. p # end /\ text[p] # "nl" => TokenAt(text, p, get_string(text, q))
  <2>1. SUFFICES ASSUME p # end, text[p] # "nl"
                 PROVE  p < q \/ (q <= Len(text) /\ text[q] # "nl")
    BY <1>2, GetStringIs
  <2>2. QED
    BY <1>1, <1>2, <2>1
<1>8. indented => q \in p + 1 .. end
  BY <1>1, <1>2
<1>9. at \in {"[", "]", "="} => q # end
  OBVIOUS
<1>a. at \in {"[", "]", "="} => at \in Lexemes(text) /\ at # "NUMBER"
  BY DEF Lexemes
<1>b. {"END", "", "INDENT"} \subseteq Lexemes(text)
  BY DEF Lexemes
<1>c. p \in 1 .. Len(text) + 1
  OBVIOUS
<1>d. TokenAt(text, p, Token("END", "", end))
  BY <1>1, <1>b, IsToken
<1>e. SUFFICES (\E tok : Is(tok)) \/ (\E n : GoesOn(n))
  OBVIOUS
<1> HIDE DEF turn, q, at, indented, end
<1>11. CASE p = end
  <2>1. \A loop : turn(loop) = Token("END", "", end)
    BY <1>4, <1>5, <1>11
  <2>2. Is(Token("END", "", end))
    BY <1>d, <2>1
  <2>3. QED
    BY <2>2
<1>12. CASE p # end /\ text[p] = "nl"
  <2>1. \A loop : turn(loop) = loop[<<p + 1, TRUE>>]
    BY <1>4, <1>6, <1>12
  <2>2. p + 1 \in p + 1 .. end
    BY <1>1, <1>12
  <2>3. GoesOn(p + 1)
    BY <2>1, <2>2
  <2>4. QED
    BY <2>3
<1>13. CASE p # end /\ text[p] # "nl" /\ indented
  <2>1. CASE at \in {"nl", "#"}
    <3>1. \A loop : turn(loop) = loop[<<q, TRUE>>]
      BY <1>4, <1>13, <2>1
    <3>2. GoesOn(q)
      BY <1>8, <1>13, <3>1
    <3>3. QED
      BY <3>2
  <2>2. CASE at \notin {"nl", "#"}
    <3>1. \A loop : turn(loop) = Token("INDENT", "", q)
      BY <1>4, <1>13, <2>2
    <3>2. q \in p .. end /\ q > p
      BY <1>1, <1>2, <1>8, <1>13
    <3>3. TokenAt(text, p, Token("INDENT", "", q))
      BY <1>b, <3>2, IsToken DEF end
    <3>4. Is(Token("INDENT", "", q))
      BY <3>1, <3>3
    <3>5. QED
      BY <3>4
  <2>3. QED
    BY <2>1, <2>2
<1>14. CASE p # end /\ text[p] # "nl" /\ ~indented
  <2>1. CASE at = "#" /\ upto(text, q) = 0
    <3>1. \A loop : turn(loop) = Token("END", "", end)
      BY <1>4, <1>14, <2>1
    <3>2. Is(Token("END", "", end))
      BY <1>d, <3>1
    <3>3. QED
      BY <3>2
  <2>2. CASE at = "#" /\ upto(text, q) # 0
    <3>1. \A loop : turn(loop) = loop[<<upto(text, q), TRUE>>]
      BY <1>4, <1>14, <2>2
    <3>2. upto(text, q) \in p + 1 .. end
      BY <1>1, <1>2, <1>3, <2>2
    <3>3. GoesOn(upto(text, q))
      BY <3>1, <3>2
    <3>4. QED
      BY <3>3
  <2>3. CASE at \in {"[", "]", "="}
    <3>1. \A loop : turn(loop) = Token(at, at, q + 1)
      BY <1>4, <1>14, <2>3
    <3>2. q + 1 \in p .. end /\ q + 1 > p
      BY <1>1, <1>2, <1>9, <2>3
    <3>3. TokenAt(text, p, Token(at, at, q + 1))
      BY <1>a, <2>3, <3>2, IsToken DEF end
    <3>4. Is(Token(at, at, q + 1))
      BY <3>1, <3>3
    <3>5. QED
      BY <3>4
  <2>4. CASE at \notin {"#", "[", "]", "="}
    <3>1. \A loop : turn(loop) = get_string(text, q)
      BY <1>4, <1>14, <2>4
    <3>2. Is(get_string(text, q))
      BY <1>7, <1>14, <3>1
    <3>3. QED
      BY <3>2
  <2>5. QED
    BY <2>1, <2>2, <2>3, <2>4
<1>15. QED
  BY <1>11, <1>12, <1>13, <1>14

\* So the loop ends: the recursion of peek_token has a solution.
LoopOf(text, loop) ==
  /\ \A p \in 1 .. Len(text) + 1, b \in BOOLEAN :
       loop[<<p, b>>] = Turn(text, p, b, loop)
  /\ \A from \in 1 .. Len(text) + 1 :
       peek_token(text, from) = loop[<<from, from = 1>>]

LEMMA LoopIs ==
  ASSUME NEW text, IsText(text)
  PROVE  \E loop : LoopOf(text, loop)
<1> DEFINE end == Len(text) + 1
           D == (1 .. end) \X BOOLEAN
           V == [type : Lexemes(text), word : Lexemes(text), end : 1 .. end]
           rank == [s \in D |-> end - s[1]]
           H == [x \in D \X [D -> V] |->
                   Turn(text, x[1][1], x[1][2], x[2])]
           Loop(f) == f = [s \in D |-> Turn(text, s[1], s[2], f)]
           loop == CHOOSE f : Loop(f)
<1>1. Len(text) \in Nat /\ end \in Nat \ {0}
  BY TextIs
<1>2. \A p \in 1 .. end : \A tok : TokenAt(text, p, tok) => tok \in V
  BY <1>1 DEF TokenAt, Token
<1>3. \A s \in D :
        \/ \E tok \in V : \A f : Turn(text, s[1], s[2], f) = tok
        \/ \E n \in s[1] + 1 .. end :
             \A f : Turn(text, s[1], s[2], f) = f[<<n, TRUE>>]
  BY <1>2, TurnIs
<1>4. H \in [D \X [D -> V] -> V]
  <2>1. SUFFICES ASSUME NEW s \in D, NEW f \in [D -> V]
                 PROVE  Turn(text, s[1], s[2], f) \in V
    OBVIOUS
  <2>2. ASSUME NEW n \in s[1] + 1 .. end PROVE <<n, TRUE>> \in D
    <3>1. s[1] \in 1 .. end
      OBVIOUS
    <3>2. n \in 1 .. end
      BY <1>1, <3>1
    <3>3. QED
      BY <3>2
  <2> HIDE DEF V, D
  <2>3. \A n \in s[1] + 1 .. end : f[<<n, TRUE>>] \in V
    BY <2>2
  <2>4. QED
    BY <1>3, <2>3
<1>5. ASSUME NEW s \in D, NEW f \in [D -> V], NEW g \in [D -> V],
             \A t \in D : rank[t] < rank[s] => f[t] = g[t]
      PROVE  H[<<s, f>>] = H[<<s, g>>]
  <2>1. \A n \in s[1] + 1 .. end : f[<<n, TRUE>>] = g[<<n, TRUE>>]
    <3>1. SUFFICES ASSUME NEW n \in s[1] + 1 .. end
                   PROVE  f[<<n, TRUE>>] = g[<<n, TRUE>>]
      OBVIOUS
    <3>2. s[1] \in 1 .. end /\ n \in 1 .. end /\ end - n < end - s[1]
      BY <1>1
    <3>3. <<n, TRUE>> \in D
      BY <3>2
    <3>4. rank[<<n, TRUE>>] = end - n /\ rank[s] = end - s[1]
      BY <3>3
    <3>5. QED
      BY <1>5, <3>2, <3>3, <3>4
  <2>2. /\ H[<<s, f>>] = Turn(text, s[1], s[2], f)
        /\ H[<<s, g>>] = Turn(text, s[1], s[2], g)
    OBVIOUS
  <2> HIDE DEF H, V, D, rank
  <2>3. QED
    BY <1>3, <2>1, <2>2
<1>6. Solvable(D, V, H)
  <2>1. rank \in [D -> 0 .. end] /\ V # {}
    <3>1. rank \in [D -> 0 .. end]
      BY <1>1
    <3>2. [type |-> "", word |-> "", end |-> 1] \in V
      BY <1>1 DEF Lexemes
    <3>3. QED
      BY <3>1, <3>2
  <2> HIDE DEF V, D, rank, H
  <2>2. Descends(D, V, end, rank, H)
    BY <1>1, <1>4, <1>5, <2>1 DEF Descends
  <2>3. QED
    BY <2>2, RecursionDefines
<1>7. Loop(loop)
  <2>1. PICK f \in [D -> V] : \A s \in D : f[s] = H[<<s, f>>]
    BY <1>6 DEF Solvable
  <2>2. \A s \in D : H[<<s, f>>] = Turn(text, s[1], s[2], f)
    OBVIOUS
  <2> HIDE DEF H, V, D
  <2>3. f = [s \in D |-> Turn(text, s[1], s[2], f)]
    BY <2>1, <2>2
  <2>4. QED
    BY <2>3
<1>8. \A from \in 1 .. end : peek_token(text, from) = loop[<<from, from = 1>>]
  BY DEF peek_token
<1>9. \A p \in 1 .. end, b \in BOOLEAN :
        loop[<<p, b>>] = Turn(text, p, b, loop)
  <2> HIDE DEF loop
  <2>1. QED
    BY <1>7
<1> HIDE DEF loop
<1>10. QED
  BY <1>8, <1>9 DEF LoopOf

\* What peek_token returns is a token, and lies behind the place where it was
\* looked for unless the text ends there.
LEMMA PeekIs ==
  ASSUME NEW text, IsText(text), NEW from \in 1 .. Len(text) + 1
  PROVE  TokenAt(text, from, peek_token(text, from))
<1> DEFINE end == Len(text) + 1
<1>1. Len(text) \in Nat /\ end \in Nat \ {0}
  BY TextIs
<1>2. PICK loop : LoopOf(text, loop)
  BY LoopIs
<1>8. peek_token(text, from) = loop[<<from, from = 1>>]
  BY <1>2 DEF LoopOf
<1> DEFINE Good(k) == \A p \in 1 .. end : \A b \in BOOLEAN :
                        end - p <= k => TokenAt(text, p, loop[<<p, b>>])
           T == {k \in Nat : Good(k)}
<1>9. \A p \in 1 .. end, b \in BOOLEAN :
        loop[<<p, b>>] = Turn(text, p, b, loop)
  BY <1>2 DEF LoopOf
<1>10. \A p \in 1 .. end : \A n \in p + 1 .. end : \A tok :
         TokenAt(text, n, tok) => TokenAt(text, p, tok)
  BY <1>1 DEF TokenAt
<1>11. ASSUME NEW p \in 1 .. end, NEW b \in BOOLEAN,
              \A n \in p + 1 .. end : TokenAt(text, n, loop[<<n, TRUE>>])
       PROVE  TokenAt(text, p, loop[<<p, b>>])
  <2>1. CASE \E tok : /\ TokenAt(text, p, tok)
                      /\ \A f : Turn(text, p, b, f) = tok
    BY <1>9, <2>1
  <2>2. CASE \E n \in p + 1 .. end : \A f : Turn(text, p, b, f) = f[<<n, TRUE>>]
    BY <1>9, <1>10, <1>11, <2>2
  <2>3. QED
    BY <2>1, <2>2, TurnIs
<1>12. 0 \in T
  <2>1. SUFFICES ASSUME NEW p \in 1 .. end, NEW b \in BOOLEAN, end - p <= 0
                 PROVE  TokenAt(text, p, loop[<<p, b>>])
    OBVIOUS
  <2>2. p + 1 .. end = {}
    BY <1>1, <2>1
  <2>3. QED
    BY <1>11, <2>2
<1>13. ASSUME NEW k \in Nat, k \in T PROVE k + 1 \in T
  <2>1. SUFFICES ASSUME NEW p \in 1 .. end, NEW b \in BOOLEAN, end - p <= k + 1
                 PROVE  TokenAt(text, p, loop[<<p, b>>])
    OBVIOUS
  <2>2. \A n \in p + 1 .. end : end - n <= k /\ n \in 1 .. end
    BY <1>1, <2>1
  <2>3. \A n \in p + 1 .. end : TokenAt(text, n, loop[<<n, TRUE>>])
    BY <1>13, <2>2
  <2>4. QED
    BY <1>11, <2>3
<1>14. end \in T
  <2> HIDE DEF T
  <2>1. QED
    BY <1>1, <1>12, <1>13, Induction
<1>15. end - from <= end
  BY <1>1
<1>16. QED
  BY <1>8, <1>14, <1>15

-----------------------------------------------------------------------------
(* Values.                                                                 *)

\* The token behind another one lies behind what that one lies behind.
LEMMA Further ==
  ASSUME NEW text, IsText(text), NEW from \in 1 .. Len(text) + 1,
         NEW tok, TokenAt(text, from, tok)
  PROVE  /\ tok.end \in 1 .. Len(text) + 1
         /\ tok.type # "END" => tok.end \in from + 1 .. Len(text) + 1
         /\ TokenAt(text, tok.end, peek_token(text, tok.end))
<1>1. Len(text) \in Nat
  BY TextIs
<1>2. tok.end \in from .. Len(text) + 1 /\ (tok.type # "END" => tok.end > from)
  BY DEF TokenAt
<1>3. tok.end \in 1 .. Len(text) + 1
  BY <1>1, <1>2
<1>4. QED
  BY <1>1, <1>2, <1>3, PeekIs

\* A value that is given lies behind the instruction it is given to.
LEMMA GetValueIs ==
  ASSUME NEW text, IsText(text), NEW from \in 1 .. Len(text) + 1
  PROVE  LET tok == get_value(text, from)
         IN tok.type = "NONE" \/ tok.end \in from + 1 .. Len(text) + 1
<1> DEFINE tok == peek_token(text, from)
           next == peek_token(text, tok.end)
<1>1. Len(text) \in Nat
  BY TextIs
<1>2. TokenAt(text, from, tok)
  BY PeekIs
<1>3. CASE tok.type = "="
  <2>1. get_value(text, from) = next
    BY <1>3 DEF get_value
  <2>2. tok.end \in from + 1 .. Len(text) + 1 /\ TokenAt(text, tok.end, next)
    BY <1>2, <1>3, Further
  <2>3. next.end \in tok.end .. Len(text) + 1
    BY <2>2 DEF TokenAt
  <2>4. next.end \in from + 1 .. Len(text) + 1
    BY <1>1, <2>2, <2>3
  <2>5. QED
    BY <2>1, <2>4
<1>4. CASE tok.type # "="
  <2>1. get_value(text, from) = Token("NONE", "", from)
    BY <1>4 DEF get_value
  <2>2. Token("NONE", "", from).type = "NONE"
    BY DEF Token
  <2>3. QED
    BY <2>1, <2>2
<1>5. QED
  BY <1>3, <1>4

\* What a read that succeeds yields: how far it read, and a value.
Reads(text, from, read) ==
  read.ok => /\ read.end \in from + 1 .. Len(text) + 1
             /\ AtMostOne(read.value)
ReadsNumber(text, from, read, min, max) ==
  read.ok => /\ read.end \in from + 1 .. Len(text) + 1
             /\ read.value \in min .. max

LEMMA ReadSucceeds ==
  ASSUME NEW text, NEW from, NEW end \in from + 1 .. Len(text) + 1
  PROVE  /\ \A value : AtMostOne(value) => Reads(text, from, Read(TRUE, value, end))
         /\ \A min, max : \A value \in min .. max :
              ReadsNumber(text, from, Read(TRUE, value, end), min, max)
<1>1. \A value : /\ Read(TRUE, value, end).value = value
                 /\ Read(TRUE, value, end).end = end
  BY DEF Read
<1>2. QED
  BY <1>1 DEF Reads, ReadsNumber

LEMMA ReadFails ==
  ASSUME NEW text, NEW from, NEW value, NEW end
  PROVE  /\ Reads(text, from, Read(FALSE, value, end))
         /\ \A min, max :
              ReadsNumber(text, from, Read(FALSE, value, end), min, max)
<1>1. Read(FALSE, value, end).ok = FALSE
  BY DEF Read
<1>2. QED
  BY <1>1 DEF Reads, ReadsNumber

LEMMA ToIntIs ==
  ASSUME NEW text, IsText(text), NEW from \in 1 .. Len(text) + 1,
         NEW min, NEW max
  PROVE  LET read == to_int(get_value(text, from), min, max)
         IN ReadsNumber(text, from, read, min, max)
<1> DEFINE tok == get_value(text, from)
<1>1. CASE tok.type = "NUMBER" /\ Integer[tok.word] \in min .. max
  <2>1. to_int(tok, min, max) = Read(TRUE, Integer[tok.word], tok.end)
    BY <1>1 DEF to_int
  <2>2. tok.end \in from + 1 .. Len(text) + 1
    BY <1>1, GetValueIs
  <2>3. QED
    BY <1>1, <2>1, <2>2, ReadSucceeds, ReadFails
<1>2. CASE ~(tok.type = "NUMBER" /\ Integer[tok.word] \in min .. max)
  <2>1. to_int(tok, min, max) = Read(FALSE, 0, tok.end)
    BY <1>2 DEF to_int
  <2>2. QED
    BY <2>1, ReadSucceeds, ReadFails
<1>3. QED
  BY <1>1, <1>2

LEMMA GetPathIs ==
  ASSUME NEW text, IsText(text), NEW from \in 1 .. Len(text) + 1
  PROVE  /\ Reads(text, from, get_path(text, from))
         /\ \E path : get_path(text, from).value = {path}
<1> DEFINE tok == get_value(text, from)
           read == get_path(text, from)
           path == Expanded(tok.word)
<1>1. read = Read(tok.type = "STRING", {path}, tok.end)
  BY DEF get_path
<1>2. tok.type = "STRING" => tok.end \in from + 1 .. Len(text) + 1
  BY GetValueIs
<1>3. Reads(text, from, read)
  <2> HIDE DEF tok, read
  <2>1. QED
    BY <1>1, <1>2, ReadSucceeds, ReadFails DEF AtMostOne
<1>4. \A ok : Read(ok, {path}, tok.end).value = {path}
  BY DEF Read
<1>5. QED
  BY <1>1, <1>3, <1>4

LEMMA GetOptionalPathIs ==
  ASSUME NEW text, IsText(text), NEW from \in 1 .. Len(text) + 1
  PROVE  Reads(text, from, get_optional_path(text, from))
<1> DEFINE tok == peek_token(text, from)
<1>1. CASE tok.type = "disable"
  <2>1. get_optional_path(text, from) = Read(TRUE, {}, tok.end)
    BY <1>1 DEF get_optional_path
  <2>2. tok.end \in from + 1 .. Len(text) + 1
    BY <1>1, PeekIs, Further
  <2>3. QED
    BY <2>1, <2>2, ReadSucceeds, ReadFails DEF AtMostOne
<1>2. CASE tok.type # "disable"
  <2>1. get_optional_path(text, from) = get_path(text, from)
    BY <1>2 DEF get_optional_path
  <2>2. QED
    BY <2>1, GetPathIs
<1>3. QED
  BY <1>1, <1>2

\* The rest of a line is read up to its line end, not with it.
LEMMA GetToEolIs ==
  ASSUME NEW text, IsText(text), NEW from \in 1 .. Len(text) + 1
  PROVE  Reads(text, from, get_to_eol(text, from))
<1> DEFINE tok == peek_token(text, from)
           start == Swallowed(text, tok.end)
           next == upto(text, start)
           read == get_to_eol(text, from)
<1>1. Len(text) \in Nat
  BY TextIs
<1>2. /\ tok.end \in 1 .. Len(text) + 1
      /\ tok.type # "END" => tok.end \in from + 1 .. Len(text) + 1
  BY PeekIs, Further
<1>3. start \in tok.end .. Len(text) + 1
  BY <1>2, SwallowedIs
<1>4. start \in 1 .. Len(text) + 1
  BY <1>1, <1>2, <1>3
<1>5. next = 0 \/ next \in start + 1 .. Len(text) + 1
  BY <1>4, UptoIs
<1>6. CASE tok.type = "disable"
  <2>1. read = Read(TRUE, {}, tok.end)
    BY <1>6 DEF get_to_eol
  <2>2. QED
    BY <1>2, <1>6, <2>1, ReadSucceeds, ReadFails DEF AtMostOne
<1>7. CASE tok.type = "=" /\ next # 0
  <2>1. read = Read(TRUE, {SubSeq(text, start, next - 2)}, next - 1)
    BY <1>7 DEF get_to_eol
  <2>2. next - 1 \in from + 1 .. Len(text) + 1
    BY <1>1, <1>2, <1>3, <1>4, <1>5, <1>7
  <2>3. QED
    BY <2>1, <2>2, ReadSucceeds, ReadFails DEF AtMostOne
<1>8. CASE tok.type # "disable" /\ ~(tok.type = "=" /\ next # 0)
  <2>1. read = Read(FALSE, {}, tok.end)
    BY <1>8 DEF get_to_eol
  <2>2. QED
    BY <2>1, ReadSucceeds, ReadFails
<1>9. QED
  BY <1>6, <1>7, <1>8

-----------------------------------------------------------------------------
(* What is being read.                                                     *)

\* The conjuncts of Nested, of any sequence of readers.
Kinds == {"file", "section", "fragment"}
ReaderAt(s, i) ==
  /\ DOMAIN s[i] = {"text", "at", "in"}
  /\ IsText(s[i].text)
  /\ s[i].in \in Kinds
  /\ s[i].at \in 1 .. Len(s[i].text) + 1
  /\ s[i].in = "fragment" => i > 1 /\ s[i - 1].in # "file"
  /\ s[i].in # "fragment" => \A j \in 1 .. i - 1 : s[j].in = "file"
Readers(s) ==
  /\ s \in Seq(Range(s)) /\ Len(s) \in Nat /\ DOMAIN s = 1 .. Len(s)
  /\ \A i \in 1 .. Len(s) : ReaderAt(s, i)

LEMMA NestedIs == (Nested <=> Readers(stack)) /\ (Nested' <=> Readers(stack'))
<1>1. ASSUME NEW s, s \in Seq(Range(s))
      PROVE  Len(s) \in Nat /\ DOMAIN s = 1 .. Len(s)
  BY <1>1, LenProperties
<1>2. Nested <=> Readers(stack)
  BY <1>1 DEF Nested, Readers, ReaderAt, Kinds
<1>3. Nested' <=> Readers(stack')
  BY <1>1 DEF Nested, Readers, ReaderAt, Kinds
<1>4. QED
  BY <1>2, <1>3

LEMMA IsSequence ==
  ASSUME NEW n \in Nat, NEW S, NEW f \in [1 .. n -> S]
  PROVE  f \in Seq(Range(f)) /\ Len(f) = n
<1>1. f \in [1 .. n -> Range(f)]
  BY DEF Range
<1>2. f \in Seq(Range(f))
  BY <1>1, SeqDef
<1>3. QED
  BY <1>1, <1>2, LenProperties

\* A sequence that differs from another in its last member.
Replaced(s, r) == [s EXCEPT ![Len(s)] = r]
LastIs(s, t, r) ==
  /\ t \in Seq(Range(t)) /\ Len(t) = Len(s)
  /\ \A i \in 1 .. Len(s) - 1 : t[i] = s[i]
  /\ t[Len(s)] = r

LEMMA ReplacedIs ==
  ASSUME NEW s, s \in Seq(Range(s)), Len(s) \in Nat \ {0}, NEW r
  PROVE  LastIs(s, Replaced(s, r), r)
<1> DEFINE n == Len(s)
           t == Replaced(s, r)
<1>1. s \in [1 .. n -> Range(s)] /\ n \in Nat \ {0}
  BY LenProperties
<1>2. t = [i \in 1 .. n |-> IF i = n THEN r ELSE s[i]]
  BY <1>1 DEF Replaced
<1> HIDE DEF t, n
<1>3. \A i \in 1 .. n : t[i] = IF i = n THEN r ELSE s[i]
  BY <1>2
<1>4. t \in [1 .. n -> Range(s) \cup {r}]
  BY <1>1, <1>2
<1>5. t \in Seq(Range(t)) /\ Len(t) = n
  BY <1>1, <1>4, IsSequence
<1>6. n \in 1 .. n /\ \A i \in 1 .. n - 1 : i \in 1 .. n /\ i # n
  BY <1>1
<1>7. t[n] = r /\ \A i \in 1 .. n - 1 : t[i] = s[i]
  BY <1>3, <1>6
<1>8. LastIs(s, t, r)
  BY <1>5, <1>7 DEF n, LastIs
<1>9. QED
  BY <1>8 DEF t

LEMMA Below ==
  ASSUME NEW n \in Nat, NEW i \in 1 .. n
  PROVE  /\ 1 .. i - 1 \subseteq 1 .. n - 1 /\ (i > 1 => i - 1 \in 1 .. n - 1)
         /\ i # n => i \in 1 .. n - 1
OBVIOUS

\* The innermost reader may move, and become a section of its file or end one.
LEMMA Moved ==
  ASSUME NEW s, Readers(s), s # <<>>, NEW t, NEW r, LastIs(s, t, r),
         DOMAIN r = {"text", "at", "in"},
         r.text = s[Len(s)].text,
         r.at \in 1 .. Len(s[Len(s)].text) + 1,
         r.in \in Kinds,
         r.in = "fragment" <=> s[Len(s)].in = "fragment"
  PROVE  Readers(t)
<1> DEFINE n == Len(s)
<1>1. n \in Nat /\ DOMAIN s = 1 .. n
  BY DEF Readers
<1>2. t \in Seq(Range(t)) /\ Len(t) = n /\ DOMAIN t = 1 .. n
  BY LenProperties DEF LastIs
<1>3. t[n] = r /\ \A j \in 1 .. n - 1 : t[j] = s[j]
  BY DEF LastIs
<1>4. ASSUME NEW i \in 1 .. n PROVE ReaderAt(t, i)
  <2>1. ReaderAt(s, i)
    BY <1>4 DEF Readers
  <2>2. /\ 1 .. i - 1 \subseteq 1 .. n - 1 /\ (i > 1 => i - 1 \in 1 .. n - 1)
        /\ i # n => i \in 1 .. n - 1
    BY <1>1, Below
  <2>3. /\ \A j \in 1 .. i - 1 : t[j] = s[j]
        /\ i > 1 => t[i - 1] = s[i - 1]
    BY <1>3, <2>2, Zenon
  <2>4. CASE i # n
    <3>1. t[i] = s[i]
      BY <1>3, <2>2, <2>4, Zenon
    <3>2. QED
      BY <2>1, <2>3, <3>1 DEF ReaderAt
  <2>5. CASE i = n
    BY <1>3, <2>1, <2>3, <2>5 DEF ReaderAt
  <2>6. QED
    BY <2>4, <2>5
<1>5. QED
  BY <1>1, <1>2, <1>4 DEF Readers

\* A file may be read inside a file, and a fragment inside what is not a file.
LEMMA Included ==
  ASSUME NEW s, Readers(s), s # <<>>, NEW r,
         DOMAIN r = {"text", "at", "in"}, IsText(r.text), r.at = 1,
         \/ r.in = "file" /\ s[Len(s)].in = "file"
         \/ r.in = "fragment" /\ s[Len(s)].in # "file"
  PROVE  /\ Readers(Append(s, r)) /\ Len(Append(s, r)) = Len(s) + 1
         /\ \A i \in 1 .. Len(s) : Append(s, r)[i] = s[i]
<1> DEFINE n == Len(s)
           t == Append(s, r)
<1>1. n \in Nat /\ DOMAIN s = 1 .. n /\ s \in Seq(Range(s))
  BY DEF Readers
<1>2. n # 0
  BY <1>1
<1>3. s \in Seq(Range(s) \cup {r})
  BY <1>1, SeqMonotonic
<1>4. /\ t \in Seq(Range(s) \cup {r}) /\ Len(t) = n + 1
      /\ \A i \in 1 .. n : t[i] = s[i]
      /\ t[n + 1] = r
  BY <1>3, AppendProperties
<1>5. DOMAIN t = 1 .. n + 1 /\ t \in [1 .. n + 1 -> Range(s) \cup {r}]
  <2>1. DOMAIN t = 1 .. Len(t) /\ t \in [1 .. Len(t) -> Range(s) \cup {r}]
    <3> HIDE DEF t
    <3>1. QED
      BY <1>4, LenProperties
  <2>2. QED
    BY <1>4, <2>1
<1> HIDE DEF t, n
<1>6. t \in Seq(Range(t))
  <2>1. n + 1 \in Nat
    BY <1>1 DEF n
  <2>2. QED
    BY <1>5, <2>1, IsSequence
<1>7. ASSUME NEW i \in 1 .. n PROVE ReaderAt(t, i)
  <2>1. ReaderAt(s, i)
    BY DEF Readers, n
  <2>2. \A j \in 1 .. i : t[j] = s[j]
    BY <1>1, <1>4 DEF n
  <2>3. t[i] = s[i] /\ (i > 1 => t[i - 1] = s[i - 1])
    BY <1>1, <2>2 DEF n
  <2>4. \A j \in 1 .. i - 1 : t[j] = s[j]
    BY <1>1, <2>2 DEF n
  <2>5. QED
    BY <2>1, <2>3, <2>4 DEF ReaderAt
<1>8. ReaderAt(t, n + 1)
  <2>1. ReaderAt(s, n)
    BY <1>1, <1>2 DEF Readers, n
  <2>2. t[n] = s[n] /\ (n + 1) - 1 = n /\ n + 1 > 1
    BY <1>1, <1>2, <1>4 DEF n
  <2>3. Len(r.text) \in Nat
    BY TextIs
  <2>4. CASE r.in = "fragment" /\ s[n].in # "file"
    BY <1>4, <2>2, <2>3, <2>4 DEF ReaderAt, Kinds
  <2>5. CASE r.in = "file" /\ s[n].in = "file"
    <3>1. \A j \in 1 .. n - 1 : t[j].in = "file"
      BY <1>1, <1>4, <2>1, <2>5 DEF ReaderAt, n
    <3>2. \A j \in 1 .. n : t[j].in = "file"
      BY <1>1, <2>2, <2>5, <3>1 DEF n
    <3>3. QED
      BY <1>4, <2>2, <2>3, <2>5, <3>2 DEF ReaderAt, Kinds
  <2>6. QED
    BY <2>4, <2>5 DEF n
<1>9. \A i \in 1 .. n + 1 : ReaderAt(t, i)
  BY <1>1, <1>7, <1>8 DEF n
<1>10. QED
  BY <1>1, <1>4, <1>5, <1>6, <1>9 DEF Readers, t, n

\* The innermost reader may end.
LEMMA Ended ==
  ASSUME NEW s, Readers(s), s # <<>>
  PROVE  Readers(Front(s))
<1> DEFINE n == Len(s)
           t == Front(s)
<1>1. n \in Nat /\ DOMAIN s = 1 .. n /\ s \in Seq(Range(s))
  BY DEF Readers
<1>2. n # 0
  BY <1>1
<1>3. t = [i \in 1 .. n - 1 |-> s[i]]
  BY <1>1, <1>2 DEF Front
<1>4. n - 1 \in Nat /\ \A i \in 1 .. n - 1 : t[i] = s[i]
  BY <1>1, <1>2, <1>3
<1>5. DOMAIN t = 1 .. n - 1 /\ t \in [1 .. n - 1 -> Range(s)]
  BY <1>1, <1>3, <1>4 DEF Range
<1>6. t \in Seq(Range(t)) /\ Len(t) = n - 1
  BY <1>4, <1>5, IsSequence
<1>7. ASSUME NEW i \in 1 .. n - 1 PROVE ReaderAt(t, i)
  <2>1. i \in 1 .. n /\ ReaderAt(s, i)
    BY <1>1 DEF Readers
  <2>2. \A j \in 1 .. i : t[j] = s[j]
    BY <1>1, <1>4
  <2>3. t[i] = s[i] /\ (i > 1 => t[i - 1] = s[i - 1])
    BY <1>1, <2>2
  <2>4. \A j \in 1 .. i - 1 : t[j] = s[j]
    BY <1>1, <2>2
  <2>5. QED
    BY <2>1, <2>3, <2>4 DEF ReaderAt
<1>8. QED
  BY <1>4, <1>5, <1>6, <1>7 DEF Readers

-----------------------------------------------------------------------------
(* The settings.                                                           *)

Fields == {"name", "verbose", "nice", "cpus", "no_parallel", "names", "ccache",
  "distcc", "distcc_hosts", "distcplusplus_hosts_set", "distcplusplus_hosts",
  "make_add", "env_add", "lock_fd", "lock_file"}

LEMMA FieldsAre == DOMAIN get_default = Fields
BY DEF get_default, Fields

LEMMA DefaultSettings == Settings(get_default)
<1>1. \A n \in Names : get_default.names[n] = {}
  BY DEF get_default
<1>2. /\ get_default.verbose = FALSE /\ get_default.nice = 10
      /\ get_default.cpus = 1 /\ get_default.distcplusplus_hosts_set = FALSE
      /\ DOMAIN get_default.names = Names
  BY DEF get_default
<1>3. /\ get_default.name = {} /\ get_default.ccache = {}
      /\ get_default.distcc = {} /\ get_default.no_parallel = {}
      /\ get_default.distcc_hosts = {} /\ get_default.distcplusplus_hosts = {}
  BY DEF get_default
<1>4. get_default.lock_fd = Config /\ get_default.lock_file = {}
  BY DEF get_default
<1>5. 10 \in -19 .. 20 /\ 1 \in 1 .. MaxCpus
  <2>1. MaxCpus \in Int /\ 1 <= MaxCpus
    BY SMT DEF MaxCpus
  <2>2. QED
    BY <2>1
<1>6. AtMostOne({})
  BY DEF AtMostOne
<1> HIDE DEF get_default
<1>7. QED
  BY <1>1, <1>2, <1>3, <1>4, <1>5, <1>6 DEF Settings

\* A setting that none other depends on.
LEMMA SetOne ==
  ASSUME NEW s, Settings(s), NEW v
  PROVE  /\ AtMostOne(v) => /\ Settings([s EXCEPT !.name = v])
                            /\ Settings([s EXCEPT !.no_parallel = v])
                            /\ Settings([s EXCEPT !.ccache = v])
                            /\ Settings([s EXCEPT !.distcc = v])
         /\ v \in 1 .. MaxCpus => Settings([s EXCEPT !.cpus = v])
         /\ v \in -19 .. 20 => Settings([s EXCEPT !.nice = v])
         /\ Settings([s EXCEPT !.make_add = v])
         /\ Settings([s EXCEPT !.env_add = v])
<1>1. DOMAIN s = Fields
  BY FieldsAre DEF Settings
<1>2. AtMostOne(v) => Settings([s EXCEPT !.name = v])
  BY <1>1 DEF Settings, Fields
<1>3. AtMostOne(v) => Settings([s EXCEPT !.no_parallel = v])
  BY <1>1 DEF Settings, Fields
<1>4. AtMostOne(v) => Settings([s EXCEPT !.ccache = v])
  BY <1>1 DEF Settings, Fields
<1>5. AtMostOne(v) => Settings([s EXCEPT !.distcc = v])
  BY <1>1 DEF Settings, Fields
<1>6. v \in 1 .. MaxCpus => Settings([s EXCEPT !.cpus = v])
  BY <1>1 DEF Settings, Fields
<1>7. v \in -19 .. 20 => Settings([s EXCEPT !.nice = v])
  BY <1>1 DEF Settings, Fields
<1>8. Settings([s EXCEPT !.make_add = v])
  BY <1>1 DEF Settings, Fields
<1>9. Settings([s EXCEPT !.env_add = v])
  BY <1>1 DEF Settings, Fields
<1>10. QED
  BY <1>2, <1>3, <1>4, <1>5, <1>6, <1>7, <1>8, <1>9

LEMMA SetVerbose ==
  ASSUME NEW s, Settings(s)
  PROVE  Settings([s EXCEPT !.verbose = TRUE])
<1>1. DOMAIN s = Fields
  BY FieldsAre DEF Settings
<1>2. QED
  BY <1>1 DEF Settings, Fields

\* The hosts for C are those for C++ until these are given.
LEMMA SetHosts ==
  ASSUME NEW s, Settings(s), NEW v, AtMostOne(v)
  PROVE  /\ Settings([s EXCEPT !.distcc_hosts = v, !.distcplusplus_hosts = v])
         /\ s.distcplusplus_hosts_set => Settings([s EXCEPT !.distcc_hosts = v])
         /\ Settings([s EXCEPT !.distcplusplus_hosts = v,
                               !.distcplusplus_hosts_set = TRUE])
<1>1. DOMAIN s = Fields
  BY FieldsAre DEF Settings
<1>2. Settings([s EXCEPT !.distcc_hosts = v, !.distcplusplus_hosts = v])
  BY <1>1 DEF Settings, Fields
<1>3. s.distcplusplus_hosts_set => Settings([s EXCEPT !.distcc_hosts = v])
  BY <1>1 DEF Settings, Fields
<1>4. Settings([s EXCEPT !.distcplusplus_hosts = v,
                         !.distcplusplus_hosts_set = TRUE])
  BY <1>1 DEF Settings, Fields
<1>5. QED
  BY <1>2, <1>3, <1>4

LEMMA SetProgram ==
  ASSUME NEW s, Settings(s), NEW v, AtMostOne(v), NEW name \in Names
  PROVE  Settings([s EXCEPT !.names[name] = v])
<1> DEFINE t == [s EXCEPT !.names[name] = v]
<1>1. DOMAIN s = Fields
  BY FieldsAre DEF Settings
<1>2. DOMAIN t = Fields /\ \A f \in Fields \ {"names"} : t[f] = s[f]
  BY <1>1
<1>3. t.names = [s.names EXCEPT ![name] = v]
  BY <1>1 DEF Fields
<1>4. DOMAIN t.names = Names /\ \A n \in Names : AtMostOne(t.names[n])
  BY <1>3 DEF Settings
<1> HIDE DEF t
<1>5. Settings(t)
  BY <1>1, <1>2, <1>4, FieldsAre DEF Settings, Fields
<1>6. QED
  BY <1>5 DEF t

LEMMA SetLockFile ==
  ASSUME NEW s, Settings(s), NEW file
  PROVE  Settings([s EXCEPT !.lock_file = {file}, !.lock_fd = file])
<1>1. DOMAIN s = Fields
  BY FieldsAre DEF Settings
<1>2. QED
  BY <1>1 DEF Settings, Fields

-----------------------------------------------------------------------------
(* Steps.                                                                  *)

\* Where a step starts from: the innermost reader and the tokens it is at.
LEMMA PlaceIs ==
  ASSUME TypeOK, stack # <<>>
  PROVE  LET n == Len(stack)
         IN /\ Readers(stack) /\ n \in Nat \ {0} /\ DOMAIN stack = 1 .. n
            /\ Last(stack) = stack[n] /\ ReaderAt(stack, n)
            /\ stack[n].text = Text /\ IsText(Text)
            /\ stack[n].at \in 1 .. Len(Text) + 1
            /\ Peeked.end \in stack[n].at .. Len(Text) + 1
            /\ Peeked.end \in 1 .. Len(Text) + 1
            /\ Peeked.type # "END" => Peeked.end > stack[n].at
            /\ Instruction.end \in Peeked.end .. Len(Text) + 1
            /\ Instruction.end \in 1 .. Len(Text) + 1
<1> DEFINE n == Len(stack)
<1>1. Readers(stack)
  BY NestedIs DEF TypeOK
<1>2. n \in Nat \ {0} /\ DOMAIN stack = 1 .. n
  BY <1>1 DEF Readers
<1>3. Last(stack) = stack[n] /\ ReaderAt(stack, n)
  BY <1>1, <1>2 DEF Last, Readers
<1>4. Text = stack[n].text /\ IsText(Text) /\ stack[n].at \in 1 .. Len(Text) + 1
  BY <1>3 DEF Text, ReaderAt
<1>5. Peeked = peek_token(Text, stack[n].at)
  BY <1>3 DEF Peeked
<1>6. TokenAt(Text, stack[n].at, Peeked)
  BY <1>4, <1>5, PeekIs
<1>7. /\ Peeked.end \in 1 .. Len(Text) + 1
      /\ TokenAt(Text, Peeked.end, Instruction)
  BY <1>4, <1>6, Further DEF Instruction
<1>8. /\ Peeked.end \in stack[n].at .. Len(Text) + 1
      /\ Peeked.type # "END" => Peeked.end > stack[n].at
      /\ Instruction.end \in Peeked.end .. Len(Text) + 1
  BY <1>6, <1>7 DEF TokenAt
<1>9. Instruction.end \in 1 .. Len(Text) + 1
  BY <1>4, <1>7, <1>8, TextIs
<1>10. QED
  BY <1>1, <1>2, <1>3, <1>4, <1>7, <1>8, <1>9

\* What a step may do to what is being read: the body of Advances.
Onward ==
  LET n == Len(stack)
  IN \/ failed'
     \/ stack' = Front(stack)
     \/ /\ \A i \in 1..(n - 1) : stack'[i] = stack[i]
        /\ stack'[n].text = stack[n].text
        /\ \/ stack'[n].at > stack[n].at
           \/ /\ stack[n].in = "section" /\ stack'[n].in = "file"
              /\ stack'[n].at = stack[n].at

LEMMA DieStep ==
  ASSUME TypeOK, stack # <<>>, Die
  PROVE  TypeOK' /\ Onward
BY DEF TypeOK, Die, Nested, Onward

\* The innermost reader moves to a place of its text.
LEMMA AtIs ==
  ASSUME TypeOK, stack # <<>>, NEW end \in 1 .. Len(Text) + 1
  PROVE  LET n == Len(stack)
             t == At(end)
         IN /\ Readers(t) /\ Len(t) = n /\ t # <<>>
            /\ \A i \in 1 .. n - 1 : t[i] = stack[i]
            /\ t[n].text = stack[n].text /\ t[n].at = end
            /\ t[n].in = stack[n].in
<1> DEFINE n == Len(stack)
           t == At(end)
           r == [stack[n] EXCEPT !.at = end]
<1>1. /\ Readers(stack) /\ n \in Nat \ {0} /\ DOMAIN stack = 1 .. n
      /\ ReaderAt(stack, n) /\ stack[n].text = Text
  BY PlaceIs
<1>2. LastIs(stack, t, r)
  <2>1. t = Replaced(stack, r)
    BY DEF At, Replaced
  <2>2. stack \in Seq(Range(stack))
    BY <1>1 DEF Readers
  <2> HIDE DEF t, r
  <2>3. QED
    BY <1>1, <2>1, <2>2, ReplacedIs
<1>3. DOMAIN stack[n] = {"text", "at", "in"} /\ stack[n].in \in Kinds
  BY <1>1 DEF ReaderAt
<1>4. /\ DOMAIN r = {"text", "at", "in"} /\ r.at = end
      /\ r.text = stack[n].text /\ r.in = stack[n].in
  BY <1>3
<1> HIDE DEF t, r
<1>5. Readers(t)
  BY <1>1, <1>2, <1>3, <1>4, Moved
<1>6. Len(t) = n /\ t # <<>>
  BY <1>1, <1>2 DEF LastIs
<1>7. QED
  BY <1>2, <1>4, <1>5, <1>6 DEF LastIs, t

LEMMA InstructedIs ==
  ASSUME TypeOK, NEW types, Instructed(types)
  PROVE  /\ stack # <<>> /\ IsText(Text)
         /\ Instruction.end \in 1 .. Len(Text) + 1
         /\ Instruction.type \in types /\ Settings(sec)
BY PlaceIs DEF Instructed, Reading, TypeOK

\* An instruction that reads its value inside the text and keeps the settings
\* as they must be.
LEMMA SetStep ==
  ASSUME TypeOK, NEW types, Instructed(types), NEW STATE read, NEW STATE new,
         read.ok => /\ read.end \in Instruction.end .. Len(Text) + 1
                    /\ Settings(new),
         Set(read, new)
  PROVE  TypeOK' /\ Onward
<1> DEFINE n == Len(stack)
<1>1. stack # <<>> /\ Peeked.type = "INDENT"
  BY DEF Instructed, Reading
<1>2. CASE ~read.ok
  BY <1>1, <1>2, DieStep DEF Set
<1>3. CASE read.ok
  <2>1. /\ n \in Nat \ {0} /\ IsText(Text) /\ stack[n].at \in 1 .. Len(Text) + 1
        /\ Peeked.end \in stack[n].at .. Len(Text) + 1
        /\ Peeked.end > stack[n].at
        /\ Instruction.end \in Peeked.end .. Len(Text) + 1
    BY <1>1, PlaceIs
  <2>2. read.end \in 1 .. Len(Text) + 1 /\ read.end > stack[n].at
    BY <1>3, <2>1, TextIs
  <2>3. stack' = At(read.end) /\ sec' = new /\ UNCHANGED <<disk, result, failed>>
    BY <1>3 DEF Set
  <2>4. /\ Readers(stack') /\ stack' # <<>>
        /\ \A i \in 1 .. n - 1 : stack'[i] = stack[i]
        /\ stack'[n].text = stack[n].text /\ stack'[n].at = read.end
    BY <1>1, <2>2, <2>3, AtIs
  <2>5. Onward
    BY <2>2, <2>4 DEF Onward
  <2>6. Nested'
    BY <2>4, NestedIs
  <2>7. TypeOK'
    BY <1>3, <2>3, <2>4, <2>6 DEF TypeOK, Settings, get_default
  <2>8. QED
    BY <2>5, <2>7
<1>4. QED
  BY <1>2, <1>3

LEMMA NoParallelStep ==
  ASSUME TypeOK, NoParallel
  PROVE  TypeOK' /\ Onward
<1> DEFINE read == get_to_eol(Text, Instruction.end)
           new == [sec EXCEPT !.no_parallel = read.value]
<1>1. Instructed({"no-parallel"}) /\ Set(read, new)
  BY DEF NoParallel
<1>2. Reads(Text, Instruction.end, read)
  BY <1>1, InstructedIs, GetToEolIs
<1>3. read.ok => Settings(new)
  BY <1>1, <1>2, InstructedIs, SetOne DEF Reads
<1>4. QED
  BY <1>1, <1>2, <1>3, SetStep, InstructedIs DEF Reads

LEMMA CpusStep ==
  ASSUME TypeOK, Cpus
  PROVE  TypeOK' /\ Onward
<1> DEFINE read == to_int(get_value(Text, Instruction.end), 1, MaxCpus)
           new == [sec EXCEPT !.cpus = read.value]
<1>1. Instructed({"cpus"}) /\ Set(read, new)
  BY DEF Cpus
<1>2. ReadsNumber(Text, Instruction.end, read, 1, MaxCpus)
  BY <1>1, InstructedIs, ToIntIs
<1>3. read.ok => Settings(new)
  BY <1>1, <1>2, InstructedIs, SetOne DEF ReadsNumber
<1>4. QED
  BY <1>1, <1>2, <1>3, SetStep, InstructedIs DEF Reads, ReadsNumber

LEMMA NiceStep ==
  ASSUME TypeOK, Nice
  PROVE  TypeOK' /\ Onward
<1> DEFINE read == to_int(get_value(Text, Instruction.end), -19, 20)
           new == [sec EXCEPT !.nice = read.value]
<1>1. Instructed({"nice"}) /\ Set(read, new)
  BY DEF Nice
<1>2. ReadsNumber(Text, Instruction.end, read, -19, 20)
  BY <1>1, InstructedIs, ToIntIs
<1>3. read.ok => Settings(new)
  BY <1>1, <1>2, InstructedIs, SetOne DEF ReadsNumber
<1>4. QED
  BY <1>1, <1>2, <1>3, SetStep, InstructedIs DEF Reads, ReadsNumber

LEMMA VerboseStep ==
  ASSUME TypeOK, Verbose
  PROVE  TypeOK' /\ Onward
<1> DEFINE read == Read(TRUE, TRUE, Instruction.end)
           new == [sec EXCEPT !.verbose = TRUE]
<1>1. Instructed({"verbose"}) /\ Set(read, new)
  BY DEF Verbose
<1>2. read.end = Instruction.end
  BY DEF Read
<1>3. Settings(new)
  BY <1>1, InstructedIs, SetVerbose
<1>4. Instruction.end \in Instruction.end .. Len(Text) + 1
  BY <1>1, InstructedIs, TextIs
<1> HIDE DEF read, new
<1>5. QED
  BY <1>1, <1>2, <1>3, <1>4, SetStep

LEMMA DistccHostsStep ==
  ASSUME TypeOK, DistccHosts
  PROVE  TypeOK' /\ Onward
<1> DEFINE read == get_to_eol(Text, Instruction.end)
           new == IF sec.distcplusplus_hosts_set
                    THEN [sec EXCEPT !.distcc_hosts = read.value]
                    ELSE [sec EXCEPT !.distcc_hosts = read.value,
                                     !.distcplusplus_hosts = read.value]
<1>1. Instructed({"distcc-hosts"}) /\ Set(read, new)
  BY DEF DistccHosts
<1>2. Reads(Text, Instruction.end, read)
  BY <1>1, InstructedIs, GetToEolIs
<1>3. read.ok => Settings(new)
  BY <1>1, <1>2, InstructedIs, SetHosts DEF Reads
<1>4. QED
  BY <1>1, <1>2, <1>3, SetStep, InstructedIs DEF Reads, ReadsNumber

LEMMA DistcplusplusHostsStep ==
  ASSUME TypeOK, DistcplusplusHosts
  PROVE  TypeOK' /\ Onward
<1> DEFINE read == get_to_eol(Text, Instruction.end)
           new == [sec EXCEPT !.distcplusplus_hosts = read.value,
                       !.distcplusplus_hosts_set = TRUE]
<1>1. Instructed({"distc++-hosts"}) /\ Set(read, new)
  BY DEF DistcplusplusHosts
<1>2. Reads(Text, Instruction.end, read)
  BY <1>1, InstructedIs, GetToEolIs
<1>3. read.ok => Settings(new)
  BY <1>1, <1>2, InstructedIs, SetHosts DEF Reads
<1>4. QED
  BY <1>1, <1>2, <1>3, SetStep, InstructedIs DEF Reads, ReadsNumber

LEMMA ProgramStep ==
  ASSUME TypeOK, Program
  PROVE  TypeOK' /\ Onward
<1> DEFINE read == get_path(Text, Instruction.end)
           new == [sec EXCEPT !.names[Instruction.type] = read.value]
<1>1. Instructed(Names) /\ Set(read, new)
  BY DEF Program
<1>2. Reads(Text, Instruction.end, read)
  BY <1>1, InstructedIs, GetPathIs
<1>3. read.ok => Settings(new)
  BY <1>1, <1>2, InstructedIs, SetProgram DEF Reads
<1>4. QED
  BY <1>1, <1>2, <1>3, SetStep, InstructedIs DEF Reads, ReadsNumber

LEMMA ToolStep ==
  ASSUME TypeOK, Tool
  PROVE  TypeOK' /\ Onward
<1> DEFINE read == get_optional_path(Text, Instruction.end)
           new == [sec EXCEPT ![Instruction.type] = read.value]
<1>1. Instructed(Tools) /\ Set(read, new)
  BY DEF Tool
<1>2. Reads(Text, Instruction.end, read)
  BY <1>1, InstructedIs, GetOptionalPathIs
<1>3. read.ok => Settings(new)
  <2>1. CASE Instruction.type = "ccache"
    <3>1. new = [sec EXCEPT !.ccache = read.value]
      BY <2>1
    <3> HIDE DEF read, new
    <3>2. QED
      BY <1>1, <1>2, <3>1, InstructedIs, SetOne DEF Reads
  <2>2. CASE Instruction.type = "distcc"
    <3>1. new = [sec EXCEPT !.distcc = read.value]
      BY <2>2
    <3> HIDE DEF read, new
    <3>2. QED
      BY <1>1, <1>2, <3>1, InstructedIs, SetOne DEF Reads
  <2>3. QED
    BY <1>1, <2>1, <2>2, InstructedIs DEF Tools
<1>4. QED
  BY <1>1, <1>2, <1>3, SetStep, InstructedIs DEF Reads, ReadsNumber

LEMMA AddToStep ==
  ASSUME TypeOK, AddTo
  PROVE  TypeOK' /\ Onward
<1> DEFINE to == peek_token(Text, Instruction.end)
           list == IF to.type = "make" THEN "make_add" ELSE "env_add"
           read == get_to_eol(Text, to.end)
           more == IF read.value = {} THEN <<>>
                   ELSE <<CHOOSE x \in read.value : TRUE>> \o sec[list]
           new == [sec EXCEPT ![list] = more]
<1>1. Instructed({"add"}) /\ (Set(read, new) \/ Die)
  BY DEF AddTo
<1>2. /\ stack # <<>> /\ IsText(Text) /\ Settings(sec)
      /\ Instruction.end \in 1 .. Len(Text) + 1
  BY <1>1, InstructedIs
<1>3. TokenAt(Text, Instruction.end, to)
  BY <1>2, PeekIs
<1>4. to.end \in 1 .. Len(Text) + 1 /\ to.end \in Instruction.end .. Len(Text) + 1
  BY <1>2, <1>3, Further DEF TokenAt
<1>5. Reads(Text, to.end, read)
  BY <1>2, <1>4, GetToEolIs
<1>6. read.ok => read.end \in Instruction.end .. Len(Text) + 1
  <2> HIDE DEF read, to
  <2>1. QED
    BY <1>2, <1>4, <1>5, TextIs DEF Reads
<1>7. Settings(new)
  <2>1. CASE to.type = "make"
    <3>1. new = [sec EXCEPT !.make_add = more]
      BY <2>1
    <3> HIDE DEF more, new
    <3>2. QED
      BY <1>2, <3>1, SetOne
  <2>2. CASE to.type # "make"
    <3>1. new = [sec EXCEPT !.env_add = more]
      BY <2>2
    <3> HIDE DEF more, new
    <3>2. QED
      BY <1>2, <3>1, SetOne
  <2>3. QED
    BY <2>1, <2>2
<1> HIDE DEF read, new
<1>8. CASE Die
  BY <1>2, <1>8, DieStep
<1>9. CASE Set(read, new)
  BY <1>1, <1>6, <1>7, <1>9, SetStep
<1>10. QED
  BY <1>1, <1>8, <1>9

LEMMA LockFileStep ==
  ASSUME TypeOK, LockFile
  PROVE  TypeOK' /\ Onward
<1> DEFINE read == get_path(Text, Instruction.end)
           file == CHOOSE x \in read.value : TRUE
           new == [sec EXCEPT !.lock_file = {file}, !.lock_fd = file]
<1>1. Instructed({"lock-file"}) /\ (Set(read, new) \/ Die)
  BY DEF LockFile, Set
<1>2. Reads(Text, Instruction.end, read)
  BY <1>1, InstructedIs, GetPathIs
<1>3. Settings(new)
  <2> HIDE DEF file
  <2>1. QED
    BY <1>1, InstructedIs, SetLockFile
<1> HIDE DEF read, new
<1>4. CASE Die
  BY <1>1, <1>4, InstructedIs, DieStep
<1>5. CASE Set(read, new)
  BY <1>1, <1>2, <1>3, <1>5, SetStep, InstructedIs DEF Reads
<1>6. QED
  BY <1>1, <1>4, <1>5

\* An include waits behind the file that it names.
LEMMA IncludeStep ==
  ASSUME TypeOK, stack # <<>>, NEW from \in 1 .. Len(Text) + 1,
         from > stack[Len(stack)].at,
         NEW in, Include(get_path(Text, from), in),
         \/ in = "file" /\ stack[Len(stack)].in = "file"
         \/ in = "fragment" /\ stack[Len(stack)].in # "file"
  PROVE  TypeOK' /\ Onward
<1> DEFINE n == Len(stack)
           read == get_path(Text, from)
           file == CHOOSE x \in read.value : TRUE
           r == Reader(file, in)
           t == At(read.end)
<1>1. /\ n \in Nat \ {0} /\ IsText(Text) /\ stack[n].at \in 1 .. Len(Text) + 1
  BY PlaceIs
<1>2. Reads(Text, from, read)
  BY <1>1, GetPathIs
<1>3. CASE ~(read.ok /\ file \in DOMAIN disk)
  <2>1. Die
    BY <1>3 DEF Include
  <2>2. QED
    BY <2>1, DieStep
<1>4. CASE read.ok /\ file \in DOMAIN disk
  <2>1. stack' = Append(t, r) /\ UNCHANGED <<disk, result, sec, failed>>
    BY <1>4 DEF Include
  <2>2. read.end \in 1 .. Len(Text) + 1 /\ read.end > stack[n].at
    <3> HIDE DEF read
    <3>1. QED
      BY <1>1, <1>2, <1>4, TextIs DEF Reads
  <2>3. /\ Readers(t) /\ Len(t) = n /\ t # <<>>
        /\ \A i \in 1 .. n - 1 : t[i] = stack[i]
        /\ t[n].text = stack[n].text /\ t[n].at = read.end
        /\ t[n].in = stack[n].in
    <3> HIDE DEF read
    <3>1. QED
      BY <2>2, AtIs
  <2>4. IsText(disk[file])
    BY <1>4 DEF TypeOK
  <2>5. /\ DOMAIN r = {"text", "at", "in"} /\ r.text = disk[file]
        /\ r.at = 1 /\ r.in = in
    BY DEF Reader
  <2> HIDE DEF read, file, r, t
  <2>6. /\ Readers(stack') /\ Len(stack') = n + 1
        /\ \A i \in 1 .. n : stack'[i] = t[i]
    BY <2>1, <2>3, <2>4, <2>5, Included
  <2>7. stack'[n] = t[n] /\ \A i \in 1 .. n - 1 : stack'[i] = stack[i]
    BY <1>1, <2>3, <2>6
  <2>8. Onward
    BY <2>2, <2>3, <2>7 DEF Onward
  <2>9. Nested' /\ stack' # <<>>
    <3>1. stack' # <<>>
      BY <1>1, <2>6
    <3>2. QED
      BY <2>6, <3>1, NestedIs
  <2>10. TypeOK'
    BY <2>1, <2>9 DEF TypeOK, Settings, get_default
  <2>11. QED
    BY <2>8, <2>10
<1>5. QED
  BY <1>3, <1>4

LEMMA IncludeFragmentStep ==
  ASSUME TypeOK, IncludeFragment
  PROVE  TypeOK' /\ Onward
<1> DEFINE n == Len(stack)
<1>1. /\ Instructed({"include"}) /\ stack # <<>> /\ stack[n].in # "file"
      /\ Include(get_path(Text, Instruction.end), "fragment")
  BY PlaceIs DEF IncludeFragment, Instructed, Reading
<1>2. Peeked.type # "END"
  BY <1>1 DEF Instructed
<1>3. /\ Instruction.end \in 1 .. Len(Text) + 1 /\ stack[n].at \in 1 .. Len(Text) + 1
      /\ Instruction.end > stack[n].at
  <2>1. /\ Instruction.end \in 1 .. Len(Text) + 1
        /\ stack[n].at \in 1 .. Len(Text) + 1 /\ IsText(Text)
        /\ Peeked.end \in 1 .. Len(Text) + 1 /\ Peeked.end > stack[n].at
        /\ Instruction.end \in Peeked.end .. Len(Text) + 1
    BY <1>1, <1>2, PlaceIs
  <2>2. QED
    BY <2>1, TextIs
<1>4. QED
  BY <1>1, <1>3, IncludeStep

LEMMA IncludeFileStep ==
  ASSUME TypeOK, IncludeFile
  PROVE  TypeOK' /\ Onward
<1> DEFINE n == Len(stack)
<1>1. /\ stack # <<>> /\ stack[n].in = "file" /\ Peeked.type = "include"
      /\ Include(get_path(Text, Peeked.end), "file")
  BY PlaceIs DEF IncludeFile, Reading
<1>2. Peeked.end \in 1 .. Len(Text) + 1 /\ Peeked.end > stack[n].at
  BY <1>1, PlaceIs
<1>3. QED
  BY <1>1, <1>2, IncludeStep

LEMMA EndStep ==
  ASSUME TypeOK, stack # <<>>, ~failed, stack' = Front(stack),
         UNCHANGED <<disk, sec, failed>>, Settings(result')
  PROVE  TypeOK' /\ Onward
<1>1. Readers(stack')
  BY PlaceIs, Ended
<1>2. Nested'
  BY <1>1, NestedIs
<1>3. TypeOK'
  BY <1>2 DEF TypeOK, Settings, get_default
<1>4. QED
  BY <1>3 DEF Onward

LEMMA FragmentEndsStep ==
  ASSUME TypeOK, FragmentEnds
  PROVE  TypeOK' /\ Onward
<1>1. Settings(result')
  BY DEF FragmentEnds, TypeOK
<1>2. QED
  BY <1>1, EndStep DEF FragmentEnds, Reading

LEMMA FileEndsStep ==
  ASSUME TypeOK, FileEnds
  PROVE  TypeOK' /\ Onward
<1> DEFINE cc == resolve_path(result.ccache, "ccache")
           dd == resolve_path(result.distcc, "distcc")
           one == [result EXCEPT !.ccache = cc]
<1>1. Settings(result)
  BY DEF TypeOK
<1>2. AtMostOne(cc) /\ AtMostOne(dd)
  BY <1>1 DEF Settings, AtMostOne, resolve_path
<1>3. Settings(one)
  <2> HIDE DEF cc
  <2>1. QED
    BY <1>1, <1>2, SetOne
<1>4. result' = [one EXCEPT !.distcc = dd]
  BY <1>1, FieldsAre DEF FileEnds, Settings, Fields
<1>5. Settings(result')
  <2> HIDE DEF one, dd
  <2>1. QED
    BY <1>2, <1>3, <1>4, SetOne
<1>6. QED
  BY <1>5, EndStep DEF FileEnds, Reading

\* A file becomes a section of it, and a section the file again.
LEMMA SwitchStep ==
  ASSUME TypeOK, stack # <<>>, ~failed, stack[Len(stack)].in \in {"file", "section"},
         NEW in \in {"file", "section"}, NEW at \in 1 .. Len(Text) + 1,
         NEW STATE r,
         r = [[stack[Len(stack)] EXCEPT !.in = in] EXCEPT !.at = at],
         stack' = [stack EXCEPT ![Len(stack)] = r],
         \/ at > stack[Len(stack)].at
         \/ /\ stack[Len(stack)].in = "section" /\ in = "file"
            /\ at = stack[Len(stack)].at,
         UNCHANGED <<disk, failed>>, Settings(sec'), Settings(result')
  PROVE  TypeOK' /\ Onward
<1> DEFINE n == Len(stack)
<1>1. /\ Readers(stack) /\ n \in Nat \ {0} /\ ReaderAt(stack, n)
      /\ stack[n].text = Text
  BY PlaceIs
<1>2. LastIs(stack, stack', r)
  <2>1. stack' = Replaced(stack, r)
    BY DEF Replaced
  <2>2. stack \in Seq(Range(stack))
    BY <1>1 DEF Readers
  <2>3. LastIs(stack, Replaced(stack, r), r)
    BY <1>1, <2>2, ReplacedIs
  <2>4. QED
    BY <2>1, <2>3
<1>3. DOMAIN stack[n] = {"text", "at", "in"}
  BY <1>1 DEF ReaderAt
<1>4. /\ DOMAIN r = {"text", "at", "in"} /\ r.at = at
      /\ r.text = stack[n].text /\ r.in = in
  BY <1>3
<1>5. in \in Kinds /\ (in = "fragment" <=> stack[n].in = "fragment")
  BY DEF Kinds
<1>6. Readers(stack')
  BY <1>1, <1>2, <1>4, <1>5, Moved
<1>7. Nested'
  BY <1>6, NestedIs
<1>8. Onward
  BY <1>2, <1>4 DEF Onward, LastIs
<1>9. TypeOK'
  BY <1>7 DEF TypeOK, Settings, get_default
<1>10. QED
  BY <1>8, <1>9

LEMMA SectionEndsStep ==
  ASSUME TypeOK, SectionEnds
  PROVE  TypeOK' /\ Onward
<1> DEFINE n == Len(stack)
           at == stack[n].at
           r == [[stack[n] EXCEPT !.in = "file"] EXCEPT !.at = at]
<1>1. stack # <<>> /\ ~failed /\ stack[n].in = "section"
  BY PlaceIs DEF SectionEnds, Reading
<1>2. /\ ReaderAt(stack, n) /\ at \in 1 .. Len(Text) + 1
  BY <1>1, PlaceIs
<1>3. r = [stack[n] EXCEPT !.in = "file"]
  BY <1>2 DEF ReaderAt
<1>4. stack' = [stack EXCEPT ![n] = r]
  <2> HIDE DEF r
  <2>1. QED
    BY <1>3 DEF SectionEnds
<1>5. Settings(sec') /\ Settings(result')
  BY DEF SectionEnds, TypeOK
<1>6. QED
  BY <1>1, <1>2, <1>4, <1>5, SwitchStep DEF SectionEnds

LEMMA SectionStep ==
  ASSUME TypeOK, Section
  PROVE  TypeOK' /\ Onward
<1> DEFINE n == Len(stack)
           name == peek_token(Text, Peeked.end)
           close == peek_token(Text, name.end)
           at == close.end
           r == [[stack[n] EXCEPT !.in = "section"] EXCEPT !.at = at]
<1>1. stack # <<>> /\ ~failed /\ stack[n].in = "file" /\ Peeked.type # "END"
  BY PlaceIs DEF Section, Reading
<1>2. \/ Die
      \/ /\ sec' = [result EXCEPT !.name = {name.word}]
         /\ stack' = [stack EXCEPT ![n] = r]
         /\ UNCHANGED <<disk, result, failed>>
  BY DEF Section
<1>3. /\ IsText(Text) /\ stack[n].at \in 1 .. Len(Text) + 1
      /\ Peeked.end \in 1 .. Len(Text) + 1 /\ Peeked.end > stack[n].at
  BY <1>1, PlaceIs
<1>4. TokenAt(Text, Peeked.end, name)
  BY <1>3, PeekIs
<1>5. name.end \in 1 .. Len(Text) + 1 /\ TokenAt(Text, name.end, close)
  BY <1>3, <1>4, Further
<1>6. /\ name.end \in Peeked.end .. Len(Text) + 1
      /\ close.end \in name.end .. Len(Text) + 1
  BY <1>4, <1>5 DEF TokenAt
<1>7. at \in 1 .. Len(Text) + 1 /\ at > stack[n].at
  <2> HIDE DEF name, close
  <2>1. QED
    BY <1>3, <1>5, <1>6, TextIs
<1>8. CASE Die
  BY <1>1, <1>8, DieStep
<1>9. CASE ~Die
  <2>1. Settings(result)
    BY DEF TypeOK
  <2>2. Settings(sec')
    <3> DEFINE v == {name.word}
    <3>1. AtMostOne(v)
      BY DEF AtMostOne
    <3>2. sec' = [result EXCEPT !.name = v]
      BY <1>2, <1>9
    <3> HIDE DEF v
    <3>3. QED
      BY <2>1, <3>1, <3>2, SetOne
  <2>3. QED
    BY <1>1, <1>2, <1>7, <1>9, <2>1, <2>2, SwitchStep
<1>10. QED
  BY <1>8, <1>9

LEMMA NoInstructionStep ==
  ASSUME TypeOK, NoInstruction
  PROVE  TypeOK' /\ Onward
BY DieStep DEF NoInstruction, Reading

-----------------------------------------------------------------------------
LEMMA TypeInit ==
  ASSUME Init
  PROVE  TypeOK
<1> DEFINE r == Reader(Config, "file")
<1>1. /\ \A f \in DOMAIN disk : IsText(disk[f])
      /\ Config \in DOMAIN disk
  BY ConstantsOK DEF ConstantsOK, Init
<1>2. /\ DOMAIN r = {"text", "at", "in"} /\ r.text = disk[Config]
      /\ r.at = 1 /\ r.in = "file"
  BY DEF Reader
<1>3. IsText(r.text) /\ Len(r.text) \in Nat
  BY <1>1, <1>2, TextIs
<1> HIDE DEF r
<1>4. stack = <<r>> /\ r \in Range(<<r>>)
  BY DEF Init, r, Range
<1>5. stack \in Seq(Range(stack)) /\ Len(stack) = 1 /\ DOMAIN stack = 1 .. 1
  BY <1>4
<1>6. ReaderAt(stack, 1)
  BY <1>2, <1>3, <1>4 DEF ReaderAt, Kinds
<1>7. Nested
  BY <1>5, <1>6, NestedIs DEF Readers
<1>8. QED
  BY <1>1, <1>7, DefaultSettings DEF TypeOK, Init

LEMMA EveryStep ==
  ASSUME TypeOK, Next
  PROVE  TypeOK' /\ Onward
BY NoParallelStep, CpusStep, NiceStep, VerboseStep, ToolStep, DistccHostsStep,
   DistcplusplusHostsStep, ProgramStep, AddToStep, LockFileStep,
   IncludeFragmentStep, NoInstructionStep, FragmentEndsStep, SectionEndsStep,
   IncludeFileStep, SectionStep, FileEndsStep DEF Next

LEMMA TypeStutters ==
  ASSUME TypeOK, UNCHANGED vars
  PROVE  TypeOK'
BY DEF TypeOK, vars, Nested, Settings, get_default

\* Whatever the files say, each place is inside its text, files and sections
\* are nested as read_config, read_section and read_section_file call each
\* other, and every setting is within its limits.
THEOREM TypeCorrect == Spec => []TypeOK
<1>1. Init => TypeOK
  BY TypeInit
<1>2. TypeOK /\ [Next]_vars => TypeOK'
  BY EveryStep, TypeStutters
<1>3. QED
  BY <1>1, <1>2, PTL DEF Spec

\* No text is read twice: a step goes on behind what it has read, or leaves
\* the text, and the texts that wait stay where they are.
THEOREM ReadingAdvances == Spec => Advances
<1>1. TypeOK /\ [Next]_vars => [Onward]_vars
  BY EveryStep
<1>2. Advances <=> [][Onward]_vars
  BY DEF Advances, Onward
<1>3. QED
  BY <1>1, <1>2, TypeCorrect, PTL DEF Spec
=============================================================================
