-------------------------- MODULE ClientConfigProofs --------------------------
(***************************************************************************)
(* What the client's text search makes of a file of any length, and that   *)
(* the two programs agree on a port their files agree on.                  *)
(***************************************************************************)
EXTENDS ClientConfig, ConfigLoadProofs, WellFoundedInduction

-----------------------------------------------------------------------------
(* The first of a set of positions.                                        *)

Below == {ss \in Nat \X Nat : ss[1] < ss[2]}

LEMMA NatWellFounded == IsWellFoundedOn(Below, Nat)
  BY NatLessThanWellFounded DEF OpToRel, Below

LEMMA FirstExists ==
    ASSUME NEW S, S \subseteq Nat, S # {}
    PROVE  First(S) \in S /\ \A q \in S : First(S) <= q
<1>1. PICK p \in S : \A q \in S : ~(<<q, p>> \in Below)
  BY NatWellFounded, WFMin
<1>2. ASSUME NEW q \in S PROVE p <= q
  <2>1. <<q, p>> \in Nat \X Nat /\ <<q, p>>[1] = q /\ <<q, p>>[2] = p
    OBVIOUS
  <2>2. ~(q < p)
    BY <1>1, <2>1 DEF Below
  <2> QED
    BY <2>2
<1> QED
  BY <1>2 DEF First

LEMMA FirstIs ==
    ASSUME NEW S, S \subseteq Nat, NEW p \in S, \A q \in S : p <= q
    PROVE  First(S) = p
<1>1. First(S) \in S /\ First(S) <= p /\ p <= First(S)
  BY FirstExists
<1>2. \A x, y \in Nat : x <= y /\ y <= x => x = y
  OBVIOUS
<1>3. First(S) \in Nat /\ p \in Nat
  <2> HIDE DEF First
  <2> QED
    BY <1>1
<1> QED
  BY <1>1, <1>2, <1>3

-----------------------------------------------------------------------------
(* The text of a file.                                                     *)

IsFile(f) == /\ f.closed \in BOOLEAN
             /\ Len(f.entries) \in Nat
             /\ \A n \in 1..Len(f.entries) :
                   LET v == f.entries[n].value
                   IN  /\ v.kind \in {"text", "number", "word"}
                       /\ v.kind = "number" => v.number \in Int

TextLength(f) == IF f.closed \/ Len(f.entries) = 0 THEN 4 * Len(f.entries)
                                                   ELSE 4 * Len(f.entries) - 1

LEMMA TextLengthIs ==
    ASSUME NEW f, IsFile(f)
    PROVE  /\ TextLength(f) \in Nat
           /\ Len(Tokens(f)) = TextLength(f) /\ DOMAIN Tokens(f) = 1..TextLength(f)
<1>1. TextLength(f) \in Nat
  BY DEF IsFile, TextLength
<1>2. DOMAIN Tokens(f) = 1..TextLength(f)
  BY DEF Tokens, TextLength
<1>3. Len(Tokens(f)) = TextLength(f)
  BY <1>1, <1>2 DEF Tokens
<1> QED
  BY <1>1, <1>2, <1>3

\* Every position belongs to an entry.
LEMMA TextPlaces ==
    ASSUME NEW f, IsFile(f), NEW p \in 1..TextLength(f)
    PROVE  \E n \in 1..Len(f.entries) : p \in {4*n - 3, 4*n - 2, 4*n - 1, 4*n}
<1>1. (p + 3) \div 4 \in 1..Len(f.entries)
  BY DEF IsFile, TextLength
<1>2. p \in 4 * ((p + 3) \div 4) - 3 .. 4 * ((p + 3) \div 4)
  OBVIOUS
<1> QED
  BY <1>1, <1>2

LEMMA TextAt ==
    ASSUME NEW f, IsFile(f), NEW p \in 1..TextLength(f)
    PROVE  LET m == (p + 3) \div 4
           IN  Tokens(f)[p] =
                  CASE p % 4 = 1 -> Quoted(f.entries[m].key)
                    [] p % 4 = 2 -> Mark("colon")
                    [] p % 4 = 3 -> Token(f.entries[m].value)
                    [] OTHER     -> Mark(IF m = Len(f.entries) THEN "brace" ELSE "comma")
  BY DEF Tokens, TextLength

LEMMA TextOfEntry ==
    ASSUME NEW f, IsFile(f), NEW n \in 1..Len(f.entries)
    PROVE  /\ {4*n - 3, 4*n - 2, 4*n - 1} \subseteq 1..TextLength(f)
           /\ Tokens(f)[4*n - 3] = Quoted(f.entries[n].key)
           /\ Tokens(f)[4*n - 2] = Mark("colon")
           /\ Tokens(f)[4*n - 1] = Token(f.entries[n].value)
           /\ 4*n \in 1..TextLength(f) <=> (n < Len(f.entries) \/ f.closed)
           /\ 4*n \in 1..TextLength(f) =>
                 Tokens(f)[4*n] = Mark(IF n = Len(f.entries) THEN "brace" ELSE "comma")
<1>1. /\ {4*n - 3, 4*n - 2, 4*n - 1} \subseteq 1..TextLength(f)
      /\ 4*n \in 1..TextLength(f) <=> (n < Len(f.entries) \/ f.closed)
  BY DEF IsFile, TextLength
<1>2. /\ (4*n - 3) % 4 = 1 /\ (4*n - 2) % 4 = 2 /\ (4*n - 1) % 4 = 3 /\ (4*n) % 4 = 0
      /\ (4*n - 3 + 3) \div 4 = n /\ (4*n - 2 + 3) \div 4 = n
      /\ (4*n - 1 + 3) \div 4 = n /\ (4*n + 3) \div 4 = n
  OBVIOUS
<1>3. Tokens(f)[4*n - 3] = Quoted(f.entries[n].key)
  <2> DEFINE p == 4*n - 3
  <2>1. p \in 1..TextLength(f) /\ p % 4 = 1 /\ (p + 3) \div 4 = n
    BY <1>1, <1>2
  <2> HIDE DEF p
  <2>2. Tokens(f)[p] = Quoted(f.entries[n].key)
    BY <2>1, TextAt
  <2> QED
    BY <2>2 DEF p
<1>4. Tokens(f)[4*n - 2] = Mark("colon")
  <2> DEFINE p == 4*n - 2
  <2>1. p \in 1..TextLength(f) /\ p % 4 = 2 /\ (p + 3) \div 4 = n
    BY <1>1, <1>2
  <2> HIDE DEF p
  <2>2. Tokens(f)[p] = Mark("colon")
    BY <2>1, TextAt
  <2> QED
    BY <2>2 DEF p
<1>5. Tokens(f)[4*n - 1] = Token(f.entries[n].value)
  <2> DEFINE p == 4*n - 1
  <2>1. p \in 1..TextLength(f) /\ p % 4 = 3 /\ (p + 3) \div 4 = n
    BY <1>1, <1>2
  <2> HIDE DEF p
  <2>2. Tokens(f)[p] = Token(f.entries[n].value)
    BY <2>1, TextAt
  <2> QED
    BY <2>2 DEF p
<1>6. ASSUME 4*n \in 1..TextLength(f)
      PROVE  Tokens(f)[4*n] = Mark(IF n = Len(f.entries) THEN "brace" ELSE "comma")
  <2> DEFINE p == 4*n
  <2>1. p \in 1..TextLength(f) /\ p % 4 = 0 /\ (p + 3) \div 4 = n
    BY <1>6, <1>2
  <2> HIDE DEF p
  <2>2. Tokens(f)[p] = Mark(IF n = Len(f.entries) THEN "brace" ELSE "comma")
    BY <2>1, TextAt
  <2> QED
    BY <2>2 DEF p
<1> QED
  BY <1>1, <1>3, <1>4, <1>5, <1>6

\* The kinds of the tokens.
LEMMA TokenKinds ==
    /\ \A s : Quoted(s).kind = "quoted" /\ Quoted(s).text = s
    /\ \A c : Mark(c).kind = c
    /\ \A v : v.kind \in {"text", "number", "word"} =>
                 /\ v.kind = "text" => Token(v) = Quoted(v.text)
                 /\ v.kind # "text" => Token(v) = v
  BY DEF Quoted, Mark, Token

-----------------------------------------------------------------------------
(* The search.                                                             *)

LEMMA FindsNext ==
    ASSUME NEW f, IsFile(f), NEW kinds,
           NEW p \in 1..TextLength(f), NEW q \in p..TextLength(f),
           Tokens(f)[q].kind \in kinds,
           \A r \in p..(q - 1) : Tokens(f)[r].kind \notin kinds
    PROVE  FindFrom(Tokens(f), p, kinds) = q
<1> DEFINE S == {r \in p..TextLength(f) : Tokens(f)[r].kind \in kinds}
<1>1. TextLength(f) \in Nat /\ Len(Tokens(f)) = TextLength(f)
  BY TextLengthIs
<1>2. S \subseteq Nat /\ q \in S
  BY <1>1
<1>3. \A r \in S : q <= r
  BY <1>1
<1>4. First(S) = q
  <2> HIDE DEF S
  <2> QED
    BY <1>2, <1>3, FirstIs
<1> QED
  BY <1>1, <1>4 DEF FindFrom, None

LEMMA FindsNothing ==
    ASSUME NEW f, IsFile(f), NEW kinds, NEW p \in 0..TextLength(f),
           p = 0 \/ \A r \in p..TextLength(f) : Tokens(f)[r].kind \notin kinds
    PROVE  FindFrom(Tokens(f), p, kinds) = None
<1>1. Len(Tokens(f)) = TextLength(f)
  BY TextLengthIs
<1> QED
  BY <1>1 DEF FindFrom, First, None

Plain(f) == \A n \in 1..Len(f.entries) :
               LET v == f.entries[n].value
               IN  v.kind = "text" => v.text \notin ClientKey

\* The entry the search is there to find.
Mention(f, k) == First({n \in 1..Len(f.entries) : f.entries[n].key = k})

LEMMA MentionIs ==
    ASSUME NEW f, IsFile(f), NEW k
    PROVE  \/ /\ Mention(f, k) = 0
              /\ \A n \in 1..Len(f.entries) : f.entries[n].key # k
           \/ /\ Mention(f, k) \in 1..Len(f.entries)
              /\ f.entries[Mention(f, k)].key = k
              /\ \A n \in 1..Len(f.entries) : f.entries[n].key = k => Mention(f, k) <= n
<1> DEFINE S == {n \in 1..Len(f.entries) : f.entries[n].key = k}
<1>1. S \subseteq Nat
  OBVIOUS
<1>2. CASE S = {}
  BY <1>2 DEF Mention, First, None
<1>3. CASE S # {}
  <2> HIDE DEF S
  <2>1. First(S) \in S /\ \A q \in S : First(S) <= q
    BY <1>1, <1>3, FirstExists
  <2> USE DEF S
  <2>2. Mention(f, k) = First(S)
    BY DEF Mention
  <2> QED
    BY <2>1, <2>2
<1> QED
  BY <1>2, <1>3

\* Where no value is spelled like a key, the text mentions a key where an entry
\* has it.
LEMMA KeyMentioned ==
    ASSUME NEW f, IsFile(f), Plain(f), NEW k \in ClientKey, NEW p \in 1..TextLength(f),
           Tokens(f)[p] = Quoted(k)
    PROVE  \E n \in 1..Len(f.entries) : p = 4*n - 3 /\ f.entries[n].key = k
<1>1. PICK n \in 1..Len(f.entries) : p \in {4*n - 3, 4*n - 2, 4*n - 1, 4*n}
  BY TextPlaces
<1>2. Tokens(f)[p].kind = "quoted" /\ Tokens(f)[p].text = k
  BY TokenKinds
<1>3. CASE p = 4*n - 3
  BY <1>2, <1>3, TextOfEntry, TokenKinds
<1>4. CASE p = 4*n - 2
  BY <1>2, <1>4, TextOfEntry, TokenKinds
<1>5. CASE p = 4*n
  BY <1>2, <1>5, TextOfEntry, TokenKinds
<1>6. CASE p = 4*n - 1
  <2> DEFINE v == f.entries[n].value
  <2>1. v.kind \in {"text", "number", "word"} /\ (v.kind = "text" => v.text \notin ClientKey)
    BY DEF IsFile, Plain
  <2>2. Token(v).kind = "quoted" /\ Token(v).text = k
    BY <1>2, <1>6, TextOfEntry
  <2> HIDE DEF v
  <2> QED
    BY <2>1, <2>2, TokenKinds
<1> QED
  BY <1>1, <1>3, <1>4, <1>5, <1>6

LEMMA ColonFound ==
    ASSUME NEW f, IsFile(f), Plain(f), NEW k \in ClientKey
    PROVE  FindColon(Tokens(f), k) = IF Mention(f, k) = 0 THEN None ELSE 4 * Mention(f, k) - 2
<1> DEFINE S == {q \in 1..Len(Tokens(f)) : Tokens(f)[q] = Quoted(k)}
           m == Mention(f, k)
<1>1. TextLength(f) \in Nat /\ Len(Tokens(f)) = TextLength(f)
  BY TextLengthIs
<1>2. FindColon(Tokens(f), k) = FindFrom(Tokens(f), First(S), {"colon"})
  BY DEF FindColon
<1>3. \A q \in S : \E n \in 1..Len(f.entries) : q = 4*n - 3 /\ f.entries[n].key = k
  BY <1>1, KeyMentioned
<1>4. CASE m = 0
  <2>1. S = {}
    BY <1>3, <1>4, MentionIs DEF IsFile
  <2>2. First(S) = 0
    BY <2>1 DEF First, None
  <2> QED
    BY <1>1, <1>2, <1>4, <2>2, FindsNothing
<1>5. CASE m # 0
  <2>1. /\ m \in 1..Len(f.entries) /\ f.entries[m].key = k
        /\ \A n \in 1..Len(f.entries) : f.entries[n].key = k => m <= n
    BY <1>5, MentionIs
  <2> HIDE DEF m
  <2>2. 4*m - 3 \in S /\ S \subseteq Nat
    BY <1>1, <2>1, TextOfEntry
  <2>3. \A q \in S : 4*m - 3 <= q
    BY <1>3, <2>1 DEF IsFile
  <2>4. First(S) = 4*m - 3
    <3> HIDE DEF S
    <3> QED
      BY <2>2, <2>3, FirstIs
  <2>5. /\ Tokens(f)[4*m - 3].kind = "quoted" /\ Tokens(f)[4*m - 2].kind = "colon"
        /\ 4*m - 3 \in 1..TextLength(f) /\ 4*m - 2 \in 1..TextLength(f)
    BY <2>1, TextOfEntry, TokenKinds
  <2>6. FindFrom(Tokens(f), 4*m - 3, {"colon"}) = 4*m - 2
    BY <1>1, <2>1, <2>5, FindsNext
  <2> QED
    BY <1>2, <1>5, <2>4, <2>6 DEF m
<1> QED
  BY <1>4, <1>5

\* What stands at the colon c of the m-th entry and behind it.
Around(f, m, c) ==
    /\ c \in 1..TextLength(f) /\ c + 1 \in 1..TextLength(f)
    /\ Tokens(f)[c].kind = "colon"
    /\ Tokens(f)[c + 1].kind = "quoted" <=> f.entries[m].value.kind = "text"
    /\ f.entries[m].value.kind = "text" => Tokens(f)[c + 1].text = f.entries[m].value.text
    /\ f.entries[m].value.kind # "text" => Tokens(f)[c + 1] = f.entries[m].value
    /\ c + 2 \in 1..TextLength(f) <=> (m # Len(f.entries) \/ f.closed)
    /\ c + 2 \in 1..TextLength(f) =>
          Tokens(f)[c + 2].kind = IF m = Len(f.entries) THEN "brace" ELSE "comma"
    /\ m # Len(f.entries) => /\ c + 3 \in 1..TextLength(f)
                             /\ Tokens(f)[c + 3].kind = "quoted"
                             /\ Tokens(f)[c + 3].text = f.entries[m + 1].key
    /\ m = Len(f.entries) => TextLength(f) <= c + 2

LEMMA AroundColon ==
    ASSUME NEW f, IsFile(f), NEW m \in 1..Len(f.entries)
    PROVE  Around(f, m, 4*m - 2)
<1> DEFINE v == f.entries[m].value
           c == 4*m - 2
<1>1. v.kind \in {"text", "number", "word"}
  BY DEF IsFile
<1>2. c + 1 = 4*m - 1 /\ c + 2 = 4*m /\ c + 3 = 4*(m + 1) - 3
  BY DEF IsFile
<1>3. /\ c \in 1..TextLength(f) /\ Tokens(f)[c].kind = "colon"
      /\ c + 1 \in 1..TextLength(f) /\ Tokens(f)[c + 1] = Token(v)
  BY <1>2, TextOfEntry, TokenKinds
<1>4. /\ c + 2 \in 1..TextLength(f) <=> (m < Len(f.entries) \/ f.closed)
      /\ c + 2 \in 1..TextLength(f) =>
            Tokens(f)[c + 2].kind = IF m = Len(f.entries) THEN "brace" ELSE "comma"
  BY <1>2, TextOfEntry, TokenKinds
<1>5. ASSUME m # Len(f.entries)
      PROVE  /\ c + 3 \in 1..TextLength(f)
             /\ Tokens(f)[c + 3].kind = "quoted"
             /\ Tokens(f)[c + 3].text = f.entries[m + 1].key
  <2>1. m + 1 \in 1..Len(f.entries)
    BY <1>5 DEF IsFile
  <2> QED
    BY <1>2, <2>1, TextOfEntry, TokenKinds
<1>6. m = Len(f.entries) => TextLength(f) <= c + 2
  BY DEF TextLength, IsFile
<1>7. /\ Token(v).kind = "quoted" <=> v.kind = "text"
      /\ v.kind = "text" => Token(v).text = v.text
      /\ v.kind # "text" => Token(v) = v
  <2> HIDE DEF v
  <2> QED
    BY <1>1, TokenKinds
<1>8. m # Len(f.entries) <=> m < Len(f.entries)
  BY DEF IsFile
<1> HIDE DEF c
<1>9. Around(f, m, c)
  BY <1>3, <1>4, <1>5, <1>6, <1>7, <1>8 DEF Around
<1> QED
  BY <1>9 DEF c

\* parseJsonValue, in terms of the entries.
LEMMA TextFound ==
    ASSUME NEW f, IsFile(f), Plain(f), NEW k \in ClientKey, NEW d
    PROVE  LET m == Mention(f, k)
           IN  ParseJsonValue(Tokens(f), k, d) =
                  IF m = 0 THEN d
                  ELSE IF f.entries[m].value.kind = "text" THEN f.entries[m].value.text
                  ELSE IF m # Len(f.entries) THEN f.entries[m + 1].key
                  ELSE d
<1> DEFINE m == Mention(f, k)
           c == FindColon(Tokens(f), k)
           q == FindFrom(Tokens(f), c, {"quoted"})
           v == f.entries[m].value
<1>1. TextLength(f) \in Nat
  BY TextLengthIs
<1>2. ParseJsonValue(Tokens(f), k, d) = IF q = None THEN d ELSE Tokens(f)[q].text
  BY DEF ParseJsonValue
<1>3. CASE m = 0
  <2>1. q = None
    BY <1>1, <1>3, ColonFound, FindsNothing DEF None
  <2> QED
    BY <1>2, <1>3, <2>1
<1>4. CASE m # 0
  <2>1. m \in 1..Len(f.entries) /\ c = 4*m - 2
    BY <1>4, MentionIs, ColonFound
  <2>2. Around(f, m, c) /\ v.kind \in {"text", "number", "word"}
    BY <2>1, AroundColon DEF IsFile
  <2> HIDE DEF m, c
  <2>3. c \in 1..TextLength(f) /\ c + 1 \in 1..TextLength(f)
    BY <2>2 DEF Around
  <2>4. CASE v.kind = "text"
    <3>1. \A r \in c..(c + 1 - 1) : r = c
      BY <2>3
    <3>2. \A r \in c..(c + 1 - 1) : Tokens(f)[r].kind \notin {"quoted"}
      BY <2>2, <3>1 DEF Around
    <3>3. c + 1 \in c..TextLength(f) /\ Tokens(f)[c + 1].kind \in {"quoted"}
      BY <1>1, <2>2, <2>3, <2>4 DEF Around
    <3>4. q = c + 1 /\ q # None
      BY <2>3, <3>2, <3>3, FindsNext DEF None
    <3> QED
      BY <1>2, <1>4, <2>2, <2>4, <3>4 DEF Around, m
  <2>5. CASE v.kind # "text" /\ m # Len(f.entries)
    <3>1. \A r \in c..(c + 3 - 1) : r \in {c, c + 1, c + 2}
      BY <2>3
    <3>2. \A r \in c..(c + 3 - 1) : Tokens(f)[r].kind \notin {"quoted"}
      BY <2>2, <2>5, <3>1 DEF Around
    <3>3. c + 3 \in c..TextLength(f) /\ Tokens(f)[c + 3].kind \in {"quoted"}
      BY <1>1, <2>2, <2>3, <2>5 DEF Around
    <3>4. q = c + 3 /\ q # None
      BY <2>3, <3>2, <3>3, FindsNext DEF None
    <3> QED
      BY <1>2, <1>4, <2>2, <2>5, <3>4 DEF Around, m
  <2>6. CASE v.kind # "text" /\ m = Len(f.entries)
    <3>1. \A r \in c..TextLength(f) : r \in {c, c + 1, c + 2} /\ r \in 1..TextLength(f)
      BY <1>1, <2>2, <2>3, <2>6 DEF Around
    <3>2. \A r \in c..TextLength(f) : Tokens(f)[r].kind \notin {"quoted"}
      BY <2>2, <2>6, <3>1 DEF Around
    <3>3. q = None
      BY <2>3, <3>2, FindsNothing
    <3> QED
      BY <1>2, <1>4, <2>6, <3>3 DEF m
  <2> QED
    BY <2>4, <2>5, <2>6
<1> QED
  BY <1>3, <1>4

\* parseJsonUint16 and parseJsonUint32, in terms of the entries.
LEMMA NumberFound ==
    ASSUME NEW f, IsFile(f), Plain(f), NEW k \in ClientKey, NEW d
    PROVE  LET m == Mention(f, k)
               v == f.entries[m].value
           IN  ParseJsonNumber(Tokens(f), k, d) =
                  IF /\ m # 0 /\ v.kind = "number"
                     /\ m = Len(f.entries) => f.closed
                     /\ k = "server_port" => v.number \in IntRange
                  THEN v.number % (IF k = "server_port" THEN 65536 ELSE CountModulus)
                  ELSE d
<1> DEFINE m == Mention(f, k)
           v == f.entries[m].value
           c == FindColon(Tokens(f), k)
           end == FindFrom(Tokens(f), c, {"comma", "brace"})
           Reads(t) == t.kind = "number" /\ (k = "server_port" => t.number \in IntRange)
           Yields(t) == t.number % (IF k = "server_port" THEN 65536 ELSE CountModulus)
<1>1. TextLength(f) \in Nat
  BY TextLengthIs
<1>2. ParseJsonNumber(Tokens(f), k, d) =
         IF end # None /\ Reads(Tokens(f)[c + 1]) THEN Yields(Tokens(f)[c + 1]) ELSE d
  BY DEF ParseJsonNumber
<1>3. CASE m = 0
  <2>1. end = None
    BY <1>1, <1>3, ColonFound, FindsNothing DEF None
  <2> QED
    BY <1>2, <1>3, <2>1
<1>4. CASE m # 0
  <2>1. m \in 1..Len(f.entries) /\ c = 4*m - 2
    BY <1>4, MentionIs, ColonFound
  <2>2. Around(f, m, c) /\ v.kind \in {"text", "number", "word"}
    BY <2>1, AroundColon DEF IsFile
  <2> HIDE DEF m, c
  <2>3. c \in 1..TextLength(f) /\ c + 1 \in 1..TextLength(f)
    BY <2>2 DEF Around
  <2>4. \A r \in {c, c + 1} : Tokens(f)[r].kind \notin {"comma", "brace"}
    BY <2>2 DEF Around
  <2>5. end # None <=> (m = Len(f.entries) => f.closed)
    <3>1. CASE m = Len(f.entries) => f.closed
      <4>1. \A r \in c..(c + 2 - 1) : r \in {c, c + 1}
        BY <2>3
      <4>2. c + 2 \in c..TextLength(f) /\ Tokens(f)[c + 2].kind \in {"comma", "brace"}
        BY <1>1, <2>2, <2>3, <3>1 DEF Around
      <4>3. end = c + 2 /\ end # None
        BY <2>3, <2>4, <4>1, <4>2, FindsNext DEF None
      <4> QED
        BY <3>1, <4>3
    <3>2. CASE m = Len(f.entries) /\ ~f.closed
      <4>1. \A r \in c..TextLength(f) : r \in {c, c + 1}
        BY <1>1, <2>2, <2>3, <3>2 DEF Around
      <4>2. end = None
        BY <2>3, <2>4, <4>1, FindsNothing
      <4> QED
        BY <3>2, <4>2
    <3> QED
      BY <3>1, <3>2
  <2>6. v.kind = "number" => Tokens(f)[c + 1] = v
    BY <2>2 DEF Around
  <2>7. v.kind # "number" => Tokens(f)[c + 1].kind # "number"
    BY <2>2 DEF Around
  <2> HIDE DEF v, end
  <2>8. ParseJsonNumber(Tokens(f), k, d) =
           IF Reads(v) /\ (m = Len(f.entries) => f.closed) THEN Yields(v) ELSE d
    BY <1>2, <2>5, <2>6, <2>7
  <2> USE DEF v, m
  <2> QED
    BY <1>4, <2>8
<1> QED
  BY <1>3, <1>4

-----------------------------------------------------------------------------
(* The two programs.                                                       *)

LEMMA ServerStep == [BothNext]_cvars => [Next]_vars /\ (file' = file)
<1> SUFFICES ASSUME [BothNext]_cvars PROVE [Next]_vars /\ (file' = file)
  OBVIOUS
<1>1. [Next]_vars
  BY DEF BothNext, cvars, ClientNext, Initialize, SendUdpPacket, ReceiveAnswer, PollTimeout
<1>2. [Next]_vars => file' = file
  BY DEF Next, vars, FindConfigFile, Open, ReadKey, Validate, Build, Initialized, Ended
<1> QED
  BY <1>1, <1>2

\* What is proved of the server's configuration holds with a client beside it.
THEOREM ServerBesideClient ==
    BothSpec => [](TypeOK /\ LoadExact /\ VerdictExact /\ ReadyIsUsable)
<1>1. ClientInit => Init
  BY DEF ClientInit
<1>2. BothSpec => Spec
  BY <1>1, ServerStep, PTL DEF BothSpec, Spec
<1> QED
  BY <1>2, ConfigTypeCorrect, LoadCorrect, VerdictCorrect, ReadyCorrect, PTL

\* What the search finds in the client's file.
Reading == [k \in ClientKey |->
               IF k \in ClientTextKey
               THEN ParseJsonValue(Tokens(clientFile), k, ClientDefault[k])
               ELSE ParseJsonNumber(Tokens(clientFile), k, ClientDefault[k])]

ClientInv == /\ file \in Document /\ clientFile \in ClientFiles[file]
             /\ clientPc = "load" => clientConfig = ClientDefault
             /\ Loaded => clientConfig = Reading

LEMMA ClientStep == ClientInv /\ [BothNext]_cvars => ClientInv'
<1> SUFFICES ASSUME ClientInv, [BothNext]_cvars PROVE ClientInv'
  OBVIOUS
<1>1. file' = file
  BY ServerStep
<1>2. CASE Initialize
  <2>1. ParsedConfig(Tokens(clientFile)) = Reading
    BY <1>2 DEF Initialize, ClientInv, ParsedConfig, Reading
  <2>2. Reading' = Reading
    BY <1>2 DEF Initialize, Reading
  <2> QED
    BY <1>1, <1>2, <2>1, <2>2 DEF Initialize, ClientInv, Loaded
<1>3. CASE SendUdpPacket \/ ReceiveAnswer \/ PollTimeout \/ UNCHANGED client
  <2>1. /\ UNCHANGED <<clientFile, clientConfig>>
        /\ Loaded' => Loaded
        /\ clientPc' = "load" => clientPc = "load"
    BY <1>3 DEF SendUdpPacket, ReceiveAnswer, PollTimeout, client, Loaded
  <2>2. Reading' = Reading
    BY <2>1 DEF Reading
  <2> QED
    BY <1>1, <2>1, <2>2 DEF ClientInv
<1> QED
  BY <1>2, <1>3 DEF BothNext, ClientNext, cvars

LEMMA ClientHolds == BothSpec => []ClientInv
<1>1. ClientInit => ClientInv
  BY DEF ClientInit, Init, ClientInv, Loaded
<1> QED
  BY <1>1, ClientStep, PTL DEF BothSpec

\* The client's entries as the properties see them.
LEMMA SaysIs ==
    ASSUME ClientInv, NEW k
    PROVE  /\ IsFile(clientFile)
           /\ EntryOf(k) = Mention(clientFile, k)
           /\ Unambiguous <=> Plain(clientFile)
           /\ \/ EntryOf(k) = 0 /\ Says(k).kind = "absent"
              \/ /\ EntryOf(k) \in 1..Len(clientFile.entries)
                 /\ Says(k) = clientFile.entries[EntryOf(k)].value
                 /\ Says(k).kind \in {"text", "number", "word"}
<1>1. IsFile(clientFile)
  BY ClientAssumption DEF ClientInv, IsFile
<1>2. EntryOf(k) = Mention(clientFile, k)
  BY DEF EntryOf, Mention
<1>3. Unambiguous <=> Plain(clientFile)
  BY DEF Unambiguous, Plain
<1>4. CASE EntryOf(k) = 0
  BY <1>1, <1>2, <1>3, <1>4 DEF Says, Absent
<1>5. CASE EntryOf(k) # 0
  <2>1. EntryOf(k) \in 1..Len(clientFile.entries)
    BY <1>1, <1>2, <1>5, MentionIs
  <2>2. Says(k) = clientFile.entries[EntryOf(k)].value
    BY <1>5 DEF Says
  <2>3. clientFile.entries[EntryOf(k)].value.kind \in {"text", "number", "word"}
    BY <1>1, <2>1 DEF IsFile
  <2> QED
    BY <1>1, <1>2, <1>3, <2>1, <2>2, <2>3
<1> QED
  BY <1>4, <1>5

LEMMA ReadingExact == ClientInv => ClientLoadExact
<1> SUFFICES ASSUME ClientInv, Loaded, Unambiguous, NEW k \in ClientKey
             PROVE  LET n == EntryOf(k)
                        last == n = Len(clientFile.entries)
                        v == Says(k)
                    IN  clientConfig[k] =
                          CASE k \in ClientTextKey /\ v.kind = "text" -> v.text
                            [] k \in ClientTextKey /\ v.kind \notin {"text", "absent"} /\ ~last
                                 -> clientFile.entries[n + 1].key
                            [] /\ k \notin ClientTextKey /\ v.kind = "number"
                               /\ last => clientFile.closed
                               /\ k = "server_port" => v.number \in IntRange
                                 -> v.number % (IF k = "server_port" THEN 65536 ELSE CountModulus)
                            [] OTHER -> ClientDefault[k]
  BY DEF ClientLoadExact
<1> DEFINE n == EntryOf(k)
           v == Says(k)
           d == ClientDefault[k]
           t == Tokens(clientFile)
<1>1. /\ IsFile(clientFile) /\ Plain(clientFile) /\ n = Mention(clientFile, k)
      /\ \/ n = 0 /\ v.kind = "absent"
         \/ /\ n # 0 /\ v = clientFile.entries[n].value
            /\ v.kind \in {"text", "number", "word"}
  BY SaysIs
<1>2. clientConfig[k] = IF k \in ClientTextKey THEN ParseJsonValue(t, k, d)
                                               ELSE ParseJsonNumber(t, k, d)
  BY DEF ClientInv, Reading
<1>3. ParseJsonValue(t, k, d) =
         IF v.kind = "absent" THEN d
         ELSE IF v.kind = "text" THEN v.text
         ELSE IF n # Len(clientFile.entries) THEN clientFile.entries[n + 1].key
         ELSE d
  <2> HIDE DEF n, v, d
  <2> QED
    BY <1>1, TextFound
<1>4. ParseJsonNumber(t, k, d) =
         IF /\ v.kind = "number"
            /\ n = Len(clientFile.entries) => clientFile.closed
            /\ k = "server_port" => v.number \in IntRange
         THEN v.number % (IF k = "server_port" THEN 65536 ELSE CountModulus)
         ELSE d
  <2> HIDE DEF n, v, d
  <2> QED
    BY <1>1, NumberFound
<1>5. CASE k \in ClientTextKey
  <2> HIDE DEF n, v, d, t
  <2>1. clientConfig[k] =
          CASE v.kind = "text" -> v.text
            [] v.kind \notin {"text", "absent"} /\ n # Len(clientFile.entries)
                 -> clientFile.entries[n + 1].key
            [] OTHER -> d
    BY <1>1, <1>2, <1>3, <1>5
  <2> QED
    BY <1>5, <2>1 DEF n, v, d
<1>6. CASE k \notin ClientTextKey
  <2> HIDE DEF n, v, d, t
  <2> QED
    BY <1>1, <1>2, <1>4, <1>6 DEF n, v, d
<1> QED
  BY <1>5, <1>6

\* Whatever the order, the number and the values of its entries, the client
\* makes of a file exactly what ClientLoadExact says.
THEOREM ClientLoadCorrect == BothSpec => []ClientLoadExact
  BY ClientHolds, ReadingExact, PTL

\* A server and a client whose files say the same of the port use the same one.
THEOREM PortsCorrect == BothSpec => []PortsAgree
<1>1. TypeOK /\ LoadExact /\ ClientInv => PortsAgree
  <2> SUFFICES ASSUME TypeOK, LoadExact, ClientInv,
                      pc = "ready", readable, FitUpTo(1), Loaded, Unambiguous,
                      file["udp_port"] = Says("server_port"),
                      file["udp_port"].kind = "number" =>
                          file["udp_port"].number \in IntRange /\ clientFile.closed
               PROVE  clientConfig["server_port"] = number["udp_port"]
    BY DEF PortsAgree
  <2> DEFINE v == Says("server_port")
  <2>1. "server_port" \in ClientKey /\ "server_port" \notin ClientTextKey
    BY DEF ClientKey, ClientTextKey
  <2>2. clientConfig["server_port"] = IF v.kind = "number" THEN v.number % 65536 ELSE 9000
    <3>1. ClientLoadExact
      BY ReadingExact
    <3>2. ClientDefault["server_port"] = 9000
      BY DEF ClientDefault
    <3> QED
      BY <2>1, <3>1, <3>2 DEF ClientLoadExact
  <2>3. "udp_port" \in NumberKey /\ "udp_port" \in PortKey /\ "udp_port" \notin TextKey
    BY DEF NumberKey, PortKey, TextKey
  <2>4. Counts("udp_port") <=> Fits("udp_port", v)
    <3>1. Keys[1] = "udp_ip" /\ Keys[2] = "udp_port" /\ Len(Keys) = 11
      BY DEF Keys
    <3>2. \A n \in 1..11 : Keys[n] = "udp_port" => n = 2
      BY DEF Keys
    <3>3. FitUpTo(2) <=> Fits("udp_port", v)
      BY <3>1 DEF FitUpTo
    <3> QED
      BY <3>1, <3>2, <3>3 DEF Counts
  <2>5. number["udp_port"] = IF v.kind = "number" THEN v.number % 65536 ELSE 9000
    <3>1. DefaultNumber["udp_port"] = 9000
      BY DEF DefaultNumber
    <3>2. v.kind = "number" => Fits("udp_port", v)
      BY <2>3 DEF Fits
    <3> QED
      BY <2>3, <2>4, <3>1, <3>2 DEF LoadExact, Narrowed
  <2> QED
    BY <2>2, <2>5
<1> QED
  BY <1>1, ServerBesideClient, ClientHolds, PTL
===============================================================================
