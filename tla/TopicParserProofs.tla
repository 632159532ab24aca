------------------------- MODULE TopicParserProofs --------------------------
(***************************************************************************)
(* What TopicParser makes of a command topic, for a level of any length    *)
(* over any set of tokens.                                                 *)
(***************************************************************************)
EXTENDS TopicParser, SequenceTheorems, TLAPS

\* The tokens the code itself writes.
Words == {"modbus", "/", "relay", "set"}

\* The tokens of a command topic, one by one.
LEMMA CommandTopicTokens ==
  ASSUME NEW Token, Words \subseteq Token, NEW name \in Seq(Token)
  PROVE  LET t == CommandTopic(name)
             n == Len(name)
         IN  /\ n \in Nat
             /\ t \in Seq(Token)
             /\ Len(t) = n + 6
             /\ t[1] = "modbus" /\ t[2] = "/" /\ t[3] = "relay" /\ t[4] = "/"
             /\ \A k \in 1..n : t[k + 4] = name[k]
             /\ t[n + 5] = "/" /\ t[n + 6] = "set"
<1> DEFINE t == CommandTopic(name)
           n == Len(name)
           head == Prefix \o name
<1>1. n \in Nat
  BY LenProperties
<1>2. /\ Prefix \in Seq(Token) /\ Len(Prefix) = 4
      /\ Prefix[1] = "modbus" /\ Prefix[2] = "/" /\ Prefix[3] = "relay" /\ Prefix[4] = "/"
  BY DEF Prefix, Words
<1>3. /\ Suffix \in Seq(Token) /\ Len(Suffix) = 2
      /\ Suffix[1] = "/" /\ Suffix[2] = "set"
  BY DEF Suffix, Words
<1>4. /\ head \in Seq(Token) /\ Len(head) = n + 4
      /\ \A i \in 1..n + 4 : head[i] = IF i <= 4 THEN Prefix[i] ELSE name[i - 4]
  <2>1. /\ head \in Seq(Token) /\ Len(head) = Len(Prefix) + n
        /\ \A i \in 1..Len(Prefix) + n :
             head[i] = IF i <= Len(Prefix) THEN Prefix[i] ELSE name[i - Len(Prefix)]
    BY <1>2, ConcatProperties
  <2> QED BY <1>1, <1>2, <2>1
<1> HIDE DEF head
<1>5. /\ head \o Suffix \in Seq(Token) /\ Len(head \o Suffix) = n + 6
      /\ \A i \in 1..n + 6 :
           (head \o Suffix)[i] = IF i <= n + 4 THEN head[i] ELSE Suffix[i - (n + 4)]
  <2>1. /\ head \o Suffix \in Seq(Token) /\ Len(head \o Suffix) = Len(head) + Len(Suffix)
        /\ \A i \in 1..Len(head) + Len(Suffix) :
             (head \o Suffix)[i] = IF i <= Len(head) THEN head[i] ELSE Suffix[i - Len(head)]
    BY <1>3, <1>4, ConcatProperties
  <2> QED BY <1>1, <1>3, <1>4, <2>1
<1>6. t = head \o Suffix
  BY DEF CommandTopic, head
<1> HIDE DEF t
<1>7. t[1] = "modbus" /\ t[2] = "/" /\ t[3] = "relay" /\ t[4] = "/"
  BY <1>1, <1>2, <1>4, <1>5, <1>6
<1>8. \A k \in 1..n : t[k + 4] = name[k]
  BY <1>1, <1>4, <1>5, <1>6
<1>9. t[n + 5] = "/" /\ t[n + 6] = "set"
  BY <1>1, <1>3, <1>5, <1>6
<1> QED BY <1>1, <1>5, <1>6, <1>7, <1>8, <1>9 DEF t

\* In the topic of a level the suffix is found at the end; and on the "/" before
\* the level if the level starts with "set"; nowhere else.
LEMMA SuffixOccurrences ==
  ASSUME NEW Token, Words \subseteq Token, NEW name \in Seq(Token), IsLevel(name)
  PROVE  Occurrences(Suffix, CommandTopic(name))
           = {Len(name) + 5} \cup (IF StartsWithSet(name) THEN {4} ELSE {})
<1> DEFINE t == CommandTopic(name)
           n == Len(name)
<1>1. /\ n \in Nat
      /\ Len(t) = n + 6
      /\ t[1] = "modbus" /\ t[2] = "/" /\ t[3] = "relay" /\ t[4] = "/"
      /\ \A k \in 1..n : t[k + 4] = name[k]
      /\ t[n + 5] = "/" /\ t[n + 6] = "set"
  BY CommandTopicTokens
<1>2. \A i \in Int : OccursAt(Suffix, t, i)
                       <=> i + 1 <= Len(t) /\ t[i] = "/" /\ t[i + 1] = "set"
  BY <1>1 DEF OccursAt, Suffix
<1>3. StartsWithSet(name) <=> n > 0 /\ name[1] = "set"
  BY <1>1, EmptySeq DEF StartsWithSet
<1> HIDE DEF t
<1>4. ASSUME NEW i \in 1..n + 6
      PROVE  t[i] = "/" /\ i + 1 <= n + 6 /\ t[i + 1] = "set"
               <=> i = n + 5 \/ (i = 4 /\ StartsWithSet(name))
  <2>1. CASE i \in 1..3
    BY <1>1, <2>1
  <2>2. CASE i = 4
    <3>1. CASE n = 0
      BY <1>1, <1>3, <2>2, <3>1
    <3>2. CASE n > 0
      <4>1. t[5] = name[1]
        BY <1>1, <3>2
      <4> QED BY <1>1, <1>3, <2>2, <3>2, <4>1
    <3> QED BY <1>1, <3>1, <3>2
  <2>3. CASE i \in 5..n + 4
    <3>1. i - 4 \in 1..n /\ i - 4 + 4 = i
      BY <1>1, <2>3
    <3>2. t[i] = name[i - 4]
      BY <1>1, <3>1
    <3>3. t[i] # "/"
      BY <3>1, <3>2 DEF IsLevel
    <3> QED BY <1>1, <2>3, <3>3
  <2>4. CASE i \in n + 5 .. n + 6
    BY <1>1, <2>4
  <2> QED BY <1>1, <2>1, <2>2, <2>3, <2>4
<1>5. \A i : i \in Occurrences(Suffix, t)
               <=> i \in 1..n + 6 /\ (i = n + 5 \/ (i = 4 /\ StartsWithSet(name)))
  BY <1>1, <1>2, <1>4 DEF Occurrences
<1>6. \A i : i \in Occurrences(Suffix, t)
               <=> i \in {n + 5} \cup (IF StartsWithSet(name) THEN {4} ELSE {})
  BY <1>1, <1>5
<1> QED BY <1>6 DEF t

\* The topic of any level is taken for a command.
LEMMA IsCommand ==
  ASSUME NEW Token, Words \subseteq Token, NEW name \in Seq(Token), IsLevel(name)
  PROVE  IsCommandTopic(CommandTopic(name))
<1>1. Occurrences(Suffix, CommandTopic(name)) # {}
  BY SuffixOccurrences
<1>2. OccursAt(Prefix, CommandTopic(name), 1)
  <2> DEFINE t == CommandTopic(name)
  <2>1. /\ Len(t) >= 4
        /\ t[1] = "modbus" /\ t[2] = "/" /\ t[3] = "relay" /\ t[4] = "/"
    BY CommandTopicTokens
  <2> HIDE DEF t
  <2>2. /\ Len(Prefix) = 4
        /\ Prefix[1] = "modbus" /\ Prefix[2] = "/" /\ Prefix[3] = "relay" /\ Prefix[4] = "/"
    BY DEF Prefix
  <2>3. \A k \in 1..4 : t[1 + k - 1] = Prefix[k]
    <3>1. \A k \in 1..4 : k = 1 \/ k = 2 \/ k = 3 \/ k = 4
      OBVIOUS
    <3> QED BY <2>1, <2>2, <3>1
  <2>4. OccursAt(Prefix, t, 1)
    BY <2>1, <2>2, <2>3 DEF OccursAt
  <2> QED BY <2>4 DEF t
<1> QED BY <1>1, <1>2 DEF IsCommandTopic

\* Whatever the level a command topic names, unless it starts with "set", the
\* callback takes the message for a command for exactly that relay.
THEOREM LevelsParsedForAll ==
  ASSUME NEW Token, Words \subseteq Token, NEW name \in Seq(Token), IsLevel(name),
         ~StartsWithSet(name)
  PROVE  IsCommandTopic(CommandTopic(name)) /\ RelayNameOf(CommandTopic(name)) = name
<1> DEFINE t == CommandTopic(name)
           n == Len(name)
<1>1. /\ n \in Nat
      /\ t \in Seq(Token)
      /\ Len(t) = n + 6
      /\ \A k \in 1..n : t[k + 4] = name[k]
  BY CommandTopicTokens
<1>2. Occurrences(Suffix, t) = {n + 5}
  BY SuffixOccurrences
<1> HIDE DEF t
<1>3. SuffixAt(t) = n + 5
  BY <1>1, <1>2 DEF SuffixAt
<1>4. RelayNameOf(t) = SubSeq(t, 5, n + 4)
  <2>1. Len(Prefix) = 4
    BY DEF Prefix
  <2> QED BY <1>1, <1>3, <2>1 DEF RelayNameOf
<1>5. /\ SubSeq(t, 5, n + 4) \in Seq(Token)
      /\ Len(SubSeq(t, 5, n + 4)) = n
      /\ \A i \in 1..n : SubSeq(t, 5, n + 4)[i] = t[i + 4]
  BY <1>1, ElementOfSeq, SubSeqProperties
<1>6. SubSeq(t, 5, n + 4) = name
  BY <1>1, <1>5, SeqEqual
<1> QED BY <1>4, <1>6, IsCommand DEF t

\* For a level that starts with "set" the callback finds the level followed by
\* the suffix: a name with a "/", which no relay of the pattern can have.  The
\* command is lost, and never given to another relay.
THEOREM SetLevelsMangled ==
  ASSUME NEW Token, Words \subseteq Token, NEW name \in Seq(Token), IsLevel(name),
         StartsWithSet(name)
  PROVE  ~IsLevel(RelayNameOf(CommandTopic(name)))
<1> DEFINE t == CommandTopic(name)
           n == Len(name)
<1>1. /\ n \in Nat
      /\ t \in Seq(Token)
      /\ Len(t) = n + 6
      /\ t[n + 5] = "/"
  BY CommandTopicTokens
<1>2. Occurrences(Suffix, t) = {n + 5, 4}
  BY SuffixOccurrences
<1> HIDE DEF t
<1>3. SuffixAt(t) = 4
  <2>1. \E i \in {n + 5, 4} : \A j \in {n + 5, 4} : i <= j
    BY <1>1
  <2>2. \A i \in {n + 5, 4} : (\A j \in {n + 5, 4} : i <= j) => i = 4
    BY <1>1
  <2> QED BY <1>2, <2>1, <2>2 DEF SuffixAt
<1>4. RelayNameOf(t) = SubSeq(t, 5, n + 6)
  <2>1. Len(Prefix) = 4
    BY DEF Prefix
  <2> QED BY <1>1, <1>3, <2>1 DEF RelayNameOf
<1>5. /\ Len(SubSeq(t, 5, n + 6)) = n + 2
      /\ SubSeq(t, 5, n + 6)[n + 1] = t[n + 5]
  BY <1>1, ElementOfSeq, SubSeqProperties
<1>6. n + 1 \in 1 .. Len(RelayNameOf(t)) /\ RelayNameOf(t)[n + 1] = "/"
  BY <1>1, <1>4, <1>5
<1>7. ~IsLevel(RelayNameOf(t))
  BY <1>6 DEF IsLevel
<1> QED BY <1>7 DEF t

============================================================================
