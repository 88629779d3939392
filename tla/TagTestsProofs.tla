---------------------------- MODULE TagTestsProofs ----------------------------
(***************************************************************************)
(* Proofs about TagTests, for queues of any length and any number of tests *)
(* and activations: types, the NDEF message of an interrupted write, and   *)
(* that a test that has ended leaves the tag released and the discovery    *)
(* on, with nothing of an earlier activation in the middleware queue.      *)
(***************************************************************************)
EXTENDS TagTests, SequenceTheorems, TLAPS

-----------------------------------------------------------------------------
(* Programs: what the running handler may have left.                       *)

RestartCmds == {"STOP", "CONFIG", "START", "STARTED"}
StepRec == [cmd : Commands, block : Nat, to : {"-", "zero", "new"}]

(* Steps of the commands cs.                                               *)
StepsOf(cs) == {s \in StepRec : s.cmd \in cs /\ (s.cmd = "WRITE" => s.to # "-")}

Sleeps == Dos(<<"SLEEP", "DEACTIVATE">>)
SleepTest == Dos(<<"I93", "SLEEP", "SELECT", "I93", "CHECK", "CONSUME", "DEACTIVATE">>)

(* The commands of a type of tag.                                          *)
Alphabet(t) ==
  CASE t.tag \in Dep -> {"LOOP", "RECEIVE", "CE_RECEIVE", "SLEEP", "DEACTIVATE"} \cup RestartCmds
    [] t.tag = "T5T" -> {"I93", "CHECK", "READ_NDEF", "WRITE_NDEF", "SET_RO", "SLEEP", "SELECT",
                         "CONSUME", "DEACTIVATE"} \cup RestartCmds
    [] t.tag = "T3T" -> Commands \ {"SLEEP", "SELECT", "CONSUME", "RECEIVE", "CE_RECEIVE", "LOOP"}
    [] t.tag = "T4T" -> Commands \ {"SLEEP", "SELECT", "CONSUME", "RECEIVE", "CE_RECEIVE", "POLL"}
    [] OTHER -> Commands \ {"SLEEP", "SELECT", "CONSUME", "RECEIVE", "CE_RECEIVE", "POLL", "LOOP"}

(* The last n steps are the last steps of a restart, and no others are; it *)
(* is a whole restart, or nothing comes before it.                         *)
EndsWith(p, n) ==
  /\ n <= Len(p)
  /\ \A i \in 1..Len(p) :
       IF i > Len(p) - n THEN p[i] = Restart[i - Len(p) + 5] ELSE p[i].cmd \notin RestartCmds
Restartable(p) == \E n \in 0..5 : EndsWith(p, n) /\ (n \in {0, 5} \/ n = Len(p))

IsSuffix(p, q) == Len(p) <= Len(q) /\ \A i \in 1..Len(p) : p[i] = q[i + Len(q) - Len(p)]
Has(p, cs) == \E i \in 1..Len(p) : p[i].cmd \in cs

WriteTest(t) == t.tag = "T2T" /\ ~t.cr12 /\ t.pattern = 2

ProgFits(t, p) ==
  /\ p \in Seq(StepsOf(Alphabet(t)))
  /\ Restartable(p)
  /\ WriteTest(t) => IsSuffix(p, Body(t) \o Ending(t))
  /\ t.tag = "T5T" /\ t.cr12 => p = <<>> \/ p[Len(p)].cmd = "DEACTIVATE"
  /\ t.tag = "T5T" /\ Has(p, {"SLEEP", "SELECT"}) => IsSuffix(p, SleepTest)
  /\ t.tag \in Dep /\ Has(p, {"SLEEP"}) => p = Sleeps \o Restart

LEMMA CommandSet ==
  Commands = {"CHECK", "READ_NDEF", "WRITE_NDEF", "SET_RO", "READ", "WRITE", "SECTOR", "I93",
              "XCV", "POLL", "LOOP", "SLEEP", "CONSUME", "DEACTIVATE", "SELECT", "RECEIVE",
              "CE_RECEIVE", "STOP", "CONFIG", "START", "RAW", "STARTED"}
BY DEF Commands, Answers

LEMMA AlphabetType ==
  ASSUME NEW t
  PROVE  Alphabet(t) \subseteq Commands
BY CommandSet, Zenon DEF Alphabet, RestartCmds

LEMMA DoType ==
  ASSUME NEW cs, NEW c \in cs \cap Commands, c # "WRITE"
  PROVE  Do(c) \in StepsOf(cs) /\ Do(c).cmd = c
BY DEF Do, StepsOf, StepRec

LEMMA DosType ==
  ASSUME NEW C, NEW cs \in Seq((C \cap Commands) \ {"WRITE"})
  PROVE  /\ Dos(cs) \in Seq(StepsOf(C)) /\ Len(Dos(cs)) = Len(cs)
         /\ \A i \in 1..Len(cs) : Dos(cs)[i] = Do(cs[i])
<1>1. \A i \in 1..Len(cs) : Do(cs[i]) \in StepsOf(C)
  BY DoType
<1>2. Len(cs) \in Nat
  BY LenProperties
<1>3. Dos(cs) \in [1..Len(cs) -> StepsOf(C)]
  BY <1>1 DEF Dos
<1> QED
  BY <1>2, <1>3 DEF Dos

LEMMA TimesType ==
  ASSUME NEW C, NEW c \in (C \cap Commands) \ {"WRITE"}, NEW n \in Nat
  PROVE  Times(n, c) \in Seq(StepsOf(C)) /\ Len(Times(n, c)) = n
<1>1. Times(n, c) \in [1..n -> StepsOf(C)]
  BY DoType DEF Times
<1> QED
  BY <1>1 DEF Times

LEMMA WritesType ==
  ASSUME NEW C, "WRITE" \in C, NEW bs \in Seq(Nat)
  PROVE  Writes(bs) \in Seq(StepsOf(C))
<1>1. \A i \in 1..Len(bs) : Write(bs[i], "new") \in StepsOf(C)
  BY CommandSet DEF Write, StepsOf, StepRec
<1>2. Writes(bs) \in [1..Len(bs) -> StepsOf(C)]
  BY <1>1 DEF Writes
<1> QED
  BY <1>2, LenProperties

LEMMA ConcatType ==
  ASSUME NEW S, NEW p \in Seq(S), NEW q \in Seq(S)
  PROVE  p \o q \in Seq(S) /\ Len(p \o q) = Len(p) + Len(q)
BY ConcatProperties

LEMMA OneStep ==
  ASSUME NEW C, NEW c \in (C \cap Commands) \ {"WRITE"}
  PROVE  <<Do(c)>> \in Seq(StepsOf(C))
BY DoType

LEMMA EmptySteps ==
  ASSUME NEW C
  PROVE  <<>> \in Seq(StepsOf(C))
BY EmptySeq

LEMMA NdefOperationsType ==
  ASSUME NEW C, {"CHECK", "READ_NDEF", "WRITE_NDEF", "SET_RO"} \subseteq C, NEW p
  PROVE  NdefOperations(p) \in Seq(StepsOf(C))
<1> DEFINE S == (C \cap Commands) \ {"WRITE"}
<1>1. /\ <<"CHECK", "READ_NDEF">> \in Seq(S) /\ <<"CHECK", "WRITE_NDEF">> \in Seq(S)
      /\ <<"CHECK", "SET_RO">> \in Seq(S)
  BY CommandSet
<1>2. /\ Dos(<<"CHECK", "READ_NDEF">>) \in Seq(StepsOf(C))
      /\ Dos(<<"CHECK", "WRITE_NDEF">>) \in Seq(StepsOf(C))
      /\ Dos(<<"CHECK", "SET_RO">>) \in Seq(StepsOf(C))
  <2> HIDE DEF S
  <2>1. \A cs \in Seq(S) : Dos(cs) \in Seq(StepsOf(C))
    BY DosType DEF S
  <2> QED
    BY <1>1, <2>1
<1> QED
  BY <1>2, EmptySteps DEF NdefOperations

LEMMA NdefWriteType ==
  ASSUME NEW C, "WRITE" \in C, NEW l
  PROVE  /\ NdefWrite(l) \in Seq(StepsOf(C))
         /\ Len(NdefWrite(l)) = IF l = "12" THEN 11 ELSE 5
<1> DEFINE n == IF l = "12" THEN 9 ELSE 3
           data == [i \in 1..n |-> Write(LengthBlock(l) + i, "new")]
<1>1. \A b \in Nat, v \in {"zero", "new"} : Write(b, v) \in StepsOf(C)
  BY CommandSet DEF Write, StepsOf, StepRec
<1>2. LengthBlock(l) \in Nat /\ n \in Nat
  BY DEF LengthBlock
<1>3. /\ <<Write(LengthBlock(l), "zero")>> \in Seq(StepsOf(C))
      /\ <<Write(LengthBlock(l), "new")>> \in Seq(StepsOf(C))
  BY <1>1, <1>2
<1>4. data \in Seq(StepsOf(C)) /\ Len(data) = n
  <2>1. data \in [1..n -> StepsOf(C)]
    BY <1>1, <1>2
  <2> QED
    BY <1>2, <2>1
<1>5. NdefWrite(l) = (<<Write(LengthBlock(l), "zero")>> \o data) \o <<Write(LengthBlock(l), "new")>>
  BY DEF NdefWrite
<1> HIDE DEF data
<1>6. /\ <<Write(LengthBlock(l), "zero")>> \o data \in Seq(StepsOf(C))
      /\ Len(<<Write(LengthBlock(l), "zero")>> \o data) = 1 + n
  <2> DEFINE first == <<Write(LengthBlock(l), "zero")>>
  <2>1. Len(first) = 1 /\ first \in Seq(StepsOf(C))
    BY <1>3
  <2> HIDE DEF first, n
  <2>2. first \o data \in Seq(StepsOf(C)) /\ Len(first \o data) = 1 + n
    BY <1>4, <2>1, ConcatType
  <2> QED
    BY <2>2 DEF first
<1>7. /\ NdefWrite(l) \in Seq(StepsOf(C)) /\ Len(NdefWrite(l)) = n + 2
  <2>1. Len(<<Write(LengthBlock(l), "new")>>) = 1
    OBVIOUS
  <2> QED
    BY <1>2, <1>3, <1>5, <1>6, <2>1, ConcatType
<1> QED
  BY <1>7

(* A T2T test is put together from a few kinds of sequences.               *)
LEMMA T2TOperationsIn ==
  ASSUME NEW S, NEW t, \A p, q \in S : p \o q \in S,
         <<>> \in S, <<Do("SECTOR")>> \in S, <<Do("READ")>> \in S, Times(8, "RAW") \in S,
         \A n \in Nat : Times(n, "READ") \in S, \A l : NdefWrite(l) \in S,
         \A bs \in Seq(Nat) : Writes(bs) \in S
  PROVE  T2TOperations(t) \in S
<1>1. /\ <<4, 5, 6, 7, 8, 9, 4>> \in Seq(Nat) /\ <<3, 2>> \in Seq(Nat) /\ <<3, 2, 40>> \in Seq(Nat)
      /\ {1, 2, 3, 11} \subseteq Nat
  OBVIOUS
<1>2. CASE t.pattern = 0
  <2>1. T2TOperations(t) = Times(2, "READ") \o Writes(<<4, 5, 6, 7, 8, 9, 4>>)
    BY <1>2 DEF T2TOperations
  <2>2. Times(2, "READ") \in S /\ Writes(<<4, 5, 6, 7, 8, 9, 4>>) \in S
    BY <1>1
  <2> QED
    BY <2>1, <2>2
<1>3. CASE t.pattern = 1
  <2>1. \E n \in {1, 2, 11} : T2TOperations(t) = Times(n, "READ")
    BY <1>3 DEF T2TOperations
  <2> QED
    BY <2>1
<1>4. CASE t.pattern = 2
  <2>1. \/ \E n \in {2, 3} : T2TOperations(t) = Times(n, "READ") \o NdefWrite(t.layout)
        \/ T2TOperations(t) = Times(2, "READ")
    BY <1>4 DEF T2TOperations
  <2>2. /\ Times(2, "READ") \in S
        /\ \A n \in {2, 3} : Times(n, "READ") \o NdefWrite(t.layout) \in S
    OBVIOUS
  <2> QED
    BY <2>1, <2>2
<1>5. CASE t.pattern = 3
  <2>1. CASE t.layout = "06"
    <3>1. T2TOperations(t) = Times(2, "READ") \o Writes(<<3, 2>>)
      BY <1>5, <2>1 DEF T2TOperations
    <3>2. Times(2, "READ") \in S /\ Writes(<<3, 2>>) \in S
      BY <1>1
    <3> QED
      BY <3>1, <3>2
  <2>2. CASE t.layout = "FE"
    <3>1. T2TOperations(t)
            = Times(3, "READ") \o Writes(<<3, 2>>) \o <<Do("SECTOR")>> \o Times(8, "RAW")
      BY <1>5, <2>2 DEF T2TOperations
    <3>2. Times(3, "READ") \in S /\ Writes(<<3, 2>>) \in S
      BY <1>1
    <3>3. Times(3, "READ") \o Writes(<<3, 2>>) \in S
      BY <3>2
    <3>4. Times(3, "READ") \o Writes(<<3, 2>>) \o <<Do("SECTOR")>> \in S
      BY <3>3
    <3> QED
      BY <3>1, <3>4
  <2>3. CASE t.layout = "12"
    <3>1. T2TOperations(t) = Times(3, "READ") \o Writes(<<3, 2, 40>>)
      BY <1>5, <2>3 DEF T2TOperations
    <3>2. Times(3, "READ") \in S /\ Writes(<<3, 2, 40>>) \in S
      BY <1>1
    <3> QED
      BY <3>1, <3>2
  <2>4. CASE t.layout \notin {"06", "FE", "12"}
    <3>1. T2TOperations(t) = <<Do("READ")>>
      BY <1>5, <2>4 DEF T2TOperations
    <3> QED
      BY <3>1
  <2> QED
    BY <2>1, <2>2, <2>3, <2>4
<1>6. CASE t.pattern \notin {0, 1, 2, 3}
  BY <1>6 DEF T2TOperations
<1> QED
  BY <1>2, <1>3, <1>4, <1>5, <1>6

LEMMA T2TOperationsType ==
  ASSUME NEW C, {"READ", "WRITE", "SECTOR", "RAW"} \subseteq C, NEW t
  PROVE  T2TOperations(t) \in Seq(StepsOf(C))
<1> DEFINE S == Seq(StepsOf(C))
<1>1. /\ \A p, q \in S : p \o q \in S
      /\ <<>> \in S /\ <<Do("SECTOR")>> \in S /\ <<Do("READ")>> \in S /\ Times(8, "RAW") \in S
  BY ConcatType, EmptySteps, OneStep, TimesType, CommandSet
<1>2. /\ \A n \in Nat : Times(n, "READ") \in S
      /\ \A l : NdefWrite(l) \in S
      /\ \A bs \in Seq(Nat) : Writes(bs) \in S
  BY TimesType, NdefWriteType, WritesType, CommandSet
<1> HIDE DEF S
<1>3. T2TOperations(t) \in S
  BY <1>1, <1>2, T2TOperationsIn
<1> QED
  BY <1>3 DEF S

LEMMA T3TOperationsType ==
  ASSUME NEW C, {"POLL", "XCV", "RAW"} \subseteq C, NEW t
  PROVE  T3TOperations(t) \in Seq(StepsOf(C))
<1> DEFINE S == Seq(StepsOf(C))
           check == Dos(<<"XCV", "XCV", "RAW">>)
           p3 == {3, 4, 6, 7, 8, AnalogPattern}
           polls == <<Do("POLL")>> \o check
           five == <<Do("POLL")>> \o Times(4, "XCV") \o <<Do("RAW")>>
<1>1. /\ \A p, q \in S : p \o q \in S
      /\ <<>> \in S /\ <<Do("POLL")>> \in S /\ <<Do("RAW")>> \in S
  BY ConcatType, EmptySteps, OneStep, CommandSet
<1>2. \A n \in Nat : Times(n, "XCV") \in S
  BY TimesType, CommandSet
<1>3. check \in S
  <2>1. <<"XCV", "XCV", "RAW">> \in Seq((C \cap Commands) \ {"WRITE"})
    BY CommandSet
  <2> QED
    BY <2>1, DosType
<1> HIDE DEF S, check
<1>4. polls \in S
  BY <1>1, <1>3
<1>5. five \in S
  <2>1. <<Do("POLL")>> \o Times(4, "XCV") \in S
    BY <1>1, <1>2
  <2> QED
    BY <1>1, <2>1
<1>6. \/ \E n \in Nat : T3TOperations(t) = Times(n, "XCV")
      \/ T3TOperations(t) \in {polls, five, <<Do("POLL")>>, <<>>}
  <2>1. CASE t.pattern = 1
    <3>1. T3TOperations(t) = Times(IF t.layout = "old version" THEN 2 ELSE 3, "XCV")
      BY <2>1 DEF T3TOperations, AnalogPattern
    <3> QED
      BY <3>1
  <2>5. CASE t.pattern = 2
    <3>1. T3TOperations(t) = Times(IF t.layout = "as expected" THEN 5 ELSE 2, "XCV")
      BY <2>5 DEF T3TOperations, AnalogPattern
    <3> QED
      BY <3>1
  <2>2. CASE t.pattern \notin {1, 2} /\ t.pattern \in p3
    <3>1. T3TOperations(t) = polls
      BY <2>2 DEF T3TOperations, check, AnalogPattern
    <3> QED
      BY <3>1
  <2>3. CASE t.pattern = 5
    <3>1. T3TOperations(t) = five
      BY <2>3 DEF T3TOperations, AnalogPattern
    <3> QED
      BY <3>1
  <2>4. CASE t.pattern \notin ({1, 2, 5} \cup p3)
    <3>1. T3TOperations(t) = <<Do("POLL")>> \/ T3TOperations(t) = <<>>
      <4>1. CASE t.pattern \in {14, 15}
        BY <4>1 DEF T3TOperations, AnalogPattern
      <4>2. CASE t.pattern \notin {14, 15}
        BY <2>4, <4>2 DEF T3TOperations
      <4> QED
        BY <4>1, <4>2
    <3> QED
      BY <3>1
  <2> QED
    BY <2>1, <2>2, <2>3, <2>4, <2>5
<1> HIDE DEF polls, five
<1>7. T3TOperations(t) \in S
  BY <1>1, <1>2, <1>4, <1>5, <1>6
<1> QED
  BY <1>7 DEF S

LEMMA T5TOperationsType ==
  ASSUME NEW C, NEW t,
         {"I93", "CHECK", "READ_NDEF", "WRITE_NDEF", "SET_RO"} \subseteq C,
         t.pattern = 49 => {"SLEEP", "SELECT"} \subseteq C
  PROVE  T5TOperations_DynamicExecution(t) \in Seq(StepsOf(C))
<1> DEFINE S == Seq(StepsOf(C))
           sleeps == Dos(<<"I93", "SLEEP", "SELECT", "I93", "CHECK">>)
<1>1. /\ \A p, q \in S : p \o q \in S
      /\ <<>> \in S /\ <<Do("I93")>> \in S
  BY ConcatType, EmptySteps, OneStep, CommandSet
<1>2. \A n : NdefOperations(n) \in S
  BY NdefOperationsType
<1>3. t.pattern = 49 => sleeps \in S
  <2>1. t.pattern = 49 =>
          <<"I93", "SLEEP", "SELECT", "I93", "CHECK">> \in Seq((C \cap Commands) \ {"WRITE"})
    BY CommandSet
  <2> QED
    BY <2>1, DosType
<1> HIDE DEF S
<1>4. \A n : <<Do("I93")>> \o NdefOperations(n) \in S
  BY <1>1, <1>2
<1>5. \/ \E n \in 1..3 : T5TOperations_DynamicExecution(t) = <<Do("I93")>> \o NdefOperations(n)
      \/ T5TOperations_DynamicExecution(t) \in {NdefOperations(2), <<>>}
      \/ t.pattern = 49 /\ T5TOperations_DynamicExecution(t) = sleeps
  <2>1. CASE t.pattern = 49
    BY <2>1 DEF T5TOperations_DynamicExecution
  <2>2. CASE t.pattern \in {1, 17, 33}
    <3>1. T5TOperations_DynamicExecution(t) = <<Do("I93")>> \o NdefOperations(1)
      BY <2>2 DEF T5TOperations_DynamicExecution
    <3> QED
      BY <3>1
  <2>3. CASE t.pattern = 2
    <3>1. T5TOperations_DynamicExecution(t) = <<Do("I93")>> \o NdefOperations(2)
      BY <2>3 DEF T5TOperations_DynamicExecution
    <3> QED
      BY <3>1
  <2>4. CASE t.pattern = 3
    <3>1. T5TOperations_DynamicExecution(t) = <<Do("I93")>> \o NdefOperations(3)
      BY <2>4 DEF T5TOperations_DynamicExecution
    <3> QED
      BY <3>1
  <2>5. CASE t.pattern \notin {49, 1, 17, 33, 2, 3}
    BY <2>5 DEF T5TOperations_DynamicExecution
  <2> QED
    BY <2>1, <2>2, <2>3, <2>4, <2>5
<1> HIDE DEF sleeps
<1>6. T5TOperations_DynamicExecution(t) \in S
  BY <1>1, <1>2, <1>3, <1>4, <1>5
<1> QED
  BY <1>6 DEF S

(* The commands of the body of a test, which restarts nothing.             *)
BodyAlphabet(t) ==
  IF t.tag = "T5T" /\ t.pattern # 49
    THEN {"I93", "CHECK", "READ_NDEF", "WRITE_NDEF", "SET_RO"}
    ELSE IF t.tag \in Dep THEN {"LOOP", "RECEIVE"} ELSE Alphabet(t) \ RestartCmds

LEMMA BodyType ==
  ASSUME NEW t \in TestRecords
  PROVE  Body(t) \in Seq(StepsOf(BodyAlphabet(t)))
<1> DEFINE C == BodyAlphabet(t)
           S == Seq(StepsOf(C))
<1>1. <<>> \in S
  BY EmptySteps
<1> SUFFICES Body(t) \in S
  OBVIOUS
<1> HIDE DEF C
<1>2. CASE t.tag = "T1T"
  <2>1. {"CHECK", "READ_NDEF", "WRITE_NDEF", "SET_RO"} \subseteq C
    BY <1>2, CommandSet DEF C, BodyAlphabet, Alphabet, RestartCmds, Dep
  <2>2. \A n : NdefOperations(n) \in S
    BY <2>1, NdefOperationsType
  <2>3. <<Do("CHECK")>> \in S
    BY <2>1, OneStep, CommandSet
  <2>4. Body(t) \in {NdefOperations(t.pattern), <<Do("CHECK")>>}
    BY <1>2, Zenon DEF Body, T1TOperations
  <2> QED
    BY <2>2, <2>3, <2>4
<1>3. CASE t.tag = "T2T"
  <2>1. /\ {"CHECK", "READ_NDEF", "WRITE_NDEF", "SET_RO"} \subseteq C
        /\ {"READ", "WRITE", "SECTOR", "RAW"} \subseteq C
    BY <1>3, CommandSet DEF C, BodyAlphabet, Alphabet, RestartCmds, Dep
  <2>2. \A n : NdefOperations(n) \in S
    BY <2>1, NdefOperationsType
  <2>3. T2TOperations(t) \in S
    BY <2>1, T2TOperationsType
  <2>4. Body(t) \in {NdefOperations(t.pattern), T2TOperations(t)}
    BY <1>3 DEF Body
  <2> QED
    BY <2>2, <2>3, <2>4
<1>4. CASE t.tag = "T3T"
  <2>1. /\ {"CHECK", "READ_NDEF", "WRITE_NDEF", "SET_RO"} \subseteq C
        /\ {"POLL", "XCV", "RAW"} \subseteq C
    BY <1>4, CommandSet DEF C, BodyAlphabet, Alphabet, RestartCmds, Dep
  <2>2. \A n : NdefOperations(n) \in S
    BY <2>1, NdefOperationsType
  <2>3. T3TOperations(t) \in S
    BY <2>1, T3TOperationsType
  <2>4. <<Do("CHECK")>> \in S
    BY <2>1, OneStep, CommandSet
  <2>5. Body(t) \in {NdefOperations(t.pattern), <<Do("CHECK")>>, T3TOperations(t)}
    BY <1>4 DEF Body, T3TOperations_DynamicExecution
  <2> QED
    BY <2>2, <2>3, <2>4, <2>5
<1>5. CASE t.tag = "T4T"
  <2>1. {"CHECK", "READ_NDEF", "WRITE_NDEF", "SET_RO", "LOOP"} \subseteq C
    BY <1>5, CommandSet DEF C, BodyAlphabet, Alphabet, RestartCmds, Dep
  <2>2. \A n : NdefOperations(n) \in S
    BY <2>1, NdefOperationsType
  <2>3. <<Do("LOOP")>> \in S
    BY <2>1, OneStep, CommandSet
  <2>4. Body(t) \in {NdefOperations(t.pattern), NdefOperations(1), NdefOperations(2), <<Do("LOOP")>>, <<>>}
    BY <1>5 DEF Body, T4TOperations, T4TOperations_DynamicExecution
  <2> QED
    BY <1>1, <2>2, <2>3, <2>4
<1>6. CASE t.tag = "T5T"
  <2>1. /\ {"I93", "CHECK", "READ_NDEF", "WRITE_NDEF", "SET_RO"} \subseteq C
        /\ t.pattern = 49 => {"SLEEP", "SELECT"} \subseteq C
    BY <1>6, CommandSet DEF C, BodyAlphabet, Alphabet, RestartCmds, Dep
  <2>2. T5TOperations_DynamicExecution(t) \in S
    BY <2>1, T5TOperationsType
  <2>3. Body(t) \in {T5TOperations_DynamicExecution(t), <<>>}
    BY <1>6 DEF Body
  <2> QED
    BY <1>1, <2>2, <2>3
<1>7. CASE t.tag \in Dep
  <2>1. {"LOOP", "RECEIVE"} \subseteq C
    BY <1>7 DEF C, BodyAlphabet, Dep
  <2>2. Body(t) \in {NfcdepInitiatorOperations, NfcdepTargetOperations}
    BY <1>7 DEF Body, Dep

  <2>3. <<Do("LOOP")>> \in S
    BY <2>1, OneStep, CommandSet
  <2>4. Dos(<<"RECEIVE", "LOOP">>) \in S
    <3>1. <<"RECEIVE", "LOOP">> \in Seq((C \cap Commands) \ {"WRITE"})
      BY <2>1, CommandSet
    <3> QED
      BY <3>1, DosType
  <2> QED
    BY <2>2, <2>3, <2>4 DEF NfcdepInitiatorOperations, NfcdepTargetOperations
<1> QED
  BY <1>2, <1>3, <1>4, <1>5, <1>6, <1>7 DEF TestRecords

LEMMA DoCmd ==
  ASSUME NEW c
  PROVE  Do(c).cmd = c
BY DEF Do

LEMMA RestartSteps ==
  /\ Restart \in Seq(StepsOf(RestartCmds)) /\ Len(Restart) = 5
  /\ Restart[1] = Do("STOP") /\ Restart[2] = Do("CONFIG") /\ Restart[3] = Do("CONFIG")
  /\ Restart[4] = Do("START") /\ Restart[5] = Do("STARTED")
<1> DEFINE cs == <<"STOP", "CONFIG", "CONFIG", "START", "STARTED">>
<1>1. cs \in Seq((RestartCmds \cap Commands) \ {"WRITE"}) /\ Len(cs) = 5
  BY CommandSet DEF RestartCmds
<1>2. cs[1] = "STOP" /\ cs[2] = "CONFIG" /\ cs[3] = "CONFIG" /\ cs[4] = "START" /\ cs[5] = "STARTED"
  OBVIOUS
<1> HIDE DEF cs
<1>3. /\ Dos(cs) \in Seq(StepsOf(RestartCmds)) /\ Len(Dos(cs)) = 5
      /\ \A i \in 1..5 : Dos(cs)[i] = Do(cs[i])
  BY <1>1, DosType
<1>4. Restart = Dos(cs)
  BY DEF Restart, cs
<1> QED
  BY <1>2, <1>3, <1>4

LEMMA SleepsSteps ==
  /\ Sleeps \in Seq(StepsOf({"SLEEP", "DEACTIVATE"})) /\ Len(Sleeps) = 2
  /\ Sleeps[1] = Do("SLEEP") /\ Sleeps[2] = Do("DEACTIVATE")
<1> DEFINE cs == <<"SLEEP", "DEACTIVATE">>
           C == {"SLEEP", "DEACTIVATE"}
<1>1. cs \in Seq((C \cap Commands) \ {"WRITE"}) /\ Len(cs) = 2
  BY CommandSet
<1>2. cs[1] = "SLEEP" /\ cs[2] = "DEACTIVATE"
  OBVIOUS
<1> HIDE DEF cs
<1>3. /\ Dos(cs) \in Seq(StepsOf(C)) /\ Len(Dos(cs)) = 2
      /\ \A i \in 1..2 : Dos(cs)[i] = Do(cs[i])
  BY <1>1, DosType
<1>4. Sleeps = Dos(cs)
  BY DEF Sleeps, cs
<1> QED
  BY <1>2, <1>3, <1>4

SleepCmds == {"I93", "SLEEP", "SELECT", "CHECK", "CONSUME", "DEACTIVATE"}

LEMMA SleepTestSteps ==
  /\ SleepTest \in Seq(StepsOf(SleepCmds)) /\ Len(SleepTest) = 7
  /\ SleepTest[1] = Do("I93") /\ SleepTest[2] = Do("SLEEP") /\ SleepTest[3] = Do("SELECT")
  /\ SleepTest[4] = Do("I93") /\ SleepTest[5] = Do("CHECK") /\ SleepTest[6] = Do("CONSUME")
  /\ SleepTest[7] = Do("DEACTIVATE")
<1> DEFINE cs == <<"I93", "SLEEP", "SELECT", "I93", "CHECK", "CONSUME", "DEACTIVATE">>
<1>1. cs \in Seq((SleepCmds \cap Commands) \ {"WRITE"}) /\ Len(cs) = 7
  BY CommandSet DEF SleepCmds
<1>2. /\ cs[1] = "I93" /\ cs[2] = "SLEEP" /\ cs[3] = "SELECT" /\ cs[4] = "I93" /\ cs[5] = "CHECK"
      /\ cs[6] = "CONSUME" /\ cs[7] = "DEACTIVATE"
  OBVIOUS
<1> HIDE DEF cs
<1>3. /\ Dos(cs) \in Seq(StepsOf(SleepCmds)) /\ Len(Dos(cs)) = 7
      /\ \A i \in 1..7 : Dos(cs)[i] = Do(cs[i])
  BY <1>1, DosType
<1>4. SleepTest = Dos(cs)
  BY DEF SleepTest, cs
<1> QED
  BY <1>2, <1>3, <1>4

LEMMA ReleaseSteps ==
  Release \in Seq(StepsOf({"DEACTIVATE"})) /\ Len(Release) = 1 /\ Release[1] = Do("DEACTIVATE")
<1>1. Do("DEACTIVATE") \in StepsOf({"DEACTIVATE"})
  BY DoType, CommandSet
<1> QED
  BY <1>1 DEF Release

(* What the sequences of steps made of other sequences are.                *)
LEMMA StepsMonotonic ==
  ASSUME NEW C, NEW D, C \subseteq D, NEW p \in Seq(StepsOf(C))
  PROVE  p \in Seq(StepsOf(D))
<1>1. StepsOf(C) \subseteq StepsOf(D)
  BY DEF StepsOf
<1> QED
  BY <1>1, SeqMonotonic

LEMMA StepsCmds ==
  ASSUME NEW C, NEW p \in Seq(StepsOf(C))
  PROVE  /\ Len(p) \in Nat
         /\ \A i \in 1..Len(p) : p[i] \in StepRec /\ p[i].cmd \in C
BY DEF StepsOf

LEMMA PlainRestartable ==
  ASSUME NEW C, C \cap RestartCmds = {}, NEW p \in Seq(StepsOf(C))
  PROVE  Restartable(p)
<1>1. EndsWith(p, 0)
  BY StepsCmds DEF EndsWith
<1> QED
  BY <1>1 DEF Restartable

LEMMA RestartableAfter ==
  ASSUME NEW C, C \cap RestartCmds = {}, NEW p \in Seq(StepsOf(C))
  PROVE  Restartable(p \o Restart)
<1>1. /\ Len(p \o Restart) = Len(p) + 5
      /\ \A i \in 1..(Len(p) + 5) :
           (p \o Restart)[i] = IF i <= Len(p) THEN p[i] ELSE Restart[i - Len(p)]
  <2> DEFINE S == StepsOf(C \cup RestartCmds)
  <2>1. p \in Seq(S) /\ Restart \in Seq(S)
    BY RestartSteps, StepsMonotonic
  <2> HIDE DEF S
  <2>2. Len(p) \in Nat /\ Len(Restart) = 5
    BY RestartSteps, LenProperties
  <2>3. /\ Len(p \o Restart) = Len(p) + Len(Restart)
        /\ \A i \in 1..(Len(p) + Len(Restart)) :
             (p \o Restart)[i] = IF i <= Len(p) THEN p[i] ELSE Restart[i - Len(p)]
    BY <2>1, ConcatProperties
  <2> QED
    BY <2>2, <2>3
<1>2. EndsWith(p \o Restart, 5)
  BY <1>1, StepsCmds DEF EndsWith
<1> QED
  BY <1>2 DEF Restartable

LEMMA TailRestartable ==
  ASSUME NEW S, NEW p \in Seq(S), p # <<>>, Restartable(p)
  PROVE  Restartable(Tail(p))
<1>1. PICK n \in 0..5 : EndsWith(p, n) /\ (n \in {0, 5} \/ n = Len(p))
  BY DEF Restartable
<1>2. /\ Len(Tail(p)) = Len(p) - 1 /\ Len(p) \in Nat \ {0}
      /\ \A i \in 1..(Len(p) - 1) : Tail(p)[i] = p[i + 1]
  BY HeadTailProperties, LenProperties, EmptySeq
<1> DEFINE q == Tail(p)
<1>5. Len(q) = Len(p) - 1 /\ \A i \in 1..(Len(p) - 1) : q[i] = p[i + 1]
  BY <1>2
<1>6. n <= Len(p) /\ Len(p) \in Nat \ {0}
  BY <1>1, <1>2 DEF EndsWith
<1> HIDE DEF q
<1>3. CASE n = Len(p)
  <2>1. n - 1 \in 0..5 /\ n - 1 <= Len(q)
    BY <1>5, <1>6, <1>3
  <2>2. \A i \in 1..Len(q) : q[i] = Restart[(i + 1) - Len(p) + 5]
    BY <1>1, <1>5, <1>6, <1>3 DEF EndsWith
  <2>3. \A i \in 1..Len(q) : (i + 1) - Len(p) + 5 = i - Len(q) + 5 /\ i > Len(q) - (n - 1)
    BY <1>5, <1>6, <1>3
  <2>4. EndsWith(q, n - 1)
    BY <2>1, <2>2, <2>3 DEF EndsWith
  <2> QED
    BY <1>3, <1>5, <2>1, <2>4 DEF Restartable, q
<1>4. CASE n # Len(p)
  <2>1. \A i \in 1..Len(q) : IF i + 1 > Len(p) - n THEN q[i] = Restart[(i + 1) - Len(p) + 5]
                                                  ELSE q[i].cmd \notin RestartCmds
    <3> TAKE i \in 1..Len(q)
    <3>1. i + 1 \in 1..Len(p) /\ q[i] = p[i + 1]
      BY <1>5, <1>6
    <3>2. IF i + 1 > Len(p) - n THEN p[i + 1] = Restart[(i + 1) - Len(p) + 5]
                                ELSE p[i + 1].cmd \notin RestartCmds
      BY <1>1, <3>1 DEF EndsWith
    <3> QED
      BY <3>1, <3>2
  <2>2. \A i \in 1..Len(q) : /\ (i + 1) - Len(p) + 5 = i - Len(q) + 5
                             /\ i + 1 > Len(p) - n <=> i > Len(q) - n
    BY <1>5, <1>6
  <2>3. n <= Len(q)
    BY <1>1, <1>5, <1>6, <1>4 DEF EndsWith
  <2>4. EndsWith(q, n) /\ n \in {0, 5}
    BY <1>1, <1>4, <2>1, <2>2, <2>3 DEF EndsWith
  <2> QED
    BY <2>4 DEF Restartable, q
<1> QED
  BY <1>3, <1>4

LEMMA RestartRestartable == Restartable(Restart)
<1>1. EndsWith(Restart, 5)
  BY RestartSteps DEF EndsWith
<1> QED
  BY <1>1 DEF Restartable

LEMMA TailSuffix ==
  ASSUME NEW S, NEW p \in Seq(S), p # <<>>, NEW q \in Seq(S), IsSuffix(p, q)
  PROVE  IsSuffix(Tail(p), q)
BY HeadTailProperties, LenProperties, EmptySeq DEF IsSuffix

LEMMA ConcatSuffix ==
  ASSUME NEW S, NEW p \in Seq(S), NEW q \in Seq(S)
  PROVE  IsSuffix(q, p \o q) /\ IsSuffix(q, q) /\ IsSuffix(<<>>, q)
BY ConcatProperties, LenProperties, EmptySeq DEF IsSuffix

Consuming == <<Do("CONSUME")>> \o Release

LEMMA ConsumingSteps ==
  /\ Consuming \in Seq(StepsOf({"CONSUME", "DEACTIVATE"})) /\ Len(Consuming) = 2
  /\ Consuming[1] = Do("CONSUME") /\ Consuming[2] = Do("DEACTIVATE")
<1>1. Do("CONSUME") \in StepsOf({"CONSUME", "DEACTIVATE"})
      /\ Do("DEACTIVATE") \in StepsOf({"CONSUME", "DEACTIVATE"})
  BY DoType, CommandSet
<1> DEFINE S == StepsOf({"CONSUME", "DEACTIVATE"})
           c == <<Do("CONSUME")>>
<1>2. c \in Seq(S) /\ Len(c) = 1 /\ c[1] = Do("CONSUME")
  BY <1>1
<1>3. Release \in Seq(S) /\ Len(Release) = 1 /\ Release[1] = Do("DEACTIVATE")
  BY <1>1, ReleaseSteps, StepsMonotonic
<1> HIDE DEF c, S
<1>4. /\ c \o Release \in Seq(S) /\ Len(c \o Release) = 2
      /\ (c \o Release)[1] = Do("CONSUME") /\ (c \o Release)[2] = Do("DEACTIVATE")
  BY <1>2, <1>3, ConcatProperties
<1> QED
  BY <1>4 DEF Consuming, S, c

LEMMA EndingCases ==
  ASSUME NEW t \in TestRecords
  PROVE  \/ Ending(t) = Restart /\ t.tag \in {"T5T", "T4T", "T3T"} \cup Dep
                                /\ (t.tag = "T5T" => ~t.cr12)
         \/ Ending(t) = Release /\ t.tag \in {"T1T", "T2T", "T3T", "T4T"}
         \/ Ending(t) = Consuming /\ t.tag = "T5T" /\ t.cr12
<1>1. CASE t.tag = "T5T"
  <2>1. CASE t.cr12
    <3>1. Ending(t) = Consuming
      <4>1. Ending(t) = <<Do("CONSUME")>> \o Release
        BY <1>1, <2>1 DEF Ending, Dep
      <4> QED
        BY <4>1 DEF Consuming
    <3> QED
      BY <1>1, <2>1, <3>1
  <2>2. CASE ~t.cr12
    BY <1>1, <2>2 DEF Ending
  <2> QED
    BY <2>1, <2>2
<1>2. CASE t.tag = "T4T"
  BY <1>2 DEF Ending
<1>3. CASE t.tag = "T3T"
  BY <1>3 DEF Ending
<1>4. CASE t.tag \in Dep
  BY <1>4 DEF Ending, Dep
<1>5. CASE t.tag \in {"T1T", "T2T"}
  BY <1>5 DEF Ending, Dep
<1> QED
  BY <1>1, <1>2, <1>3, <1>4, <1>5 DEF TestRecords

LEMMA Alphabets ==
  ASSUME NEW t \in TestRecords
  PROVE  /\ "DEACTIVATE" \in Alphabet(t) /\ RestartCmds \subseteq Alphabet(t)
         /\ BodyAlphabet(t) \subseteq Alphabet(t) /\ BodyAlphabet(t) \cap RestartCmds = {}
         /\ t.tag = "T5T" => "CONSUME" \in Alphabet(t)
         /\ t.tag # "T5T" \/ t.pattern # 49 => {"SLEEP", "SELECT"} \cap BodyAlphabet(t) = {}
         /\ t.tag \in Dep => {"SLEEP", "CE_RECEIVE"} \subseteq Alphabet(t)
         /\ t.tag = "T3T" => "XCV" \in Alphabet(t)
<1> USE CommandSet DEF BodyAlphabet, Alphabet, RestartCmds, Dep
<1>1. CASE t.tag = "T5T"
  BY <1>1
<1>2. CASE t.tag \in Dep
  BY <1>2
<1>3. CASE t.tag = "T3T"
  BY <1>3
<1>4. CASE t.tag \in {"T1T", "T2T", "T4T"}
  BY <1>4
<1> QED
  BY <1>1, <1>2, <1>3, <1>4 DEF TestRecords

(* What ends a handler fits the test.                                      *)
LEMMA EmptyFits ==
  ASSUME NEW t \in TestRecords
  PROVE  ProgFits(t, <<>>)
<1>1. <<>> \in Seq(StepsOf(Alphabet(t))) /\ Len(<<>>) = 0
  BY EmptySteps
<1>2. Restartable(<<>>)
  BY <1>1 DEF Restartable, EndsWith
<1>3. IsSuffix(<<>>, SleepTest)
  BY SleepTestSteps, ConcatSuffix, EmptySteps
<1>4. Body(t) \o Ending(t) \in Seq(StepsOf(Alphabet(t)))
  <2>1. Body(t) \in Seq(StepsOf(Alphabet(t)))
    BY BodyType, Alphabets, StepsMonotonic
  <2>2. Ending(t) \in Seq(StepsOf(Alphabet(t)))
    BY EndingCases, RestartSteps, ReleaseSteps, ConsumingSteps, Alphabets, StepsMonotonic
  <2> QED
    BY <2>1, <2>2, ConcatType
<1>5. IsSuffix(<<>>, Body(t) \o Ending(t))
  BY <1>4, ConcatSuffix
<1>6. ~Has(<<>>, {"SLEEP", "SELECT"}) /\ ~Has(<<>>, {"SLEEP"})
  BY <1>1 DEF Has
<1> QED
  BY <1>1, <1>2, <1>3, <1>5, <1>6 DEF ProgFits

LEMMA BodyEndingType ==
  ASSUME NEW t \in TestRecords
  PROVE  /\ Body(t) \in Seq(StepsOf(Alphabet(t))) /\ Ending(t) \in Seq(StepsOf(Alphabet(t)))
         /\ Body(t) \o Ending(t) \in Seq(StepsOf(Alphabet(t)))
         /\ Len(Body(t) \o Ending(t)) = Len(Body(t)) + Len(Ending(t))
<1>1. Body(t) \in Seq(StepsOf(Alphabet(t)))
  BY BodyType, Alphabets, StepsMonotonic
<1>2. Ending(t) \in Seq(StepsOf(Alphabet(t)))
  BY EndingCases, RestartSteps, ReleaseSteps, ConsumingSteps, Alphabets, StepsMonotonic
<1> QED
  BY <1>1, <1>2, ConcatType

LEMMA NoneOf ==
  ASSUME NEW C, NEW D, C \cap D = {}, NEW p \in Seq(StepsOf(C))
  PROVE  ~Has(p, D)
BY StepsCmds DEF Has

(* The restart of the discovery, and what may come before it.              *)
LEMMA RestartFits ==
  ASSUME NEW t \in TestRecords, ~WriteTest(t), t.tag = "T5T" => ~t.cr12
  PROVE  ProgFits(t, Restart)
<1>1. Restart \in Seq(StepsOf(Alphabet(t)))
  BY RestartSteps, Alphabets, StepsMonotonic
<1>2. ~Has(Restart, {"SLEEP", "SELECT"}) /\ ~Has(Restart, {"SLEEP"})
  BY RestartSteps, NoneOf DEF RestartCmds
<1> QED
  BY <1>1, <1>2, RestartRestartable DEF ProgFits

LEMMA RestartAfterFits ==
  ASSUME NEW t \in TestRecords, t.tag # "T2T", t.tag # "T5T",
         NEW C, C \cap RestartCmds = {}, "SLEEP" \notin C, C \subseteq Alphabet(t),
         NEW p \in Seq(StepsOf(C))
  PROVE  ProgFits(t, p \o Restart)
<1>1. p \o Restart \in Seq(StepsOf(C \cup RestartCmds))
  BY RestartSteps, StepsMonotonic, ConcatType
<1>2. p \o Restart \in Seq(StepsOf(Alphabet(t)))
  BY <1>1, Alphabets, StepsMonotonic
<1>3. ~Has(p \o Restart, {"SLEEP"})
  BY <1>1, NoneOf DEF RestartCmds
<1> QED
  BY <1>2, <1>3, RestartableAfter DEF ProgFits, WriteTest

LEMMA SleepsRestartFits ==
  ASSUME NEW t \in TestRecords, t.tag \in Dep
  PROVE  ProgFits(t, Sleeps \o Restart)
<1>1. {"SLEEP", "DEACTIVATE"} \cap RestartCmds = {} /\ {"SLEEP", "DEACTIVATE"} \subseteq Alphabet(t)
  BY Alphabets DEF RestartCmds
<1>2. Sleeps \in Seq(StepsOf(Alphabet(t))) /\ Restart \in Seq(StepsOf(Alphabet(t)))
  BY <1>1, SleepsSteps, RestartSteps, Alphabets, StepsMonotonic
<1>3. Sleeps \o Restart \in Seq(StepsOf(Alphabet(t)))
  BY <1>2, ConcatType
<1>4. Restartable(Sleeps \o Restart)
  BY <1>1, SleepsSteps, RestartableAfter
<1> QED
  BY <1>3, <1>4 DEF ProgFits, WriteTest, Dep

LEMMA SleepsRestartSteps ==
  /\ Len(Sleeps \o Restart) = 7
  /\ (Sleeps \o Restart)[1] = Do("SLEEP") /\ (Sleeps \o Restart)[2] = Do("DEACTIVATE")
  /\ \A i \in 3..7 : (Sleeps \o Restart)[i] = Restart[i - 2]
<1> DEFINE S == StepsOf({"SLEEP", "DEACTIVATE"} \cup RestartCmds)
<1>1. Sleeps \in Seq(S) /\ Restart \in Seq(S)
  BY SleepsSteps, RestartSteps, StepsMonotonic
<1> HIDE DEF S
<1>2. Len(Sleeps) = 2 /\ Len(Restart) = 5 /\ Sleeps[1] = Do("SLEEP") /\ Sleeps[2] = Do("DEACTIVATE")
  BY SleepsSteps, RestartSteps
<1>3. /\ Len(Sleeps \o Restart) = Len(Sleeps) + Len(Restart)
      /\ \A i \in 1..(Len(Sleeps) + Len(Restart)) :
           (Sleeps \o Restart)[i] = IF i <= Len(Sleeps) THEN Sleeps[i] ELSE Restart[i - Len(Sleeps)]
  BY <1>1, ConcatProperties
<1> QED
  BY <1>2, <1>3

LEMMA ReleaseFits ==
  ASSUME NEW t \in TestRecords, ~WriteTest(t)
  PROVE  ProgFits(t, Release)
<1>1. Release \in Seq(StepsOf(Alphabet(t)))
  BY ReleaseSteps, Alphabets, StepsMonotonic
<1>2. ~Has(Release, {"SLEEP", "SELECT"}) /\ ~Has(Release, {"SLEEP"})
  BY ReleaseSteps, NoneOf
<1>3. Restartable(Release)
  BY ReleaseSteps, PlainRestartable DEF RestartCmds
<1>4. Release[Len(Release)].cmd = "DEACTIVATE"
  BY ReleaseSteps, DoCmd
<1> QED
  BY <1>1, <1>2, <1>3, <1>4 DEF ProgFits

LEMMA OneStepFits ==
  ASSUME NEW t \in TestRecords, t.tag # "T2T", t.tag # "T5T",
         NEW c \in Alphabet(t), c \notin RestartCmds \cup {"SLEEP", "WRITE"}
  PROVE  ProgFits(t, <<Do(c)>>)
<1>1. c \in Commands
  BY AlphabetType
<1>2. <<Do(c)>> \in Seq(StepsOf({c}))
  BY <1>1, OneStep
<1>3. <<Do(c)>> \in Seq(StepsOf(Alphabet(t)))
  BY <1>2, StepsMonotonic
<1>4. ~Has(<<Do(c)>>, {"SLEEP"})
  BY <1>2, NoneOf
<1>5. Restartable(<<Do(c)>>)
  BY <1>2, PlainRestartable
<1> QED
  BY <1>3, <1>4, <1>5 DEF ProgFits, WriteTest

LEMMA TailFits ==
  ASSUME NEW t \in TestRecords, NEW p, p # <<>>, ProgFits(t, p)
  PROVE  ProgFits(t, Tail(p))
<1> DEFINE S == StepsOf(Alphabet(t))
           q == Tail(p)
<1>1. /\ p \in Seq(S) /\ q \in Seq(S)
      /\ Len(q) = Len(p) - 1 /\ Len(p) \in Nat \ {0}
      /\ \A i \in 1..Len(q) : q[i] = p[i + 1]
  BY HeadTailProperties, LenProperties, EmptySeq DEF ProgFits
<1>2. Restartable(q)
  BY <1>1, TailRestartable DEF ProgFits
<1>3. WriteTest(t) => IsSuffix(q, Body(t) \o Ending(t))
  BY <1>1, BodyEndingType, TailSuffix DEF ProgFits
<1>4. \A cs : Has(q, cs) => Has(p, cs)
  <2> SUFFICES ASSUME NEW cs, NEW i \in 1..Len(q), q[i].cmd \in cs PROVE Has(p, cs)
    BY DEF Has
  <2>1. i + 1 \in 1..Len(p) /\ p[i + 1].cmd \in cs
    BY <1>1
  <2> QED
    BY <2>1 DEF Has
<1>5. t.tag = "T5T" /\ Has(q, {"SLEEP", "SELECT"}) => IsSuffix(q, SleepTest)
  <2> SUFFICES ASSUME t.tag = "T5T", Has(q, {"SLEEP", "SELECT"}) PROVE IsSuffix(q, SleepTest)
    OBVIOUS
  <2>1. SleepTest \in Seq(S)
    BY SleepTestSteps, StepsMonotonic DEF SleepCmds, Alphabet, Dep
  <2> QED
    BY <1>1, <1>4, <2>1, TailSuffix DEF ProgFits
<1>6. ASSUME t.tag \in Dep, Has(q, {"SLEEP"}) PROVE FALSE
  <2>1. p = Sleeps \o Restart
    BY <1>4, <1>6 DEF ProgFits
  <2>2. Len(p) = 7 /\ p[2].cmd # "SLEEP"
    BY <2>1, SleepsRestartSteps, DoCmd
  <2>3. \A i \in 3..7 : p[i].cmd # "SLEEP"
    <3>1. \A i \in 1..5 : Restart[i].cmd \in RestartCmds
      BY RestartSteps, StepsCmds
    <3>2. \A i \in 3..7 : i - 2 \in 1..5 /\ p[i] = Restart[i - 2]
      BY <2>1, SleepsRestartSteps
    <3> QED
      BY <3>1, <3>2 DEF RestartCmds
  <2>4. PICK i \in 1..Len(q) : q[i].cmd = "SLEEP"
    BY <1>6 DEF Has
  <2>5. i + 1 \in 2..7 /\ p[i + 1].cmd = "SLEEP"
    <3> HIDE DEF q
    <3> QED
      BY <1>1, <2>2, <2>4
  <2> QED
    BY <2>2, <2>3, <2>5
<1>7. t.tag = "T5T" /\ t.cr12 => q = <<>> \/ q[Len(q)].cmd = "DEACTIVATE"
  <2> SUFFICES ASSUME t.tag = "T5T", t.cr12, q # <<>> PROVE q[Len(q)].cmd = "DEACTIVATE"
    OBVIOUS
  <2>1. Len(q) \in 1..Len(q) /\ q[Len(q)] = p[Len(p)]
    BY <1>1, EmptySeq, LenProperties
  <2> QED
    BY <2>1 DEF ProgFits
<1> HIDE DEF q
<1>8. q \in Seq(StepsOf(Alphabet(t)))
  BY <1>1
<1>9. t.tag \in Dep /\ Has(q, {"SLEEP"}) => q = Sleeps \o Restart
  BY <1>6
<1>10. ProgFits(t, q)
  BY <1>2, <1>3, <1>5, <1>7, <1>8, <1>9 DEF ProgFits
<1> QED
  BY <1>10 DEF q

(* The test that puts its tag to sleep.                                    *)
LEMMA SleepTestStarts ==
  ASSUME NEW t \in TestRecords, t.tag = "T5T", t.cr12, t.pattern = 49
  PROVE  IsSuffix(Body(t) \o Ending(t), SleepTest)
<1> DEFINE cs == <<"I93", "SLEEP", "SELECT", "I93", "CHECK">>
           S == StepsOf(SleepCmds)
<1>1. cs \in Seq((SleepCmds \cap Commands) \ {"WRITE"}) /\ Len(cs) = 5
  BY CommandSet DEF SleepCmds
<1>2. cs[1] = "I93" /\ cs[2] = "SLEEP" /\ cs[3] = "SELECT" /\ cs[4] = "I93" /\ cs[5] = "CHECK"
  OBVIOUS
<1>3. Body(t) = Dos(cs)
  <2>1. T5TOperations_DynamicExecution(t) = Dos(cs)
    BY DEF T5TOperations_DynamicExecution
  <2>2. Body(t) = T5TOperations_DynamicExecution(t)
    BY DEF Body
  <2> QED
    BY <2>1, <2>2
<1>4. Ending(t) = Consuming
  BY EndingCases DEF Dep
<1> HIDE DEF cs
<1>5. Body(t) \in Seq(S) /\ Len(Body(t)) = 5 /\ \A i \in 1..5 : Body(t)[i] = Do(cs[i])
  <2>1. cs \in Seq((SleepCmds \cap Commands) \ {"WRITE"})
    BY <1>1
  <2>2. /\ Dos(cs) \in Seq(S) /\ Len(Dos(cs)) = Len(cs)
        /\ \A i \in 1..Len(cs) : Dos(cs)[i] = Do(cs[i])
    BY <2>1, DosType
  <2> QED
    BY <1>1, <1>3, <2>2
<1>6. Ending(t) \in Seq(S)
  BY <1>4, ConsumingSteps, StepsMonotonic DEF SleepCmds
<1> DEFINE p == Body(t) \o Ending(t)
<1> HIDE DEF S
<1>7. /\ Len(p) = 5 + 2
      /\ \A i \in 1..7 : p[i] = IF i <= 5 THEN Body(t)[i] ELSE Consuming[i - 5]
  <2>1. Len(Ending(t)) = 2
    BY <1>4, ConsumingSteps
  <2>2. /\ Len(p) = Len(Body(t)) + Len(Ending(t))
        /\ \A i \in 1..(Len(Body(t)) + Len(Ending(t))) :
             p[i] = IF i <= Len(Body(t)) THEN Body(t)[i] ELSE Ending(t)[i - Len(Body(t))]
    <3>1. Body(t) \in Seq(S) /\ Ending(t) \in Seq(S)
      BY <1>5, <1>6
    <3> QED
      BY <3>1, ConcatProperties
  <2> QED
    BY <1>4, <1>5, <2>1, <2>2
<1> HIDE DEF p
<1>8. \A i \in 1..7 : p[i] = SleepTest[i]
  <2>1. \A i \in 1..5 : p[i] = SleepTest[i]
    BY <1>2, <1>5, <1>7, SleepTestSteps
  <2>2. p[6] = SleepTest[6] /\ p[7] = SleepTest[7]
    BY <1>7, ConsumingSteps, SleepTestSteps
  <2> QED
    BY <2>1, <2>2
<1>9. IsSuffix(p, SleepTest)
  BY <1>7, <1>8, SleepTestSteps DEF IsSuffix
<1> QED
  BY <1>9 DEF p

LEMMA TestStartFits ==
  ASSUME NEW t \in TestRecords
  PROVE  ProgFits(t, Body(t) \o Ending(t))
<1> DEFINE p == Body(t) \o Ending(t)
<1>1. Body(t) \in Seq(StepsOf(BodyAlphabet(t))) /\ BodyAlphabet(t) \cap RestartCmds = {}
  BY BodyType, Alphabets
<1>2. p \in Seq(StepsOf(Alphabet(t)))
  BY BodyEndingType
<1>3. Restartable(p)
  <2>1. CASE Ending(t) = Restart
    BY <1>1, <2>1, RestartableAfter
  <2>2. CASE Ending(t) # Restart
    <3> DEFINE C == BodyAlphabet(t) \cup {"CONSUME", "DEACTIVATE"}
    <3>1. C \cap RestartCmds = {}
      BY <1>1 DEF RestartCmds
    <3>2. Body(t) \in Seq(StepsOf(C)) /\ Ending(t) \in Seq(StepsOf(C))
      BY <1>1, <2>2, EndingCases, ReleaseSteps, ConsumingSteps, StepsMonotonic
    <3>3. p \in Seq(StepsOf(C))
      BY <3>2, ConcatType
    <3> QED
      BY <3>1, <3>3, PlainRestartable
  <2> QED
    BY <2>1, <2>2
<1>4. IsSuffix(p, p)
  BY <1>2, ConcatSuffix
<1>5. t.tag = "T5T" /\ Has(p, {"SLEEP", "SELECT"}) => IsSuffix(p, SleepTest)
  <2> SUFFICES ASSUME t.tag = "T5T", Has(p, {"SLEEP", "SELECT"}), ~(t.cr12 /\ t.pattern = 49)
               PROVE  FALSE
    BY SleepTestStarts
  <2> DEFINE C == {"I93", "CHECK", "READ_NDEF", "WRITE_NDEF", "SET_RO", "CONSUME", "DEACTIVATE"}
                    \cup RestartCmds
  <2>1. Body(t) \in Seq(StepsOf(C))
    <3>1. CASE t.pattern # 49
      BY <1>1, <3>1, StepsMonotonic DEF BodyAlphabet
    <3>2. CASE ~t.cr12
      <4>1. Body(t) = <<>>
        BY <3>2 DEF Body
      <4> QED
        BY <4>1, EmptySteps
    <3> QED
      BY <3>1, <3>2
  <2>2. Ending(t) \in Seq(StepsOf(C))
    BY EndingCases, RestartSteps, ConsumingSteps, StepsMonotonic, ReleaseSteps
  <2>3. p \in Seq(StepsOf(C))
    BY <2>1, <2>2, ConcatType
  <2>4. C \cap {"SLEEP", "SELECT"} = {}
    BY DEF RestartCmds
  <2> QED
    BY <2>3, <2>4, NoneOf
<1>6. t.tag = "T5T" /\ t.cr12 => p[Len(p)].cmd = "DEACTIVATE"
  <2> SUFFICES ASSUME t.tag = "T5T", t.cr12 PROVE p[Len(p)].cmd = "DEACTIVATE"
    OBVIOUS
  <2>1. Ending(t) = Consuming
    BY EndingCases DEF Dep
  <2>2. Len(Ending(t)) = 2 /\ Ending(t)[2].cmd = "DEACTIVATE" /\ Len(Body(t)) \in Nat
    BY <2>1, BodyEndingType, ConsumingSteps, DoCmd, LenProperties
  <2>3. Len(p) = Len(Body(t)) + 2 /\ p[Len(Body(t)) + 2] = Ending(t)[2]
    BY <2>2, BodyEndingType, ConcatProperties
  <2> QED
    BY <2>2, <2>3
<1>7. ASSUME t.tag \in Dep, Has(p, {"SLEEP"}) PROVE FALSE
  <2>1. Body(t) \in Seq(StepsOf({"LOOP", "RECEIVE"} \cup RestartCmds))
    BY <1>1, <1>7, StepsMonotonic DEF BodyAlphabet, Dep
  <2>2. Ending(t) \in Seq(StepsOf({"LOOP", "RECEIVE"} \cup RestartCmds))
    BY <1>7, EndingCases, RestartSteps, StepsMonotonic DEF Dep
  <2>3. p \in Seq(StepsOf({"LOOP", "RECEIVE"} \cup RestartCmds))
    BY <2>1, <2>2, ConcatType
  <2> QED
    BY <1>7, <2>3, NoneOf DEF RestartCmds
<1> HIDE DEF p
<1>8. WriteTest(t) => IsSuffix(p, Body(t) \o Ending(t))
  BY <1>4 DEF p
<1>9. ProgFits(t, p)
  BY <1>2, <1>3, <1>5, <1>6, <1>7, <1>8 DEF ProgFits
<1> QED
  BY <1>9 DEF p

(* Where a handler may go on other than with its next step.                *)
Detours(t) ==
  {Ending(t)}
    \cup (IF t.tag \in Dep THEN {prog, <<>>, Restart, Sleeps \o Restart, Release} ELSE {})
    \cup (IF t.tag = "T4T" THEN {prog} ELSE {})
    \cup (IF t.tag \in {"T3T", "T4T"} THEN {Restart} ELSE {})
    \cup (IF t.tag = "T3T" THEN {<<Do("XCV")>> \o Restart} ELSE {})
    \cup (IF t.tag = "T1T" /\ ~t.cr12 THEN {<<>>} ELSE {})

LEMMA Follows ==
  ASSUME NEW t \in TestRecords, prog # <<>>, ProgFits(t, prog), Cmd # "STARTED",
         NEW p \in OnSuccess(t, Cmd) \cup OnFailures(t, Cmd)
  PROVE  /\ Cmd \in Alphabet(t)
         /\ \/ p = Tail(prog)
            \/ p = <<>> /\ Cmd = "START"
            \/ p \in Detours(t) /\ Cmd \notin {"SLEEP", "SELECT", "CONSUME", "DEACTIVATE"} \cup RestartCmds
<1>1. Cmd \in Alphabet(t)
  BY HeadTailProperties DEF ProgFits, Cmd, StepsOf
<1>2. CASE Cmd \in {"SLEEP", "SELECT", "CONSUME", "DEACTIVATE", "STOP", "CONFIG"}
  <2>1. OnFailure(t, Cmd) = Tail(prog)
    BY <1>2 DEF OnFailure
  <2>2. OnFailures(t, Cmd) = {Tail(prog)}
    BY <1>2, <2>1 DEF OnFailures
  <2>3. OnSuccess(t, Cmd) = {Tail(prog)}
    BY <1>2 DEF OnSuccess
  <2> QED
    BY <1>1, <2>2, <2>3
<1>3. CASE Cmd = "START"
  BY <1>1, <1>3 DEF OnSuccess, OnFailures, OnFailure
<1>4. CASE Cmd \notin {"SLEEP", "SELECT", "CONSUME", "DEACTIVATE"} \cup RestartCmds
  <2>1. CASE p \in OnFailures(t, Cmd)
    <3>1. p \in {OnFailure(t, Cmd), Tail(prog)} \/ (p = <<>> /\ t.tag \in Dep)
      BY <2>1, "DEP_LISTEN" \in Dep DEF OnFailures, Dep
    <3>2. OnFailure(t, Cmd) \in Detours(t)
      <4>1. CASE Cmd = "POLL"
        <5>1. t.tag = "T3T"
          BY <1>1, <4>1, CommandSet DEF Alphabet, Dep, RestartCmds, TestRecords
        <5> QED
          BY <4>1, <5>1 DEF OnFailure, Detours, Dep
      <4>2. CASE Cmd \in {"RECEIVE", "CE_RECEIVE"}
        <5>1. t.tag \in Dep
          BY <1>1, <4>2, CommandSet DEF Alphabet, Dep, RestartCmds, TestRecords
        <5> QED
          BY <4>2, <5>1 DEF OnFailure, Detours, Dep
      <4>3. CASE Cmd \notin {"POLL", "RECEIVE", "CE_RECEIVE"}
        BY <1>4, <4>3 DEF OnFailure, Detours, Dep, RestartCmds
      <4> QED
        BY <4>1, <4>2, <4>3
    <3> QED
      BY <1>1, <1>4, <3>1, <3>2 DEF Detours
  <2>2. CASE p \in OnSuccess(t, Cmd)
    <3>1. CASE Cmd = "LOOP"
      <4>1. t.tag \in Dep \cup {"T4T"}
        BY <1>1, <3>1, CommandSet DEF Alphabet, RestartCmds, TestRecords, Dep
      <4>2. p \in Looped(t)
        BY <2>2, <3>1 DEF OnSuccess
      <4>3. CASE t.tag = "T4T"
        <5>1. OnFailure(t, "LOOP") \in {Restart, Ending(t)}
          BY <4>3 DEF OnFailure
        <5>2. Looped(t) = {prog, Tail(prog), OnFailure(t, "LOOP")}
          BY <4>3 DEF Looped
        <5> QED
          BY <1>1, <1>4, <4>2, <4>3, <5>1, <5>2 DEF Detours
      <4>4. CASE t.tag \in Dep
        BY <1>1, <1>4, <4>2, <4>4 DEF Looped, Detours, Dep, Sleeps
      <4> QED
        BY <4>1, <4>3, <4>4
    <3>2. CASE Cmd = "RECEIVE"
      <4>1. t.tag \in Dep
        BY <1>1, <3>2, CommandSet DEF Alphabet, RestartCmds, TestRecords, Dep
      <4>2. p \in {Tail(prog), Restart, <<>>}
        BY <2>2, <3>2 DEF OnSuccess
      <4> QED
        BY <1>1, <1>4, <4>1, <4>2 DEF Detours
    <3>3. CASE Cmd \notin {"LOOP", "RECEIVE"}
      <4>1. p = Tail(prog) \/ (p = Restart /\ t.tag = "T3T")
        BY <2>2, <3>3 DEF OnSuccess
      <4> QED
        BY <1>1, <1>4, <4>1 DEF Detours
    <3> QED
      BY <3>1, <3>2, <3>3
  <2> QED
    BY <2>1, <2>2
<1> QED
  BY <1>1, <1>2, <1>3, <1>4 DEF RestartCmds

LEMMA EndingFits ==
  ASSUME NEW t \in TestRecords
  PROVE  ProgFits(t, Ending(t))
<1>1. CASE Ending(t) = Restart
  <2>1. ~WriteTest(t) /\ (t.tag = "T5T" => ~t.cr12)
    <3>1. t.tag = "T2T" => Ending(t) = Release
      BY EndingCases DEF Dep
    <3>2. Restart # Release
      <4>1. Len(Restart) = 5 /\ Len(Release) \in {1, 2}
        BY RestartSteps, ReleaseSteps
      <4> QED
        BY <4>1
    <3>3. t.tag = "T5T" /\ t.cr12 => Ending(t) = Consuming
      BY EndingCases DEF Dep
    <3>4. Restart # Consuming
      <4>1. Len(Restart) = 5 /\ Len(Consuming) \in {1, 2}
        BY RestartSteps, ConsumingSteps
      <4> QED
        BY <4>1
    <3> QED
      BY <1>1, <3>1, <3>2, <3>3, <3>4 DEF WriteTest
  <2> QED
    BY <1>1, <2>1, RestartFits
<1>2. CASE Ending(t) = Release /\ t.tag \in {"T1T", "T2T", "T3T", "T4T"}
  <2>1. Release \in Seq(StepsOf(Alphabet(t)))
    BY ReleaseSteps, Alphabets, StepsMonotonic
  <2>2. Restartable(Release)
    BY ReleaseSteps, PlainRestartable DEF RestartCmds
  <2>3. IsSuffix(Release, Body(t) \o Ending(t))
    BY <1>2, BodyEndingType, ConcatSuffix
  <2> QED
    BY <1>2, <2>1, <2>2, <2>3 DEF ProgFits, Dep
<1>3. CASE Ending(t) = Consuming /\ t.tag = "T5T" /\ t.cr12
  <2>1. Consuming \in Seq(StepsOf(Alphabet(t)))
    BY ConsumingSteps, Alphabets, StepsMonotonic, <1>3
  <2>2. Restartable(Consuming)
    BY ConsumingSteps, PlainRestartable DEF RestartCmds
  <2>3. ~Has(Consuming, {"SLEEP", "SELECT"})
    BY ConsumingSteps, NoneOf
  <2>4. Consuming[Len(Consuming)].cmd = "DEACTIVATE"
    BY ConsumingSteps, DoCmd
  <2> QED
    BY <1>3, <2>1, <2>2, <2>3, <2>4 DEF ProgFits, Dep, WriteTest
<1> QED
  BY <1>1, <1>2, <1>3, EndingCases

LEMMA DetoursFit ==
  ASSUME NEW t \in TestRecords, ProgFits(t, prog), NEW p \in Detours(t)
  PROVE  ProgFits(t, p)
<1>1. CASE p \in {prog, Ending(t), <<>>}
  BY <1>1, EndingFits, EmptyFits
<1>2. CASE p \in {Restart, Sleeps \o Restart, Release} /\ t.tag \in Dep
  <2>1. ~WriteTest(t) /\ t.tag # "T5T"
    BY <1>2 DEF WriteTest, Dep
  <2> QED
    BY <1>2, <2>1, RestartFits, SleepsRestartFits, ReleaseFits
<1>3. CASE p = Restart /\ t.tag \in {"T3T", "T4T"}
  <2>1. ~WriteTest(t) /\ t.tag # "T5T"
    BY <1>3 DEF WriteTest
  <2> QED
    BY <1>3, <2>1, RestartFits
<1>4. CASE p = <<Do("XCV")>> \o Restart /\ t.tag = "T3T"
  <2>1. <<Do("XCV")>> \in Seq(StepsOf({"XCV"}))
    BY OneStep, CommandSet
  <2> QED
    BY <1>4, <2>1, RestartAfterFits, Alphabets DEF RestartCmds
<1> QED
  BY <1>1, <1>2, <1>3, <1>4 DEF Detours

(* A program that fits goes on with one that fits.                         *)
LEMMA FollowFits ==
  ASSUME NEW t \in TestRecords, prog # <<>>, ProgFits(t, prog), Cmd # "STARTED",
         NEW p \in OnSuccess(t, Cmd) \cup OnFailures(t, Cmd)
  PROVE  ProgFits(t, p)
BY Follows, TailFits, EmptyFits, DetoursFit

(* The step that is next, and what comes after it within a restart.        *)
LEMMA NextStep ==
  ASSUME NEW t \in TestRecords, prog # <<>>, ProgFits(t, prog)
  PROVE  /\ Cmd = prog[1].cmd /\ Head(prog) \in StepsOf(Alphabet(t)) /\ Cmd \in Commands
         /\ Tail(prog) \in Seq(StepsOf(Alphabet(t))) /\ Len(prog) \in Nat \ {0}
         /\ Len(Tail(prog)) = Len(prog) - 1
         /\ \A i \in 1..Len(Tail(prog)) : Tail(prog)[i] = prog[i + 1]
<1>1. prog \in Seq(StepsOf(Alphabet(t)))
  BY DEF ProgFits
<1>2. Head(prog) = prog[1]
  BY <1>1
<1> QED
  BY <1>1, <1>2, HeadTailProperties, LenProperties, EmptySeq, AlphabetType DEF Cmd, StepsOf

LEMMA RestartOrder ==
  ASSUME NEW t \in TestRecords, prog # <<>>, ProgFits(t, prog)
  PROVE  /\ Cmd = "STOP" => Len(prog) = 5
         /\ Cmd = "CONFIG" => Len(prog) \in {3, 4}
         /\ Cmd = "START" => Len(prog) = 2
         /\ Cmd = "STARTED" => Len(prog) = 1
         /\ Cmd \in RestartCmds => \A i \in 1..Len(prog) : prog[i] = Restart[i - Len(prog) + 5]
<1>1. PICK n \in 0..5 : EndsWith(prog, n)
  BY DEF ProgFits, Restartable
<1>2. Len(prog) \in Nat \ {0} /\ Cmd = prog[1].cmd
  BY NextStep
<1>3. SUFFICES ASSUME Cmd \in RestartCmds
      PROVE  /\ Cmd = "STOP" => Len(prog) = 5
             /\ Cmd = "CONFIG" => Len(prog) \in {3, 4}
             /\ Cmd = "START" => Len(prog) = 2
             /\ Cmd = "STARTED" => Len(prog) = 1
             /\ \A i \in 1..Len(prog) : prog[i] = Restart[i - Len(prog) + 5]
  BY DEF RestartCmds
<1>4. 1 > Len(prog) - n
  BY <1>1, <1>2, <1>3 DEF EndsWith
<1>5. /\ Len(prog) = n
      /\ \A i \in 1..Len(prog) : prog[i] = Restart[i - Len(prog) + 5]
  BY <1>1, <1>2, <1>4 DEF EndsWith
<1>6. n \in 1..5 /\ Cmd = Restart[1 - n + 5].cmd
  BY <1>2, <1>5
<1>7. Cmd = CASE n = 5 -> "STOP" [] n \in {3, 4} -> "CONFIG" [] n = 2 -> "START" [] n = 1 -> "STARTED"
  BY <1>6, RestartSteps, DoCmd
<1> QED
  BY <1>5, <1>6, <1>7

LEMMA RestartNext ==
  ASSUME NEW t \in TestRecords, prog # <<>>, ProgFits(t, prog)
  PROVE  /\ Cmd \in {"STOP", "CONFIG", "START"} => Tail(prog) # <<>>
         /\ Cmd = "STOP" => Head(Tail(prog)).cmd = "CONFIG"
         /\ Cmd = "CONFIG" => Head(Tail(prog)).cmd \in {"CONFIG", "START"}
         /\ Cmd = "START" => Head(Tail(prog)).cmd = "STARTED"
         /\ Cmd = "STARTED" => Tail(prog) = <<>>
<1>1. /\ Tail(prog) \in Seq(StepsOf(Alphabet(t))) /\ Len(prog) \in Nat \ {0}
      /\ Len(Tail(prog)) = Len(prog) - 1
      /\ \A i \in 1..Len(Tail(prog)) : Tail(prog)[i] = prog[i + 1]
  BY NextStep
<1>2. CASE Cmd = "STARTED"
  <2>1. Len(Tail(prog)) = 0
    BY <1>1, <1>2, RestartOrder
  <2> QED
    BY <1>1, <1>2, <2>1, EmptySeq
<1>3. CASE Cmd \in {"STOP", "CONFIG", "START"}
  <2>1. Len(prog) \in 2..5 /\ prog[2] = Restart[2 - Len(prog) + 5]
    BY <1>3, RestartOrder DEF RestartCmds
  <2>2. Tail(prog) # <<>> /\ Head(Tail(prog)) = prog[2]
    BY <1>1, <2>1, EmptySeq
  <2>3. CASE Len(prog) = 5
    BY <1>3, <2>1, <2>2, <2>3, RestartOrder, RestartSteps, DoCmd
  <2>4. CASE Len(prog) = 4
    BY <1>3, <2>1, <2>2, <2>4, RestartOrder, RestartSteps, DoCmd
  <2>6. CASE Len(prog) = 3
    BY <1>3, <2>1, <2>2, <2>6, RestartOrder, RestartSteps, DoCmd
  <2>5. CASE Len(prog) = 2
    BY <1>3, <2>1, <2>2, <2>5, RestartOrder, RestartSteps, DoCmd
  <2> QED
    BY <2>1, <2>3, <2>4, <2>5, <2>6
<1> QED
  BY <1>2, <1>3

-----------------------------------------------------------------------------
(* The shape of the state: the types, with what the handler has left.      *)

(* Events of the activations so far, and requests of their tests.          *)
Past == {e \in Events : e.session <= session /\ (e.kind = "ACTIVATED" => e.session > 0)}
Sendable == {r \in [cmd : Commands, block : Nat, to : {"-", "zero", "new"}, session : Nat] :
               r.session \in 1..session /\ (r.cmd = "WRITE" => r.to # "-")}

TagShape ==
  /\ rf \in {"off", "disc", "active", "sleep"}
  /\ tests \in Seq(Tests) /\ session <= MaxSessions
  /\ mem \in [Blocks -> {"old", "zero", "new"}] /\ spoiled \in BOOLEAN /\ astray \in BOOLEAN

CallbackShape ==
  /\ out \in Seq(Past)
  /\ stage \in {"new", "mwq", "dtaq", "idle"} /\ (stage = "idle" <=> out = <<>>)
  /\ devState \in {"IDLE", "DISC", "ACTIVE"} /\ compliant \in BOOLEAN /\ dataLast \in BOOLEAN

QueueShape ==
  /\ reqs \in Seq(Sendable)
  /\ mwq \in Seq(Past) /\ Len(mwq) <= MwLength
  /\ dtaq \in Seq(Past) /\ Len(dtaq) <= DtaLength

ThreadShape ==
  /\ pc \in {"pull", "run", "sent", "wait"} /\ (pc = "pull" <=> prog = <<>>)
  /\ (pc = "sent" => Cmd \in Transceives) /\ (pc = "wait" => Cmd \in DOMAIN Answers)
  /\ own \in 0..session /\ late \in BOOLEAN
  /\ IF own = 0 THEN prog = <<>> ELSE ProgFits(test, prog)

Shape == TagShape /\ CallbackShape /\ QueueShape /\ ThreadShape

LEMMA Bounds ==
  /\ DtaLength \in Nat \ {0} /\ MwLength \in Nat \ {0} /\ MaxSessions \in Nat
  /\ Tests \subseteq TestRecords
BY TagAssumption

LEMMA SessionType == TagShape => session \in 0..MaxSessions /\ \A i \in 1..session : tests[i] \in Tests
BY LenProperties, Bounds DEF TagShape, session

LEMMA ShapeIsType == Shape => TypeOK
<1> SUFFICES ASSUME Shape PROVE TypeOK
  OBVIOUS
<1>1. session \in 0..MaxSessions /\ \A i \in 1..session : tests[i] \in Tests
  BY SessionType DEF Shape
<1>2. {out, mwq, dtaq} \subseteq Seq(Events)
  <2>1. Past \subseteq Events
    BY DEF Past
  <2> QED
    BY <2>1, SeqMonotonic DEF Shape, CallbackShape, QueueShape
<1>3. \A i \in 1..Len(reqs) : reqs[i].cmd \in Commands /\ reqs[i].session \in 1..session
  BY DEF Shape, QueueShape, Sendable
<1> QED
  BY <1>1, <1>2, <1>3 DEF Shape, TagShape, CallbackShape, QueueShape, ThreadShape, TypeOK

LEMMA KindSet ==
  Kinds = {"NDEF_DETECT", "READ_CPLT", "WRITE_CPLT", "SET_TAG_RO", "SELECT_CPLT", "I93_CMD_CPLT",
           "DATA", "DEACTIVATED", "SELECT_RESULT", "CE_DATA", "STOPPED", "CONFIGURED", "STARTED",
           "ACTIVATED", "INTF_ERROR", "DEACTIVATE_FAIL"}
BY DEF Kinds, Answers

LEMMA AnswerKind ==
  ASSUME NEW c \in TagCommands \ {"RAW"}
  PROVE  Answers[c] \in Kinds \ {"ACTIVATED", "DEACTIVATED", "SELECT_RESULT", "STOPPED",
                                 "CONFIGURED", "STARTED", "INTF_ERROR"}
BY KindSet DEF TagCommands, Transceives, Answers

LEMMA EventType ==
  ASSUME TagShape, NEW k \in Kinds \ {"ACTIVATED"},
         NEW d \in {"IDLE", "SLEEP", "DISCOVERY", "ok", "refused"}
  PROVE  Event(k, d) \in Past
BY SessionType DEF Event, Past, Events

LEMMA ShapeInit == Init => Shape
<1> SUFFICES ASSUME Init PROVE Shape
  OBVIOUS
<1>1. \A S : <<>> \in Seq(S) /\ Len(<<>>) = 0
  BY EmptySeq
<1>6. session = 0
  BY <1>1 DEF Init, session
<1>2. TagShape
  <2>1. tests \in Seq(Tests) /\ session <= MaxSessions
    BY <1>1, <1>6, Bounds DEF Init
  <2>2. mem \in [Blocks -> {"old", "zero", "new"}]
    BY DEF Init
  <2> QED
    BY <2>1, <2>2 DEF Init, TagShape
<1>3. CallbackShape
  BY <1>1 DEF Init, CallbackShape
<1>4. QueueShape
  BY <1>1, Bounds DEF Init, QueueShape
<1>5. ThreadShape
  <2>1. own = 0 /\ prog = <<>> /\ pc = "pull" /\ late = FALSE
    BY DEF Init
  <2>2. own \in 0..session
    BY <1>6, <2>1
  <2> QED
    BY <2>1, <2>2 DEF ThreadShape
<1> QED
  BY <1>2, <1>3, <1>4, <1>5 DEF Shape

-----------------------------------------------------------------------------
(* Steps of the stack.                                                     *)

(* Events and requests stay those of the past.                             *)
LEMMA PastGrows ==
  ASSUME TagShape, session' \in Nat, session <= session'
  PROVE  Past \subseteq Past' /\ Sendable \subseteq Sendable'
<1>1. session \in Nat
  BY SessionType
<1>2. Past \subseteq Past'
  BY <1>1, Bounds DEF Past, Events
<1>3. Sendable \subseteq Sendable'
  BY <1>1 DEF Sendable
<1> QED
  BY <1>2, <1>3

LEMMA ReportShape ==
  ASSUME Shape, QueuesFrame, NEW es \in Seq(Past'), Report(es),
         session' \in Nat, session <= session', reqs' \in Seq(Sendable)
  PROVE  CallbackShape' /\ QueueShape'
<1>1. Past \subseteq Past' /\ Sendable \subseteq Sendable'
  BY PastGrows DEF Shape
<1>2. mwq' \in Seq(Past') /\ dtaq' \in Seq(Past') /\ reqs' \in Seq(Sendable')
  BY <1>1, SeqMonotonic DEF Shape, QueueShape, QueuesFrame
<1>3. UNCHANGED <<devState, compliant, dataLast, mwq, dtaq>>
  BY DEF QueuesFrame, mwif
<1> QED
  BY <1>2, <1>3 DEF Shape, CallbackShape, QueueShape, Report

LEMMA ThreadKept ==
  ASSUME Shape, UNCHANGED dta,
         session' \in Nat, session <= session', \A i \in 1..session : tests'[i] = tests[i]
  PROVE  ThreadShape'
<1>1. UNCHANGED <<pc, own, prog, late>>
  BY DEF dta
<1>2. own # 0 => test' = test
  BY <1>1, SessionType DEF Shape, ThreadShape, test
<1>3. own' \in 0..session' /\ Cmd' = Cmd
  BY <1>1, SessionType DEF Shape, ThreadShape, Cmd
<1> QED
  BY <1>1, <1>2, <1>3 DEF Shape, ThreadShape

(* A new activation.                                                       *)
LEMMA Activated ==
  ASSUME Shape, NEW t \in Tests, tests' = Append(tests, t), session < MaxSessions
  PROVE  /\ tests' \in Seq(Tests) /\ session' = session + 1 /\ session' <= MaxSessions
         /\ \A i \in 1..session : tests'[i] = tests[i]
         /\ tests'[session'] = t
         /\ Activation \in Past' /\ [Activation EXCEPT !.kind = "DATA"] \in Past'
<1>1. session \in Nat /\ tests \in Seq(Tests)
  BY SessionType DEF Shape, TagShape
<1>2. tests' \in Seq(Tests) /\ session' = session + 1
  BY <1>1, AppendProperties DEF session
<1>3. (\A i \in 1..session : tests'[i] = tests[i]) /\ tests'[session'] = t
  BY <1>1, <1>2, AppendProperties DEF session
<1>4. Activation \in Past' /\ [Activation EXCEPT !.kind = "DATA"] \in Past'
  BY <1>1, <1>2, KindSet, Bounds DEF Activation, Past, Events
<1>5. session' <= MaxSessions
  BY <1>1, <1>2, Bounds
<1> QED
  BY <1>2, <1>3, <1>4, <1>5

LEMMA RequestShape ==
  ASSUME Shape, NEW cs, Requested(cs)
  PROVE  /\ Head(reqs) \in Sendable /\ Head(reqs).cmd \in cs /\ reqs' = Tail(reqs)
         /\ reqs' \in Seq(Sendable) /\ out = <<>> /\ reqs # <<>>
BY HeadTailProperties DEF Shape, QueueShape, Requested, Request, NfaIdle

LEMMA SameSession ==
  ASSUME Shape, UNCHANGED tests
  PROVE  session' \in Nat /\ session' = session /\ Past' = Past /\ Sendable' = Sendable
BY SessionType DEF Shape, session, Past, Sendable

LEMMA MemoryType ==
  ASSUME Shape, NEW r \in Sendable, r.cmd = "WRITE"
  PROVE  [mem EXCEPT ![r.block] = r.to] \in [Blocks -> {"old", "zero", "new"}]
BY DEF Shape, TagShape, Sendable

LEMMA ExecuteShape == Shape /\ Execute => Shape'
<1> SUFFICES ASSUME Shape, Execute PROVE Shape'
  OBVIOUS
<1>1. /\ Head(reqs) \in Sendable /\ Head(reqs).cmd \in TagCommands
      /\ reqs' \in Seq(Sendable)
  BY RequestShape DEF Execute
<1>2. UNCHANGED <<rf, tests, astray, dta>> /\ QueuesFrame
  BY DEF Execute, QueuesFrame
<1>3. session' \in Nat /\ session' = session /\ Past' = Past
  BY <1>2, SameSession
<1>4. \E es \in Seq(Past') : Report(es)
  <2>1. CASE Head(reqs).cmd = "RAW"
    BY <2>1, EmptySeq DEF Execute
  <2>2. CASE Head(reqs).cmd # "RAW"
    <3>1. Answers[Head(reqs).cmd] \in Kinds \ {"ACTIVATED"}
      BY <1>1, <2>2, AnswerKind
    <3>2. /\ Event(Answers[Head(reqs).cmd], "ok") \in Past
          /\ Event("DATA", "ok") \in Past /\ Event("READ_CPLT", "ok") \in Past
      BY <3>1, KindSet, EventType DEF Shape
    <3>3. Answer("ok") \in Seq(Past)
      BY <3>2 DEF Answer
    <3> QED
      BY <1>3, <2>2, <3>3 DEF Execute
  <2> QED
    BY <2>1, <2>2
<1>5. CallbackShape' /\ QueueShape'
  BY <1>1, <1>2, <1>3, <1>4, ReportShape DEF TagShape, Shape
<1>6. ThreadShape'
  BY <1>2, <1>3, ThreadKept DEF Shape
<1>7. TagShape'
  <2>1. mem' \in [Blocks -> {"old", "zero", "new"}]
    BY <1>1, MemoryType DEF Execute, Shape, TagShape
  <2>2. spoiled' \in BOOLEAN
    BY DEF Execute, Shape, TagShape
  <2> QED
    BY <1>2, <1>3, <2>1, <2>2 DEF Shape, TagShape
<1> QED
  BY <1>5, <1>6, <1>7 DEF Shape

LEMMA RefuseShape == Shape /\ Refuse => Shape'
<1> SUFFICES ASSUME Shape, Refuse PROVE Shape'
  OBVIOUS
<1>1. /\ Head(reqs) \in Sendable /\ Head(reqs).cmd \in TagCommands
      /\ reqs' \in Seq(Sendable)
  BY RequestShape DEF Refuse
<1>2. UNCHANGED <<rf, tests, mem, astray, dta>> /\ QueuesFrame
  BY DEF Refuse, QueuesFrame
<1>3. session' \in Nat /\ session' = session /\ Past' = Past
  BY <1>2, SameSession
<1>4. \E es \in Seq(Past') : Report(es)
  <2>1. CASE Head(reqs).cmd \in {"RAW"} \cup Transceives
    BY <2>1, EmptySeq DEF Refuse
  <2>2. CASE Head(reqs).cmd \notin {"RAW"} \cup Transceives
    <3>1. Answers[Head(reqs).cmd] \in Kinds \ {"ACTIVATED"}
      BY <1>1, <2>2, AnswerKind
    <3>2. Event(Answers[Head(reqs).cmd], "refused") \in Past
      BY <3>1, EventType DEF Shape
    <3>3. Answer("refused") \in Seq(Past)
      BY <3>2 DEF Answer
    <3> QED
      BY <1>3, <2>2, <3>3 DEF Refuse
  <2> QED
    BY <2>1, <2>2
<1>5. CallbackShape' /\ QueueShape'
  BY <1>1, <1>2, <1>3, <1>4, ReportShape DEF TagShape, Shape
<1>6. ThreadShape'
  BY <1>2, <1>3, ThreadKept DEF Shape
<1>7. TagShape'
  <2>1. spoiled' \in BOOLEAN
    BY DEF Refuse, Shape, TagShape
  <2> QED
    BY <1>2, <1>3, <2>1 DEF Shape, TagShape
<1> QED
  BY <1>5, <1>6, <1>7 DEF Shape

(* The other answers are one or two events of the latest activation.       *)
LEMMA AnsweredShape ==
  ASSUME Shape, UNCHANGED tests, QueuesFrame, reqs' \in Seq(Sendable), TagShape',
         \/ \E k \in Kinds \ {"ACTIVATED"}, d \in {"IDLE", "SLEEP", "DISCOVERY", "ok", "refused"} :
              Report(<<Event(k, d)>>)
         \/ \E j \in {"INTF_ERROR", "DEACTIVATED"}, k \in {"DEACTIVATED", "STOPPED"},
               c \in {"IDLE", "ok", "refused"}, d \in {"DISCOVERY", "ok"} :
              Report(<<Event(j, c), Event(k, d)>>)
  PROVE  Shape'
<1>1. session' \in Nat /\ session' = session /\ Past' = Past
  BY SameSession
<1>2. \A k \in Kinds \ {"ACTIVATED"}, d \in {"IDLE", "SLEEP", "DISCOVERY", "ok", "refused"} :
        Event(k, d) \in Past
  BY EventType DEF Shape
<1>3. \E es \in Seq(Past') : Report(es)
  <2>1. ASSUME NEW k \in Kinds \ {"ACTIVATED"},
               NEW d \in {"IDLE", "SLEEP", "DISCOVERY", "ok", "refused"}
        PROVE  <<Event(k, d)>> \in Seq(Past)
    BY <1>2
  <2>2. ASSUME NEW j \in {"INTF_ERROR", "DEACTIVATED"}, NEW k \in {"DEACTIVATED", "STOPPED"},
               NEW c \in {"IDLE", "ok", "refused"}, NEW d \in {"DISCOVERY", "ok"}
        PROVE  <<Event(j, c), Event(k, d)>> \in Seq(Past)
    <3>1. Event(j, c) \in Past /\ Event(k, d) \in Past
      BY <1>2, KindSet
    <3> QED
      BY <3>1
  <2> QED
    BY <1>1, <2>1, <2>2
<1>4. CallbackShape' /\ QueueShape'
  BY <1>1, <1>3, ReportShape DEF Shape, TagShape
<1>5. ThreadShape'
  BY <1>1, ThreadKept DEF QueuesFrame, Shape
<1> QED
  BY <1>4, <1>5 DEF Shape

LEMMA Two ==
  ASSUME NEW a, NEW b
  PROVE  <<a>> \o <<b>> = <<a, b>>
<1> DEFINE S == {a, b}
<1>1. <<a>> \in Seq(S) /\ <<b>> \in Seq(S) /\ <<a, b>> \in Seq(S)
  OBVIOUS
<1>2. Len(<<a>>) = 1 /\ Len(<<b>>) = 1 /\ <<a>>[1] = a /\ <<b>>[1] = b
  OBVIOUS
<1> DEFINE p == <<a>>
           q == <<b>>
<1> HIDE DEF S, p, q
<1>3. /\ p \o q \in Seq(S) /\ Len(p \o q) = 2 /\ (p \o q)[1] = a /\ (p \o q)[2] = b
  BY <1>1, <1>2, ConcatProperties DEF p, q
<1>4. /\ <<a, b>> \in Seq(S) /\ Len(<<a, b>>) = 2 /\ <<a, b>>[1] = a /\ <<a, b>>[2] = b
  BY <1>1
<1> DEFINE r == <<a, b>>
<1> HIDE DEF r
<1>5. \A i \in 1..Len(p \o q) : (p \o q)[i] = r[i]
  BY <1>3, <1>4 DEF r
<1>6. p \o q = r
  BY <1>3, <1>4, <1>5, SeqEqual DEF r
<1> QED
  BY <1>6 DEF p, q, r

LEMMA OtherNfaShape ==
  Shape /\ (LinkError \/ Deactivate \/ StopDiscovery \/ Configure \/ StartDiscovery \/ RemoteLeaves) => Shape'
<1> SUFFICES ASSUME Shape, LinkError \/ Deactivate \/ StopDiscovery \/ Configure \/ StartDiscovery \/ RemoteLeaves
             PROVE  Shape'
  OBVIOUS
<1>1. UNCHANGED <<tests, mem, spoiled>> /\ QueuesFrame
  BY DEF LinkError, Deactivate, StopDiscovery, Configure, StartDiscovery, RemoteLeaves, tagVars, QueuesFrame
<1>2. reqs' \in Seq(Sendable)
  <2>1. CASE RemoteLeaves
    BY <2>1 DEF RemoteLeaves, Shape, QueueShape
  <2>2. CASE ~RemoteLeaves
    BY <2>2, RequestShape DEF LinkError, Deactivate, StopDiscovery, Configure, StartDiscovery
  <2> QED
    BY <2>1, <2>2
<1>3. TagShape'
  <2>1. session' = session
    BY <1>1 DEF session
  <2>2. rf' \in {"off", "disc", "active", "sleep"} /\ astray' \in BOOLEAN
    BY DEF LinkError, Deactivate, StopDiscovery, Configure, StartDiscovery, RemoteLeaves, tagVars,
           Shape, TagShape
  <2> QED
    BY <1>1, <2>1, <2>2 DEF Shape, TagShape
<1> DEFINE D == {"IDLE", "SLEEP", "DISCOVERY", "ok", "refused"}
           Single == \E k \in Kinds \ {"ACTIVATED"}, d \in D : Report(<<Event(k, d)>>)
           Double == \E j \in {"INTF_ERROR", "DEACTIVATED"}, k \in {"DEACTIVATED", "STOPPED"},
                        c \in {"IDLE", "ok", "refused"}, d \in {"DISCOVERY", "ok"} :
                       Report(<<Event(j, c), Event(k, d)>>)
<1>4. Single \/ Double
  <2>1. CASE LinkError
    BY <2>1 DEF LinkError
  <2>2. CASE Deactivate
    <3>1. \E d \in D : \/ Report(<<Event("DEACTIVATED", d)>>)
                       \/ Report(<<Event("DEACTIVATE_FAIL", d)>>)
      BY <2>2 DEF Deactivate
    <3> QED
      BY <3>1, KindSet
  <2>3. CASE StopDiscovery
    <3>1. CASE rf = "active"
      <4>1. <<Event("DEACTIVATED", "IDLE")>> \o <<Event("STOPPED", "ok")>>
              = <<Event("DEACTIVATED", "IDLE"), Event("STOPPED", "ok")>>
        BY Two
      <4>2. Report(<<Event("DEACTIVATED", "IDLE"), Event("STOPPED", "ok")>>)
        BY <2>3, <3>1, <4>1 DEF StopDiscovery
      <4> QED
        BY <4>2
    <3>2. CASE rf # "active"
      <4>1. <<>> \o <<Event("STOPPED", "ok")>> = <<Event("STOPPED", "ok")>>
        OBVIOUS
      <4>2. Report(<<Event("STOPPED", "ok")>>)
        BY <2>3, <3>2, <4>1 DEF StopDiscovery
      <4> QED
        BY <4>2, KindSet
    <3> QED
      BY <3>1, <3>2
  <2>4. CASE Configure
    BY <2>4, KindSet DEF Configure
  <2>5. CASE StartDiscovery
    BY <2>5, KindSet DEF StartDiscovery
  <2>6. CASE RemoteLeaves
    BY <2>6, KindSet DEF RemoteLeaves
  <2> QED
    BY <2>1, <2>2, <2>3, <2>4, <2>5, <2>6
<1> QED
  BY <1>1, <1>2, <1>3, <1>4, AnsweredShape

LEMMA NewTagType == NewTag => /\ mem' \in [Blocks -> {"old", "zero", "new"}]
                              /\ spoiled' \in BOOLEAN /\ astray' \in BOOLEAN
BY DEF NewTag

LEMMA ActivateShape == Shape /\ Activate => Shape'
<1> SUFFICES ASSUME Shape, Activate PROVE Shape'
  OBVIOUS
<1>1. PICK t \in Tests :
        /\ tests' = Append(tests, t)
        /\ \/ Report(<<Activation>>)
           \/ t.tag = "DEP_LISTEN" /\ Report(<<Activation, [Activation EXCEPT !.kind = "DATA"]>>)
  BY DEF Activate
<1>2. session < MaxSessions /\ rf' = "active" /\ UNCHANGED reqs /\ QueuesFrame /\ NewTag
  BY DEF Activate
<1>3. /\ tests' \in Seq(Tests) /\ session' = session + 1 /\ session' <= MaxSessions
      /\ \A i \in 1..session : tests'[i] = tests[i]
      /\ Activation \in Past' /\ [Activation EXCEPT !.kind = "DATA"] \in Past'
  BY <1>1, <1>2, Activated
<1>4. session' \in Nat /\ session <= session'
  BY <1>3, SessionType DEF Shape
<1>5. \E es \in Seq(Past') : Report(es)
  <2>1. <<Activation>> \in Seq(Past') /\ <<Activation, [Activation EXCEPT !.kind = "DATA"]>> \in Seq(Past')
    BY <1>3
  <2> QED
    BY <1>1, <2>1
<1>6. CallbackShape' /\ QueueShape'
  BY <1>2, <1>4, <1>5, ReportShape DEF Shape, QueueShape
<1>7. ThreadShape'
  BY <1>2, <1>3, <1>4, ThreadKept DEF QueuesFrame
<1>8. TagShape'
  BY <1>2, <1>3, NewTagType DEF TagShape
<1> QED
  BY <1>6, <1>7, <1>8 DEF Shape

LEMMA SelectShape == Shape /\ Select => Shape'
<1> SUFFICES ASSUME Shape, Select PROVE Shape'
  OBVIOUS
<1>1. reqs' \in Seq(Sendable) /\ QueuesFrame /\ Head(reqs) \in Sendable
  BY RequestShape DEF Select
<1>2. CASE /\ rf = "sleep" /\ session < MaxSessions
           /\ rf' = "active" /\ tests' = Append(tests, tests[session])
           /\ NewTag
           /\ Report(<<Event("SELECT_RESULT", "ok"), Activation>>)
  <2>1. tests[session] \in Tests
    BY <1>1, SessionType DEF Shape, Sendable
  <2>2. /\ tests' \in Seq(Tests) /\ session' = session + 1 /\ session' <= MaxSessions
        /\ \A i \in 1..session : tests'[i] = tests[i]
        /\ Activation \in Past'
    BY <1>2, <2>1, Activated
  <2>3. session' \in Nat /\ session <= session'
    BY <2>2, SessionType DEF Shape
  <2>4. Event("SELECT_RESULT", "ok") \in Past'
    BY <2>3, PastGrows, EventType, KindSet DEF Shape
  <2>5. <<Event("SELECT_RESULT", "ok"), Activation>> \in Seq(Past')
    BY <2>2, <2>4
  <2>6. CallbackShape' /\ QueueShape'
    BY <1>1, <1>2, <2>3, <2>5, ReportShape
  <2>7. ThreadShape'
    BY <1>1, <2>2, <2>3, ThreadKept DEF QueuesFrame
  <2>8. TagShape'
    BY <1>2, <2>2, NewTagType DEF TagShape
  <2> QED
    BY <2>6, <2>7, <2>8 DEF Shape
<1>3. CASE /\ Report(<<Event("SELECT_RESULT", "refused")>>)
           /\ astray' = (astray \/ OfAnother)
           /\ UNCHANGED <<rf, tests, mem, spoiled>>
  <2>1. TagShape'
    <3>1. session' = session /\ astray' \in BOOLEAN
      BY <1>3 DEF session, Shape, TagShape
    <3> QED
      BY <1>3, <3>1 DEF Shape, TagShape
  <2> QED
    BY <1>1, <1>3, <2>1, AnsweredShape, KindSet
<1> QED
  BY <1>2, <1>3 DEF Select

LEMMA NfaShape == Shape /\ Nfa => Shape'
BY ExecuteShape, RefuseShape, OtherNfaShape, ActivateShape, SelectShape DEF Nfa, NfaStep

-----------------------------------------------------------------------------
(* Steps of the callback and of the DTA thread.                            *)

LEMMA SameTag == TagShape /\ UNCHANGED tagVars => TagShape'
BY DEF TagShape, tagVars, session

LEMMA HeadEvent ==
  ASSUME Shape, out # <<>>
  PROVE  Head(out) \in Past /\ Tail(out) \in Seq(Past)
BY HeadTailProperties DEF Shape, CallbackShape

LEMMA CallbackStepShape == Shape /\ Callback => Shape'
<1> SUFFICES ASSUME Shape, Callback PROVE Shape'
  OBVIOUS
<1>1. UNCHANGED <<tagVars, reqs, dta>> /\ TagShape'
  <2>1. UNCHANGED <<tagVars, reqs, dta>>
    BY DEF Callback, NotifyState, PushMw, EvtCb, CbFrame
  <2> QED
    BY <2>1, SameTag DEF Shape
<1>2. UNCHANGED tests /\ UNCHANGED reqs
  BY <1>1 DEF tagVars
<1>3. session' \in Nat /\ session' = session /\ Past' = Past /\ Sendable' = Sendable
  BY <1>2, SameSession
<1>4. ThreadShape'
  BY <1>1, <1>2, <1>3, ThreadKept
<1>5. out # <<>> /\ Head(out) \in Past /\ Tail(out) \in Seq(Past)
  <2>1. out # <<>>
    BY DEF Callback, NotifyState, PushMw, EvtCb, Shape, CallbackShape
  <2> QED
    BY <2>1, HeadEvent
<1>6. CASE NotifyState
  <2>1. devState' \in {"IDLE", "DISC", "ACTIVE"}
    BY <1>6 DEF NotifyState, DeviceState, Shape, CallbackShape
  <2>2. compliant' \in BOOLEAN
    BY <1>6 DEF NotifyState, Shape, CallbackShape
  <2>3. dataLast' \in BOOLEAN /\ stage' \in {"dtaq", "mwq"} /\ UNCHANGED <<out, mwq, dtaq>>
    BY <1>6 DEF NotifyState
  <2>4. CallbackShape'
    BY <1>3, <1>5, <2>1, <2>2, <2>3 DEF Shape, CallbackShape
  <2>5. QueueShape'
    BY <1>2, <1>3, <2>3 DEF Shape, QueueShape
  <2> QED
    BY <1>1, <1>4, <2>4, <2>5 DEF Shape
<1>7. CASE PushMw
  <2>1. mwq' \in Seq(Past) /\ Len(mwq') <= MwLength
    BY <1>5, <1>7, AppendProperties, Bounds DEF PushMw, Shape, QueueShape
  <2>2. QueueShape'
    BY <1>2, <1>3, <1>7, <2>1 DEF PushMw, Shape, QueueShape
  <2>3. CallbackShape'
    BY <1>3, <1>5, <1>7 DEF PushMw, Reported, mwif, Shape, CallbackShape
  <2> QED
    BY <1>1, <1>4, <2>2, <2>3 DEF Shape
<1>8. CASE EvtCb
  <2>1. dtaq' \in Seq(Past) /\ Len(dtaq') <= DtaLength
    BY <1>5, <1>8, AppendProperties, Bounds DEF EvtCb, Shape, QueueShape
  <2>2. QueueShape'
    BY <1>2, <1>3, <1>8, <2>1 DEF EvtCb, Shape, QueueShape
  <2>3. CallbackShape'
    BY <1>3, <1>5, <1>8 DEF EvtCb, Reported, mwif, Shape, CallbackShape
  <2> QED
    BY <1>1, <1>4, <2>2, <2>3 DEF Shape
<1> QED
  BY <1>6, <1>7, <1>8 DEF Callback

(* The handler goes on with steps that fit its test.                       *)
LEMMA GoOnShape ==
  ASSUME Shape, UNCHANGED <<tagVars, own>>, NEW p, GoOn(p), late' \in BOOLEAN,
         own # 0, ProgFits(test, p)
  PROVE  ThreadShape'
<1>1. test' = test /\ session' = session
  BY DEF test, session, tagVars
<1> QED
  BY <1>1 DEF Shape, ThreadShape, GoOn

LEMMA Running ==
  ASSUME Shape, pc # "pull"
  PROVE  own # 0 /\ own \in 1..session /\ test \in TestRecords /\ prog # <<>> /\ ProgFits(test, prog)
         /\ session \in Nat
<1>1. own # 0 /\ own \in 1..session /\ prog # <<>> /\ ProgFits(test, prog) /\ session \in Nat
  BY SessionType DEF Shape, ThreadShape
<1> QED
  BY <1>1, SessionType, Bounds DEF Shape, test

(* A handler that stays where it is.                                       *)
LEMMA StayShape ==
  ASSUME Shape, UNCHANGED <<tagVars, own, late, prog>>, pc # "pull",
         pc' = "run" \/ (pc' = "sent" /\ Cmd \in Transceives) \/ (pc' = "wait" /\ Cmd \in DOMAIN Answers)
  PROVE  ThreadShape'
<1>1. test' = test /\ session' = session /\ Cmd' = Cmd
  BY DEF test, session, tagVars, Cmd
<1>2. prog # <<>>
  BY Running
<1> QED
  BY <1>1, <1>2 DEF Shape, ThreadShape

LEMMA FramesShape ==
  ASSUME Shape, DtaFrame, ThreadShape', devState' \in {"IDLE", "DISC", "ACTIVE"},
         UNCHANGED <<compliant, dataLast>>, reqs' \in Seq(Sendable),
         mwq' = mwq \/ mwq' = <<>> \/ (mwq # <<>> /\ mwq' = Tail(mwq)),
         dtaq' = dtaq \/ (dtaq # <<>> /\ dtaq' = Tail(dtaq))
  PROVE  Shape'
<1>1. UNCHANGED <<tagVars, out, stage>> /\ UNCHANGED tests
  BY DEF DtaFrame, cbVars, tagVars
<1>2. session' = session /\ Past' = Past /\ Sendable' = Sendable
  BY <1>1, SameSession
<1>3. mwq' \in Seq(Past) /\ Len(mwq') <= MwLength
  <2>1. CASE mwq' = <<>>
    BY <2>1, EmptySeq, Bounds
  <2>2. CASE mwq # <<>> /\ mwq' = Tail(mwq)
    BY <2>2, HeadTailProperties, LenProperties, Bounds DEF Shape, QueueShape
  <2> QED
    BY <2>1, <2>2 DEF Shape, QueueShape
<1>4. dtaq' \in Seq(Past) /\ Len(dtaq') <= DtaLength
  <2>1. CASE dtaq # <<>> /\ dtaq' = Tail(dtaq)
    BY <2>1, HeadTailProperties, LenProperties, Bounds DEF Shape, QueueShape
  <2> QED
    BY <2>1 DEF Shape, QueueShape
<1>5. CallbackShape' /\ QueueShape'
  BY <1>1, <1>2, <1>3, <1>4 DEF Shape, CallbackShape, QueueShape
<1> QED
  BY <1>1, <1>5, SameTag DEF Shape

LEMMA HandleShape == Shape /\ CbMsgHandleThrd => Shape'
<1> SUFFICES ASSUME Shape, CbMsgHandleThrd PROVE Shape'
  OBVIOUS
<1>1. DtaFrame /\ UNCHANGED <<reqs, mwif, mwq>> /\ dtaq # <<>> /\ dtaq' = Tail(dtaq)
  BY DEF CbMsgHandleThrd, HandleActivated, HandleDeactivated
<1>2. CASE HandleActivated
  <2> DEFINE t == tests[Head(dtaq).session]
  <2>1. Head(dtaq).session \in 1..session /\ session \in Nat
    <3>1. Head(dtaq) \in Past
      BY <1>1, HeadTailProperties DEF Shape, QueueShape
    <3>2. session \in Nat
      BY SessionType DEF Shape
    <3> QED
      BY <1>2, <3>1, <3>2, Bounds DEF HandleActivated, Past, Events
  <2>2. t \in TestRecords
    BY <2>1, SessionType, Bounds DEF Shape
  <2>3. ProgFits(t, Body(t) \o Ending(t))
    BY <2>2, TestStartFits
  <2>4. GoOn(Body(t) \o Ending(t)) /\ own' = Head(dtaq).session /\ UNCHANGED <<late, tests>>
    BY <1>1, <1>2 DEF HandleActivated, DtaFrame, tagVars
  <2>5. test' = t /\ session' = session
    BY <2>4 DEF test, session
  <2> HIDE DEF t
  <2>6. ThreadShape'
    BY <2>1, <2>3, <2>4, <2>5 DEF ThreadShape, GoOn, Shape
  <2> QED
    BY <1>1, <2>6, FramesShape DEF mwif, Shape, CallbackShape, QueueShape
<1>3. CASE HandleDeactivated
  <2>1. UNCHANGED <<pc, own, prog, late, tests>>
    BY <1>1, <1>3 DEF HandleDeactivated, dta, DtaFrame, tagVars
  <2>2. test' = test /\ session' = session /\ Cmd' = Cmd
    BY <2>1 DEF test, session, Cmd
  <2>3. ThreadShape'
    BY <2>1, <2>2 DEF Shape, ThreadShape
  <2> QED
    BY <1>1, <2>3, FramesShape DEF mwif, Shape, CallbackShape, QueueShape
<1> QED
  BY <1>2, <1>3 DEF CbMsgHandleThrd

(* The request of the step.                                                *)
LEMMA SentShape ==
  ASSUME Shape, pc # "pull", Sent
  PROVE  /\ reqs' \in Seq(Sendable) /\ reqs' = Append(reqs, reqs'[Len(reqs')])
         /\ Len(reqs') = Len(reqs) + 1 /\ Len(reqs) \in Nat
         /\ \A i \in 1..Len(reqs) : reqs'[i] = reqs[i]
         /\ reqs'[Len(reqs')] = [cmd |-> Cmd, block |-> Head(prog).block,
                                 to |-> Head(prog).to, session |-> own]
<1> DEFINE r == [cmd |-> Cmd, block |-> Head(prog).block, to |-> Head(prog).to, session |-> own]
<1>1. own \in 1..session /\ session \in Nat /\ Head(prog) \in StepsOf(Alphabet(test)) /\ Cmd \in Commands
  BY Running, NextStep
<1>2. r \in Sendable
  <2>1. /\ Cmd = Head(prog).cmd /\ Head(prog).block \in Nat /\ Head(prog).to \in {"-", "zero", "new"}
        /\ (Head(prog).cmd = "WRITE" => Head(prog).to # "-")
    BY <1>1 DEF StepsOf, StepRec, Cmd
  <2> QED
    BY <1>1, <2>1 DEF Sendable
<1>3. reqs \in Seq(Sendable) /\ reqs' = Append(reqs, r)
  BY DEF Shape, QueueShape, Sent
<1> HIDE DEF r
<1>4. /\ reqs' \in Seq(Sendable) /\ Len(reqs') = Len(reqs) + 1 /\ Len(reqs) \in Nat
      /\ \A i \in 1..Len(reqs) : reqs'[i] = reqs[i]
      /\ reqs'[Len(reqs')] = r
  BY <1>2, <1>3, AppendProperties, LenProperties
<1> QED
  BY <1>3, <1>4 DEF r

Follower(p) == p \in OnSuccess(test, Cmd) \cup OnFailures(test, Cmd)

LEMMA FollowShape ==
  ASSUME Shape, pc # "pull", Cmd # "STARTED", UNCHANGED <<tagVars, own>>, late' \in BOOLEAN,
         NEW p, Follower(p), GoOn(p)
  PROVE  ThreadShape'
BY Running, FollowFits, GoOnShape DEF Follower

LEMMA TailShape ==
  ASSUME Shape, pc # "pull", UNCHANGED <<tagVars, own>>, late' \in BOOLEAN, GoOn(Tail(prog))
  PROVE  ThreadShape'
BY Running, TailFits, GoOnShape

LEMMA TestStepShape == Shape /\ TestStep => Shape'
<1> SUFFICES ASSUME Shape, TestStep PROVE Shape'
  OBVIOUS
<1>1. /\ pc # "pull" /\ DtaFrame /\ UNCHANGED <<tagVars, own, late, dtaq, compliant, dataLast>>
      /\ late' \in BOOLEAN
  BY DEF TestStep, Disconnected, DeactivatedAlready, StopIdle, EnableDiscovery, ConsumeDeactivated,
         ReceiveData, Send, SendRawFrame, Transceive, TransceiveSent, StepFrame, DtaFrame, Step, mwif,
         Shape, ThreadShape
<1>2. devState' \in {"IDLE", "DISC", "ACTIVE"}
  BY DEF TestStep, Disconnected, DeactivatedAlready, StopIdle, EnableDiscovery, ConsumeDeactivated,
         ReceiveData, Send, SendRawFrame, Transceive, TransceiveSent, mwif, Shape, CallbackShape
<1>3. mwq' = mwq \/ mwq' = <<>>
  BY DEF TestStep, Disconnected, DeactivatedAlready, StopIdle, EnableDiscovery, ConsumeDeactivated,
         ReceiveData, Send, SendRawFrame, Transceive, TransceiveSent
<1>4. reqs' \in Seq(Sendable)
  <2>1. CASE Send \/ SendRawFrame \/ Transceive
    BY <1>1, <2>1, SentShape DEF Send, SendRawFrame, Transceive
  <2>2. CASE ~(Send \/ SendRawFrame \/ Transceive)
    BY <2>2 DEF TestStep, Disconnected, DeactivatedAlready, StopIdle, EnableDiscovery,
                ConsumeDeactivated, ReceiveData, TransceiveSent, Shape, QueueShape
  <2> QED
    BY <2>1, <2>2
<1>5. ThreadShape'
  <2>1. CASE Disconnected
    <3>1. Cmd # "STARTED" /\ \E p : Follower(p) /\ GoOn(p)
      BY <2>1 DEF Disconnected, Follower, Transceives
    <3> QED
      BY <1>1, <3>1, FollowShape
  <2>2. CASE DeactivatedAlready \/ StopIdle \/ EnableDiscovery
    BY <1>1, <2>2, TailShape DEF DeactivatedAlready, StopIdle, EnableDiscovery
  <2>3. CASE ConsumeDeactivated \/ Send \/ Transceive
    <3>1. Cmd \in Commands /\ UNCHANGED prog
      BY <1>1, <2>3, Running, NextStep DEF ConsumeDeactivated, Send, Transceive
    <3>2. (pc' = "sent" /\ Cmd \in Transceives) \/ (pc' = "wait" /\ Cmd \notin {"RAW", "STARTED"})
      BY <2>3 DEF ConsumeDeactivated, Send, Transceive, Step
    <3>3. Cmd \notin {"RAW", "STARTED"} => Cmd \in DOMAIN Answers
      BY <3>1 DEF Commands
    <3> QED
      BY <1>1, <3>1, <3>2, <3>3, StayShape
  <2>4. CASE ReceiveData
    <3>1. CASE devState = "ACTIVE"
      <4>1. "RECEIVE" \in DOMAIN Answers
        BY DEF Answers
      <4> QED
        BY <1>1, <2>4, <3>1, <4>1, StayShape DEF ReceiveData, Step
    <3>2. CASE devState # "ACTIVE"
      <4>1. test \in TestRecords /\ Cmd = "RECEIVE" /\ Cmd \in Alphabet(test) /\ own # 0
        BY <1>1, <2>4, Running, NextStep DEF ReceiveData, Step, StepsOf, Cmd
      <4>2. test.tag \in Dep
        BY <4>1, CommandSet DEF Alphabet, RestartCmds, TestRecords, Dep
      <4>3. ProgFits(test, <<Do("CE_RECEIVE")>>)
        BY <4>1, <4>2, OneStepFits, Alphabets DEF RestartCmds, Dep
      <4>4. test' = test /\ session' = session
        BY <1>1 DEF test, session, tagVars
      <4>5. prog' = <<Do("CE_RECEIVE")>> /\ prog' # <<>> /\ pc' = "wait"
        BY <2>4, <3>2 DEF ReceiveData
      <4>6. Cmd' \in DOMAIN Answers
        <5>1. Cmd' = Do("CE_RECEIVE").cmd
          BY <4>5 DEF Cmd
        <5> QED
          BY <5>1, DoCmd DEF Answers
      <4> QED
        BY <1>1, <2>4, <3>2, <4>1, <4>3, <4>4, <4>5, <4>6 DEF Shape, ThreadShape
    <3> QED
      BY <3>1, <3>2
  <2>5. CASE SendRawFrame
    <3>1. Cmd # "STARTED" /\ \E p : Follower(p) /\ GoOn(p)
      BY <2>5 DEF SendRawFrame, Follower, Step
    <3> QED
      BY <1>1, <3>1, FollowShape
  <2>6. CASE TransceiveSent
    <3>1. Cmd \in Transceives
      BY <2>6 DEF TransceiveSent, Shape, ThreadShape
    <3>2. Cmd # "STARTED" /\ Cmd \in DOMAIN Answers
      BY <3>1 DEF Transceives, Answers
    <3>3. CASE pc' = "wait" /\ UNCHANGED prog
      BY <1>1, <3>2, <3>3, StayShape
    <3>4. CASE \E p \in OnFailures(test, Cmd) : GoOn(p)
      BY <1>1, <3>2, <3>4, FollowShape DEF Follower
    <3> QED
      BY <2>6, <3>3, <3>4 DEF TransceiveSent
  <2> QED
    BY <2>1, <2>2, <2>3, <2>4, <2>5, <2>6 DEF TestStep
<1>6. UNCHANGED <<compliant, dataLast>> /\ UNCHANGED dtaq
  BY <1>1
<1> QED
  BY <1>1, <1>2, <1>3, <1>4, <1>5, <1>6, FramesShape

LEMMA WaitShape == Shape /\ Wait => Shape'
<1> SUFFICES ASSUME Shape, Wait PROVE Shape'
  OBVIOUS
<1>1. /\ pc = "wait" /\ DtaFrame /\ UNCHANGED <<tagVars, own, reqs, mwif, dtaq>>
      /\ late' \in BOOLEAN
  BY DEF Wait, WaitGot, WaitDrop, WaitAbort, WaitTimeout, WaitPull, WaitFrame, DtaFrame,
         Shape, ThreadShape
<1>2. mwq' = mwq \/ (mwq # <<>> /\ mwq' = Tail(mwq))
  BY DEF Wait, WaitGot, WaitDrop, WaitAbort, WaitTimeout, WaitPull
<1>3. Cmd # "STARTED" /\ Cmd \in DOMAIN Answers
  BY <1>1 DEF Shape, ThreadShape, Answers
<1>4. ThreadShape'
  <2>1. CASE WaitDrop
    BY <1>1, <1>3, <2>1, StayShape DEF WaitDrop
  <2>2. CASE WaitGot \/ WaitAbort \/ WaitTimeout
    <3>1. \E p : Follower(p) /\ GoOn(p)
      BY <2>2 DEF WaitGot, WaitAbort, WaitTimeout, Answered, Follower
    <3> QED
      BY <1>1, <1>3, <3>1, FollowShape
  <2> QED
    BY <2>1, <2>2 DEF Wait
<1> QED
  BY <1>1, <1>2, <1>4, FramesShape DEF mwif, Shape, CallbackShape, QueueShape

LEMMA StutterShape == Shape /\ UNCHANGED vars => Shape'
<1> SUFFICES ASSUME Shape, UNCHANGED vars PROVE Shape'
  OBVIOUS
<1>1. /\ UNCHANGED <<rf, tests, mem, spoiled, astray, reqs, out, stage, devState, compliant, dataLast>>
      /\ UNCHANGED <<mwq, dtaq, pc, own, prog, late>>
  BY DEF vars, tagVars, cbVars, mwif, dta
<1>2. session' = session /\ Past' = Past /\ Sendable' = Sendable /\ test' = test /\ Cmd' = Cmd
  BY <1>1, SameSession DEF test, Cmd
<1> QED
  BY <1>1, <1>2 DEF Shape, TagShape, CallbackShape, QueueShape, ThreadShape

LEMMA ShapeStep == Shape /\ [Next]_vars => Shape'
BY NfaShape, CallbackStepShape, HandleShape, TestStepShape, WaitShape, StutterShape
   DEF Next, DtaThread

LEMMA ShapeAlways == Spec => []Shape
<1>1. Init => Shape
  BY ShapeInit
<1>2. Shape /\ [Next]_vars => Shape'
  BY ShapeStep
<1> QED
  BY <1>1, <1>2, PTL DEF Spec

(* The state has its types: the queues never hold more than they can, every*)
(* request and event belongs to an activation that has happened, and the   *)
(* handler that runs has steps left.                                       *)
THEOREM TypeCorrect == Spec => []TypeOK
BY ShapeAlways, ShapeIsType, PTL

-----------------------------------------------------------------------------
(* A T2T write test never leaves a message that is half the old and half   *)
(* the new one under a length that says it is whole.  The tests run in the *)
(* order of the activations, and the write requests of the latest one      *)
(* reach the tag in the order of the test's steps.                         *)

LEMMA TailOf ==
  ASSUME NEW S, NEW q \in Seq(S), q # <<>>
  PROVE  /\ Tail(q) \in Seq(S) /\ Len(q) \in Nat \ {0} /\ Len(Tail(q)) = Len(q) - 1
         /\ Head(q) = q[1] /\ Head(q) \in S
         /\ \A i \in 1..Len(Tail(q)) : i + 1 \in 1..Len(q) /\ Tail(q)[i] = q[i + 1]
<1>1. Len(q) \in Nat \ {0}
  BY EmptySeq, LenProperties
<1> QED
  BY <1>1, HeadTailProperties

LEMMA AppendOf ==
  ASSUME NEW S, NEW q \in Seq(S), NEW e \in S
  PROVE  /\ Append(q, e) \in Seq(S) /\ Len(q) \in Nat /\ Len(Append(q, e)) = Len(q) + 1
         /\ \A i \in 1..Len(q) : Append(q, e)[i] = q[i]
         /\ Append(q, e)[Len(q) + 1] = e
BY AppendProperties, LenProperties

LEMMA ConcatOf ==
  ASSUME NEW S, NEW p \in Seq(S), NEW q \in Seq(S)
  PROVE  /\ p \o q \in Seq(S) /\ Len(p \o q) = Len(p) + Len(q)
         /\ \A i \in 1..Len(p) : (p \o q)[i] = p[i]
         /\ \A i \in 1..Len(q) : (p \o q)[Len(p) + i] = q[i]
<1>1. /\ p \o q \in Seq(S) /\ Len(p \o q) = Len(p) + Len(q)
      /\ \A i \in 1..(Len(p) + Len(q)) : (p \o q)[i] = IF i <= Len(p) THEN p[i] ELSE q[i - Len(p)]
  BY ConcatProperties
<1>2. Len(p) \in Nat /\ Len(q) \in Nat
  BY LenProperties
<1>3. \A i \in 1..Len(p) : (p \o q)[i] = p[i]
  BY <1>1, <1>2
<1>4. ASSUME NEW i \in 1..Len(q)
      PROVE  (p \o q)[Len(p) + i] = q[i]
  <2>1. Len(p) + i \in 1..(Len(p) + Len(q)) /\ ~(Len(p) + i <= Len(p)) /\ (Len(p) + i) - Len(p) = i
    BY <1>2
  <2> QED
    BY <1>1, <2>1
<1> QED
  BY <1>1, <1>3, <1>4

-----------------------------------------------------------------------------
(* The order of the activations.                                           *)

Activates(q, i) == q[i].kind = "ACTIVATED"

(* The event loop has older activations before it than the callback.       *)
InOrder ==
  /\ \A i \in 1..Len(dtaq) : dtaq[i].kind \in {"ACTIVATED", "DEACTIVATED"}
  /\ \A i \in 1..Len(dtaq) : Activates(dtaq, i) => own < dtaq[i].session
  /\ \A i, j \in 1..Len(dtaq) :
       i < j /\ Activates(dtaq, i) /\ Activates(dtaq, j) => dtaq[i].session < dtaq[j].session

(* Of the activations the stack reports only the latest; until its event   *)
(* is handled it is on its way.                                            *)
Latest ==
  /\ \A i \in 1..Len(out) : Activates(out, i) =>
       /\ out[i].session = session /\ own < session
       /\ \A j \in 1..Len(dtaq) : Activates(dtaq, j) => dtaq[j].session < session
  /\ \A i, j \in 1..Len(out) : Activates(out, i) /\ Activates(out, j) => i = j
  /\ stage = "dtaq" => out[1].kind \in {"ACTIVATED", "DEACTIVATED"}
  /\ stage = "mwq" => out[1].kind # "ACTIVATED"
  /\ own < session => \/ \E i \in 1..Len(out) : Activates(out, i)
                      \/ \E i \in 1..Len(dtaq) : Activates(dtaq, i) /\ dtaq[i].session = session

(* No test has sent a request before its activation was handled.           *)
SentByPast == \A i \in 1..Len(reqs) : reqs[i].session <= own

Arrivals == InOrder /\ Latest /\ SentByPast

LEMMA ArrivalsInit == Init => Arrivals
BY DEF Init, Arrivals, InOrder, Latest, SentByPast, session

(* What the stack reports, other than an activation.                       *)
Reports == Execute \/ Refuse \/ LinkError \/ Deactivate \/ StopDiscovery \/ Configure
             \/ StartDiscovery \/ RemoteLeaves

LEMMA ReportsKeep ==
  ASSUME Shape, Reports
  PROVE  /\ UNCHANGED <<tests, session, mwif, mwq, dtaq, dta>> /\ out = <<>> /\ stage = "idle"
         /\ stage' \in {"idle", "new"}
         /\ reqs' = reqs \/ (reqs # <<>> /\ reqs' = Tail(reqs))
<1>1. /\ UNCHANGED <<tests, mwif, mwq, dtaq, dta>> /\ out = <<>> /\ stage' \in {"idle", "new"}
  BY DEF Reports, Execute, Refuse, LinkError, Deactivate, StopDiscovery, Configure, StartDiscovery,
         RemoteLeaves, QueuesFrame, tagVars, Requested, Request, NfaIdle, Report
<1>2. reqs' = reqs \/ (reqs # <<>> /\ reqs' = Tail(reqs))
  BY DEF Reports, Execute, Refuse, LinkError, Deactivate, StopDiscovery, Configure, StartDiscovery,
         RemoteLeaves, Requested, Request
<1> QED
  BY <1>1, <1>2 DEF session, Shape, CallbackShape

LEMMA ReportsNoActivation ==
  ASSUME Shape, Reports
  PROVE  Len(out') \in 0..2 /\ \A i \in 1..Len(out') : ~Activates(out', i)
<1>1. CASE Execute
  <2>1. Head(reqs).cmd \in TagCommands
    BY <1>1, RequestShape DEF Execute
  <2>2. CASE Head(reqs).cmd = "RAW"
    BY <1>1, <2>2 DEF Execute, Report
  <2>3. CASE Head(reqs).cmd = "READ"
    <3>1. out' = <<Event("DATA", "ok"), Event("READ_CPLT", "ok")>>
      BY <1>1, <2>3 DEF Execute, Report, Answer
    <3> QED
      BY <3>1 DEF Event, Activates
  <2>4. CASE Head(reqs).cmd \notin {"RAW", "READ"}
    <3>1. out' = <<Event(Answers[Head(reqs).cmd], "ok")>>
      BY <1>1, <2>4 DEF Execute, Report, Answer
    <3>2. Answers[Head(reqs).cmd] # "ACTIVATED"
      BY <2>1, <2>4, AnswerKind
    <3> QED
      BY <3>1, <3>2 DEF Event, Activates
  <2> QED
    BY <2>2, <2>3, <2>4
<1>2. CASE Refuse
  <2>1. Head(reqs).cmd \in TagCommands
    BY <1>2, RequestShape DEF Refuse
  <2>2. CASE Head(reqs).cmd \in {"RAW"} \cup Transceives
    BY <1>2, <2>2 DEF Refuse, Report
  <2>3. CASE Head(reqs).cmd \notin {"RAW"} \cup Transceives
    <3>1. out' = <<Event(Answers[Head(reqs).cmd], "refused")>>
      BY <1>2, <2>3 DEF Refuse, Report, Answer
    <3>2. Answers[Head(reqs).cmd] # "ACTIVATED"
      BY <2>1, <2>3, AnswerKind
    <3> QED
      BY <3>1, <3>2 DEF Event, Activates
  <2> QED
    BY <2>2, <2>3
<1>3. CASE StopDiscovery
  <2>1. <<Event("DEACTIVATED", "IDLE")>> \o <<Event("STOPPED", "ok")>>
          = <<Event("DEACTIVATED", "IDLE"), Event("STOPPED", "ok")>>
    BY Two
  <2>2. <<>> \o <<Event("STOPPED", "ok")>> = <<Event("STOPPED", "ok")>>
    OBVIOUS
  <2>3. \/ out' = <<Event("DEACTIVATED", "IDLE"), Event("STOPPED", "ok")>>
        \/ out' = <<Event("STOPPED", "ok")>>
    BY <1>3, <2>1, <2>2 DEF StopDiscovery, Report
  <2> QED
    BY <2>3 DEF Event, Activates
<1>4. CASE LinkError
  BY <1>4 DEF LinkError, Report, Event, Activates
<1>5. CASE Deactivate
  <2>1. (\E d \in {"SLEEP", "DISCOVERY"} : out' = <<Event("DEACTIVATED", d)>>)
          \/ out' = <<Event("DEACTIVATE_FAIL", "refused")>>
    BY <1>5 DEF Deactivate, Report
  <2> QED
    BY <2>1 DEF Event, Activates
<1>6. CASE Configure \/ StartDiscovery \/ RemoteLeaves
  BY <1>6 DEF Configure, StartDiscovery, RemoteLeaves, Report, Event, Activates
<1> QED
  BY <1>1, <1>2, <1>3, <1>4, <1>5, <1>6 DEF Reports

LEMMA SentByPastTail ==
  ASSUME Shape, SentByPast, reqs' = reqs \/ (reqs # <<>> /\ reqs' = Tail(reqs)), UNCHANGED own
  PROVE  SentByPast'
<1>1. CASE reqs' = reqs
  BY <1>1 DEF SentByPast
<1>2. CASE reqs # <<>> /\ reqs' = Tail(reqs)
  <2>1. \A i \in 1..Len(reqs') : i + 1 \in 1..Len(reqs) /\ reqs'[i] = reqs[i + 1]
    BY <1>2, TailOf DEF Shape, QueueShape
  <2> QED
    BY <2>1 DEF SentByPast
<1> QED
  BY <1>1, <1>2

LEMMA ReportsArrivals ==
  ASSUME Shape, Arrivals, Reports
  PROVE  Arrivals'
<1>1. UNCHANGED <<session, dtaq, own>> /\ out = <<>> /\ stage' \in {"idle", "new"}
  BY ReportsKeep DEF dta
<1>2. InOrder'
  BY <1>1 DEF Arrivals, InOrder, Activates
<1>3. Latest'
  BY <1>1, ReportsNoActivation DEF Arrivals, Latest, Activates
<1>4. SentByPast'
  BY <1>1, ReportsKeep, SentByPastTail DEF Arrivals
<1> QED
  BY <1>2, <1>3, <1>4 DEF Arrivals

(* A new activation is the latest, whatever event comes with it.           *)
LEMMA ActivatedArrivals ==
  ASSUME Shape, Arrivals, NEW t \in Tests, tests' = Append(tests, t), session < MaxSessions,
         QueuesFrame, reqs' = reqs \/ (reqs # <<>> /\ reqs' = Tail(reqs)),
         stage' = "new", Len(out') \in 1..2,
         NEW n \in 1..Len(out'), out'[n] = Activation,
         \A i \in 1..Len(out') : i # n => ~Activates(out', i)
  PROVE  Arrivals'
<1>1. session' = session + 1 /\ session \in Nat /\ own \in 0..session
  BY Activated, SessionType DEF Shape, ThreadShape
<1>2. UNCHANGED <<dtaq, own>>
  BY DEF QueuesFrame, dta
<1>3. \A i \in 1..Len(dtaq) : dtaq[i].session <= session /\ dtaq[i].session \in Nat
  BY Bounds DEF Shape, QueueShape, Past, Events
<1>4. out'[n].kind = "ACTIVATED" /\ out'[n].session = session'
  BY <1>1 DEF Activation
<1>5. InOrder'
  BY <1>2 DEF Arrivals, InOrder, Activates
<1>6. Latest'
  <2>1. \A i \in 1..Len(out') : Activates(out', i) =>
          /\ out'[i].session = session' /\ own' < session'
          /\ \A j \in 1..Len(dtaq') : Activates(dtaq', j) => dtaq'[j].session < session'
    BY <1>1, <1>2, <1>3, <1>4 DEF Activates
  <2>2. \E i \in 1..Len(out') : Activates(out', i)
    BY <1>4 DEF Activates
  <2> QED
    BY <2>1, <2>2 DEF Latest, Activates
<1>7. SentByPast'
  BY <1>2, SentByPastTail DEF Arrivals
<1> QED
  BY <1>5, <1>6, <1>7 DEF Arrivals

LEMMA ActivateArrivals ==
  ASSUME Shape, Arrivals, Activate
  PROVE  Arrivals'
<1>1. PICK t \in Tests :
        /\ tests' = Append(tests, t)
        /\ \/ Report(<<Activation>>)
           \/ Report(<<Activation, [Activation EXCEPT !.kind = "DATA"]>>)
  BY DEF Activate
<1>2. session < MaxSessions /\ UNCHANGED reqs /\ QueuesFrame
  BY DEF Activate
<1>3. stage' = "new" /\ Len(out') \in 1..2 /\ out'[1] = Activation
  BY <1>1 DEF Report
<1>4. \A i \in 1..Len(out') : i # 1 => ~Activates(out', i)
  <2>1. Len(out') = 2 => out'[2].kind = "DATA"
    BY <1>1 DEF Report, Activation
  <2> QED
    BY <1>3, <2>1 DEF Activates
<1> QED
  BY <1>1, <1>2, <1>3, <1>4, ActivatedArrivals

LEMMA SelectArrivals ==
  ASSUME Shape, Arrivals, Select
  PROVE  Arrivals'
<1>1. reqs # <<>> /\ reqs' = Tail(reqs) /\ out = <<>> /\ QueuesFrame /\ Head(reqs) \in Sendable
  BY RequestShape DEF Select
<1>2. CASE /\ session < MaxSessions /\ tests' = Append(tests, tests[session])
           /\ Report(<<Event("SELECT_RESULT", "ok"), Activation>>)
  <2>1. tests[session] \in Tests
    BY <1>1, SessionType DEF Shape, Sendable
  <2>2. stage' = "new" /\ Len(out') = 2 /\ out'[2] = Activation /\ out'[1] = Event("SELECT_RESULT", "ok")
    BY <1>2 DEF Report
  <2>3. \A i \in 1..Len(out') : i # 2 => ~Activates(out', i)
    BY <2>2 DEF Activates, Event
  <2> QED
    BY <1>1, <1>2, <2>1, <2>2, <2>3, ActivatedArrivals
<1>3. CASE Report(<<Event("SELECT_RESULT", "refused")>>) /\ UNCHANGED tests
  <2>1. UNCHANGED <<session, dtaq, own>>
    BY <1>1, <1>3 DEF QueuesFrame, dta, session
  <2>2. stage' = "new" /\ \A i \in 1..Len(out') : ~Activates(out', i)
    BY <1>3 DEF Report, Event, Activates
  <2>3. InOrder'
    BY <2>1 DEF Arrivals, InOrder, Activates
  <2>4. Latest'
    BY <1>1, <2>1, <2>2 DEF Arrivals, Latest, Activates
  <2>5. SentByPast'
    BY <1>1, <2>1, SentByPastTail DEF Arrivals
  <2> QED
    BY <2>3, <2>4, <2>5 DEF Arrivals
<1> QED
  BY <1>2, <1>3 DEF Select

LEMMA CallbackArrivals ==
  ASSUME Shape, Arrivals, Callback
  PROVE  Arrivals'
<1>1. UNCHANGED <<session, own, reqs>>
  BY DEF Callback, NotifyState, PushMw, EvtCb, CbFrame, tagVars, dta, session
<1>2. SentByPast'
  BY <1>1 DEF Arrivals, SentByPast
<1>3. out # <<>> /\ out[1] = Head(out) /\ Head(out) \in Past /\ out \in Seq(Past)
  BY TailOf DEF Callback, NotifyState, PushMw, EvtCb, Shape, CallbackShape
<1>4. session \in Nat /\ own \in Nat /\ dtaq \in Seq(Past)
  BY SessionType DEF Shape, ThreadShape, QueueShape
<1>5. /\ Len(Tail(out)) = Len(out) - 1 /\ Len(out) \in Nat \ {0}
      /\ \A i \in 1..Len(Tail(out)) : i + 1 \in 1..Len(out) /\ Tail(out)[i] = out[i + 1]
  BY <1>3, TailOf
<1>6. CASE NotifyState
  <2>1. UNCHANGED <<out, dtaq>> /\ stage' = (IF out[1].kind = "ACTIVATED" THEN "dtaq" ELSE "mwq")
    BY <1>3, <1>6 DEF NotifyState
  <2>2. InOrder' /\ Latest'
    BY <1>1, <2>1 DEF Arrivals, InOrder, Latest, Activates
  <2> QED
    BY <1>2, <2>2 DEF Arrivals
<1>7. CASE PushMw
  <2>1. UNCHANGED dtaq /\ stage = "mwq" /\ out[1].kind # "ACTIVATED"
    BY <1>7 DEF PushMw, Arrivals, Latest
  <2>2. CASE out[1].kind = "DEACTIVATED"
    <3>1. UNCHANGED out /\ stage' = "dtaq"
      BY <1>3, <1>7, <2>2 DEF PushMw
    <3>2. InOrder' /\ Latest'
      BY <1>1, <2>1, <2>2, <3>1 DEF Arrivals, InOrder, Latest, Activates
    <3> QED
      BY <1>2, <3>2 DEF Arrivals
  <2>3. CASE out[1].kind # "DEACTIVATED"
    <3>1. out' = Tail(out) /\ stage' \in {"idle", "new"}
      BY <1>3, <1>7, <2>3 DEF PushMw, Reported
    <3>2. InOrder'
      BY <1>1, <2>1 DEF Arrivals, InOrder, Activates
    <3>3. ~Activates(out, 1)
      BY <2>1 DEF Activates
    <3>4. \A i \in 1..Len(out') : Activates(out', i) => Activates(out, i + 1)
      BY <1>5, <3>1 DEF Activates
    <3>5. own < session => \/ \E i \in 1..Len(out') : Activates(out', i)
                           \/ \E i \in 1..Len(dtaq) : Activates(dtaq, i) /\ dtaq[i].session = session
      <4>1. ASSUME NEW i \in 1..Len(out), Activates(out, i)
            PROVE  \E j \in 1..Len(out') : Activates(out', j)
        <5>1. i # 1 /\ i - 1 \in 1..Len(out') /\ out'[i - 1] = out[i]
          BY <1>5, <3>1, <3>3, <4>1
        <5> QED
          BY <4>1, <5>1 DEF Activates
      <4> QED
        BY <4>1 DEF Arrivals, Latest
    <3>6. \A i, j \in 1..Len(out') : Activates(out', i) /\ Activates(out', j) => i = j
      BY <1>5, <3>1, <3>4 DEF Arrivals, Latest
    <3>7. \A i \in 1..Len(out') : Activates(out', i) =>
            /\ out'[i].session = session /\ own < session
            /\ \A j \in 1..Len(dtaq) : Activates(dtaq, j) => dtaq[j].session < session
      BY <1>5, <3>1, <3>4 DEF Arrivals, Latest
    <3>8. Latest'
      BY <1>1, <2>1, <3>1, <3>5, <3>6, <3>7 DEF Latest, Activates
    <3> QED
      BY <1>2, <3>2, <3>8 DEF Arrivals
  <2> QED
    BY <2>2, <2>3
<1>8. CASE EvtCb
  <2>1. /\ dtaq' = Append(dtaq, out[1]) /\ out' = Tail(out) /\ stage' \in {"idle", "new"}
        /\ out[1].kind \in {"ACTIVATED", "DEACTIVATED"}
    BY <1>3, <1>8 DEF EvtCb, Reported, Arrivals, Latest
  <2>2. /\ Len(dtaq) \in Nat /\ Len(dtaq') = Len(dtaq) + 1
        /\ \A i \in 1..Len(dtaq) : dtaq'[i] = dtaq[i]
        /\ dtaq'[Len(dtaq) + 1] = out[1]
    BY <1>3, <1>4, <2>1, AppendOf
  <2>3. Activates(out, 1) => /\ out[1].session = session /\ own < session
                             /\ \A j \in 1..Len(dtaq) : Activates(dtaq, j) => dtaq[j].session < session
    BY <1>5 DEF Arrivals, Latest
  <2>4. \A i \in 1..Len(out') : Activates(out', i) => Activates(out, i + 1) /\ ~Activates(out, 1)
    BY <1>5, <2>1 DEF Activates, Arrivals, Latest
  <2>5. InOrder'
    <3>1. \A i \in 1..Len(dtaq') : dtaq'[i].kind \in {"ACTIVATED", "DEACTIVATED"}
      BY <2>1, <2>2 DEF Arrivals, InOrder
    <3>2. \A i \in 1..Len(dtaq') : Activates(dtaq', i) => own < dtaq'[i].session
      BY <2>2, <2>3 DEF Arrivals, InOrder, Activates
    <3>3. \A i, j \in 1..Len(dtaq') :
            i < j /\ Activates(dtaq', i) /\ Activates(dtaq', j) => dtaq'[i].session < dtaq'[j].session
      <4>1. ASSUME NEW i \in 1..Len(dtaq'), NEW j \in 1..Len(dtaq'),
                   i < j, Activates(dtaq', i), Activates(dtaq', j)
            PROVE  dtaq'[i].session < dtaq'[j].session
        <5>1. i \in 1..Len(dtaq) /\ dtaq'[i] = dtaq[i] /\ Activates(dtaq, i)
          BY <2>2, <4>1 DEF Activates
        <5>2. CASE j \in 1..Len(dtaq)
          BY <2>2, <4>1, <5>1, <5>2 DEF Arrivals, InOrder, Activates
        <5>3. CASE j = Len(dtaq) + 1
          BY <2>2, <2>3, <4>1, <5>1, <5>3 DEF Activates
        <5> QED
          BY <2>2, <5>2, <5>3
      <4> QED
        BY <4>1
    <3> QED
      BY <1>1, <3>1, <3>2, <3>3 DEF InOrder, Activates
  <2>6. Latest'
    <3>1. \A i \in 1..Len(out') : Activates(out', i) =>
            /\ out'[i].session = session /\ own < session
            /\ \A j \in 1..Len(dtaq') : Activates(dtaq', j) => dtaq'[j].session < session
      <4>1. ASSUME NEW i \in 1..Len(out'), Activates(out', i)
            PROVE  /\ out'[i].session = session /\ own < session
                   /\ \A j \in 1..Len(dtaq') : Activates(dtaq', j) => dtaq'[j].session < session
        <5>1. i + 1 \in 1..Len(out) /\ out'[i] = out[i + 1] /\ Activates(out, i + 1) /\ ~Activates(out, 1)
          BY <1>5, <2>1, <2>4, <4>1
        <5>2. \A j \in 1..Len(dtaq') : Activates(dtaq', j) => j \in 1..Len(dtaq) /\ Activates(dtaq, j) /\ dtaq'[j] = dtaq[j]
          BY <2>2, <5>1 DEF Activates
        <5> QED
          BY <5>1, <5>2 DEF Arrivals, Latest
      <4> QED
        BY <4>1
    <3>2. \A i, j \in 1..Len(out') : Activates(out', i) /\ Activates(out', j) => i = j
      BY <1>5, <2>1, <2>4 DEF Arrivals, Latest
    <3>3. own < session => \/ \E i \in 1..Len(out') : Activates(out', i)
                           \/ \E i \in 1..Len(dtaq') : Activates(dtaq', i) /\ dtaq'[i].session = session
      <4>1. ASSUME NEW i \in 1..Len(out), Activates(out, i), i # 1
            PROVE  \E j \in 1..Len(out') : Activates(out', j)
        <5>1. i - 1 \in 1..Len(out') /\ out'[i - 1] = out[i]
          BY <1>5, <2>1, <4>1
        <5> QED
          BY <4>1, <5>1 DEF Activates
      <4>2. ASSUME Activates(out, 1)
            PROVE  \E j \in 1..Len(dtaq') : Activates(dtaq', j) /\ dtaq'[j].session = session
        <5>1. Len(dtaq) + 1 \in 1..Len(dtaq')
          BY <2>2
        <5> QED
          BY <2>2, <2>3, <4>2, <5>1 DEF Activates
      <4>3. ASSUME NEW i \in 1..Len(dtaq), Activates(dtaq, i) /\ dtaq[i].session = session
            PROVE  \E j \in 1..Len(dtaq') : Activates(dtaq', j) /\ dtaq'[j].session = session
        BY <2>2, <4>3 DEF Activates
      <4> QED
        BY <4>1, <4>2, <4>3 DEF Arrivals, Latest
    <3> QED
      BY <1>1, <2>1, <3>1, <3>2, <3>3 DEF Latest, Activates
  <2> QED
    BY <1>2, <2>5, <2>6 DEF Arrivals
<1> QED
  BY <1>6, <1>7, <1>8 DEF Callback

(* What the steps of the DTA thread leave alone, and what they send.       *)
LEMMA ThreadKeeps ==
  ASSUME Shape, DtaThread
  PROVE  /\ UNCHANGED <<tagVars, session, out, stage, compliant, dataLast>>
         /\ mwq' = mwq \/ mwq' = <<>> \/ (mwq # <<>> /\ mwq' = Tail(mwq))
<1>1. UNCHANGED <<tagVars, out, stage, compliant, dataLast>>
  BY DEF DtaThread, CbMsgHandleThrd, HandleActivated, HandleDeactivated, TestStep, Disconnected,
         DeactivatedAlready, StopIdle, EnableDiscovery, ConsumeDeactivated, ReceiveData, Send,
         SendRawFrame, Transceive, TransceiveSent, Wait, WaitGot, WaitDrop, WaitAbort, WaitTimeout,
         WaitFrame, StepFrame, DtaFrame, cbVars, mwif
<1>2. mwq' = mwq \/ mwq' = <<>> \/ (mwq # <<>> /\ mwq' = Tail(mwq))
  BY DEF DtaThread, CbMsgHandleThrd, HandleActivated, HandleDeactivated, TestStep, Disconnected,
         DeactivatedAlready, StopIdle, EnableDiscovery, ConsumeDeactivated, ReceiveData, Send,
         SendRawFrame, Transceive, TransceiveSent, Wait, WaitGot, WaitDrop, WaitAbort, WaitTimeout,
         WaitPull
<1> QED
  BY <1>1, <1>2 DEF session, tagVars

LEMMA TestsKeep ==
  ASSUME Shape, TestStep \/ Wait
  PROVE  pc # "pull" /\ UNCHANGED <<own, dtaq, test>> /\ (UNCHANGED reqs \/ Sent)
BY DEF TestStep, Disconnected, DeactivatedAlready, StopIdle, EnableDiscovery, ConsumeDeactivated,
       ReceiveData, Send, SendRawFrame, Transceive, TransceiveSent, Wait, WaitGot, WaitDrop,
       WaitAbort, WaitTimeout, WaitPull, WaitFrame, StepFrame, DtaFrame, tagVars, test, Step

LEMMA ThreadArrivals ==
  ASSUME Shape, Arrivals, DtaThread
  PROVE  Arrivals'
<1>1. UNCHANGED <<session, out, stage>>
  BY ThreadKeeps
<1>2. CASE TestStep \/ Wait
  <2>1. UNCHANGED <<own, dtaq>> /\ pc # "pull" /\ (UNCHANGED reqs \/ Sent)
    BY <1>2, TestsKeep
  <2>2. InOrder' /\ Latest'
    BY <1>1, <2>1 DEF Arrivals, InOrder, Latest, Activates
  <2>3. SentByPast'
    <3>1. CASE UNCHANGED reqs
      BY <2>1, <3>1 DEF Arrivals, SentByPast
    <3>2. CASE Sent
      <4>1. /\ Len(reqs') = Len(reqs) + 1 /\ Len(reqs) \in Nat
            /\ \A i \in 1..Len(reqs) : reqs'[i] = reqs[i]
            /\ reqs'[Len(reqs')].session = own /\ own \in Nat
        BY <2>1, <3>2, SentShape, Running
      <4> QED
        BY <2>1, <4>1 DEF Arrivals, SentByPast
    <3> QED
      BY <2>1, <3>1, <3>2
  <2> QED
    BY <2>2, <2>3 DEF Arrivals
<1>3. CASE CbMsgHandleThrd
  <2>1. dtaq # <<>> /\ dtaq' = Tail(dtaq) /\ UNCHANGED reqs
    BY <1>3 DEF CbMsgHandleThrd, HandleActivated, HandleDeactivated
  <2>2. /\ Len(dtaq) \in Nat \ {0} /\ Len(dtaq') = Len(dtaq) - 1 /\ Head(dtaq) = dtaq[1]
        /\ \A i \in 1..Len(dtaq') : i + 1 \in 1..Len(dtaq) /\ dtaq'[i] = dtaq[i + 1]
        /\ dtaq[1].session \in 0..session /\ own \in 0..session /\ session \in Nat
    BY <2>1, TailOf, SessionType DEF Shape, QueueShape, ThreadShape, Past, Events
  <2>3. \/ Activates(dtaq, 1) /\ own' = dtaq[1].session
        \/ ~Activates(dtaq, 1) /\ own' = own
    BY <1>3, <2>2 DEF CbMsgHandleThrd, HandleActivated, HandleDeactivated, Activates, dta
  <2>4. own <= own'
    BY <2>2, <2>3 DEF Arrivals, InOrder
  <2>5. InOrder'
    <3>1. \A i \in 1..Len(dtaq') : dtaq'[i].kind \in {"ACTIVATED", "DEACTIVATED"}
      BY <2>2 DEF Arrivals, InOrder
    <3>2. \A i \in 1..Len(dtaq') : Activates(dtaq', i) => own' < dtaq'[i].session
      BY <2>2, <2>3 DEF Arrivals, InOrder, Activates
    <3>3. \A i, j \in 1..Len(dtaq') :
            i < j /\ Activates(dtaq', i) /\ Activates(dtaq', j) => dtaq'[i].session < dtaq'[j].session
      <4>1. ASSUME NEW i \in 1..Len(dtaq'), NEW j \in 1..Len(dtaq'),
                   i < j, Activates(dtaq', i), Activates(dtaq', j)
            PROVE  dtaq'[i].session < dtaq'[j].session
        <5>1. i + 1 \in 1..Len(dtaq) /\ j + 1 \in 1..Len(dtaq) /\ i + 1 < j + 1
          BY <2>2, <4>1
        <5> QED
          BY <2>2, <4>1, <5>1 DEF Arrivals, InOrder, Activates
      <4> QED
        BY <4>1
    <3> QED
      BY <3>1, <3>2, <3>3 DEF InOrder
  <2>6. Latest'
    <3>1. \A i \in 1..Len(dtaq') : Activates(dtaq', i) => Activates(dtaq, i + 1)
      BY <2>2 DEF Activates
    <3>2. \A i \in 1..Len(out) : Activates(out, i) =>
            /\ out[i].session = session /\ own' < session
            /\ \A j \in 1..Len(dtaq') : Activates(dtaq', j) => dtaq'[j].session < session
      <4>1. ASSUME NEW i \in 1..Len(out), Activates(out, i)
            PROVE  /\ out[i].session = session /\ own < session
                   /\ \A j \in 1..Len(dtaq) : Activates(dtaq, j) => dtaq[j].session < session
        BY <4>1 DEF Arrivals, Latest
      <4> QED
        BY <2>2, <2>3, <3>1, <4>1
    <3>3. own' < session => \/ \E i \in 1..Len(out) : Activates(out, i)
                            \/ \E i \in 1..Len(dtaq') : Activates(dtaq', i) /\ dtaq'[i].session = session
      <4>1. ASSUME own' < session, NEW i \in 1..Len(dtaq), Activates(dtaq, i), dtaq[i].session = session
            PROVE  \E j \in 1..Len(dtaq') : Activates(dtaq', j) /\ dtaq'[j].session = session
        <5>1. i # 1
          BY <2>2, <2>3, <4>1 DEF Activates
        <5>2. i - 1 \in 1..Len(dtaq') /\ dtaq'[i - 1] = dtaq[i]
          BY <2>2, <4>1, <5>1
        <5> QED
          BY <4>1, <5>2 DEF Activates
      <4>2. own' < session => own < session
        BY <2>2, <2>3, <2>4
      <4> QED
        BY <4>1, <4>2 DEF Arrivals, Latest
    <3> QED
      BY <1>1, <3>2, <3>3 DEF Arrivals, Latest, Activates
  <2>7. SentByPast'
    <3>1. \A i \in 1..Len(reqs) : reqs[i].session \in Nat
      BY DEF Shape, QueueShape, Sendable
    <3>2. own' \in Nat
      BY <2>2, <2>3
    <3> QED
      BY <2>1, <2>2, <2>4, <3>1, <3>2 DEF Arrivals, SentByPast
  <2> QED
    BY <2>5, <2>6, <2>7 DEF Arrivals
<1> QED
  BY <1>2, <1>3 DEF DtaThread

LEMMA ArrivalsStep == Shape /\ Arrivals /\ [Next]_vars => Arrivals'
<1>1. Shape /\ Arrivals /\ UNCHANGED vars => Arrivals'
  <2> SUFFICES ASSUME Arrivals, UNCHANGED vars PROVE Arrivals'
    OBVIOUS
  <2>1. UNCHANGED <<session, out, stage, reqs, own, dtaq>>
    BY DEF vars, tagVars, cbVars, dta, session
  <2> QED
    BY <2>1 DEF Arrivals, InOrder, Latest, SentByPast, Activates
<1> QED
  BY <1>1, ReportsArrivals, ActivateArrivals, SelectArrivals, CallbackArrivals, ThreadArrivals
     DEF Next, Nfa, NfaStep, Reports

-----------------------------------------------------------------------------
(* The steps of a T2T write test: reads, writes if the layout is known,    *)
(* and the release.                                                        *)

Known(l) == l \in {"06", "FE", "12"}
WritesOf(l) == IF ~Known(l) THEN 0 ELSE IF l = "12" THEN 11 ELSE 5
NthWrite(l, r) ==
  CASE r = 1 -> Write(LengthBlock(l), "zero")
    [] r = WritesOf(l) /\ r # 1 -> Write(LengthBlock(l), "new")
    [] OTHER -> Write(LengthBlock(l) + r - 1, "new")

(* The number of the write the steps p begin with, if they do.             *)
FirstWrite(l, p) == WritesOf(l) + 2 - Len(p)

LEMMA NdefWriteSteps ==
  ASSUME NEW l, Known(l)
  PROVE  /\ Len(NdefWrite(l)) = WritesOf(l)
         /\ \A r \in 1..WritesOf(l) : NdefWrite(l)[r] = NthWrite(l, r)
<1> DEFINE n == IF l = "12" THEN 9 ELSE 3
           first == <<Write(LengthBlock(l), "zero")>>
           data == [i \in 1..n |-> Write(LengthBlock(l) + i, "new")]
           last == <<Write(LengthBlock(l), "new")>>
           S == StepsOf({"WRITE"})
<1>1. n \in {3, 9} /\ WritesOf(l) = n + 2 /\ LengthBlock(l) \in {4, 5}
  BY DEF WritesOf, Known, LengthBlock
<1>2. \A b \in Nat, v \in {"zero", "new"} : Write(b, v) \in S
  BY CommandSet DEF Write, StepsOf, StepRec
<1>3. /\ first \in Seq(S) /\ Len(first) = 1 /\ first[1] = Write(LengthBlock(l), "zero")
      /\ last \in Seq(S) /\ Len(last) = 1 /\ last[1] = Write(LengthBlock(l), "new")
  BY <1>1, <1>2
<1>4. /\ data \in Seq(S) /\ Len(data) = n
      /\ \A i \in 1..n : data[i] = Write(LengthBlock(l) + i, "new")
  <2>1. data \in [1..n -> S]
    BY <1>1, <1>2
  <2> QED
    BY <1>1, <2>1
<1>5. NdefWrite(l) = (first \o data) \o last
  BY DEF NdefWrite
<1> HIDE DEF first, data, last, n, S
<1>6. /\ first \o data \in Seq(S) /\ Len(first \o data) = n + 1
      /\ (first \o data)[1] = Write(LengthBlock(l), "zero")
      /\ \A i \in 2..(n + 1) : (first \o data)[i] = Write(LengthBlock(l) + (i - 1), "new")
  <2>1. /\ first \o data \in Seq(S) /\ Len(first \o data) = 1 + n
        /\ \A i \in 1..1 : (first \o data)[i] = first[i]
        /\ \A i \in 1..n : (first \o data)[1 + i] = data[i]
    <3>1. /\ first \o data \in Seq(S) /\ Len(first \o data) = Len(first) + Len(data)
          /\ \A i \in 1..Len(first) : (first \o data)[i] = first[i]
          /\ \A i \in 1..Len(data) : (first \o data)[Len(first) + i] = data[i]
      <4>1. first \in Seq(S) /\ data \in Seq(S)
        BY <1>3, <1>4
      <4> QED
        BY <4>1, ConcatOf
    <3> QED
      BY <1>3, <1>4, <3>1
  <2>2. ASSUME NEW i \in 2..(n + 1)
        PROVE  (first \o data)[i] = Write(LengthBlock(l) + (i - 1), "new")
    <3>1. i - 1 \in 1..n /\ 1 + (i - 1) = i
      BY <1>1
    <3> QED
      BY <1>4, <2>1, <3>1
  <2> QED
    BY <1>1, <1>3, <2>1, <2>2
<1>7. /\ Len((first \o data) \o last) = n + 2
      /\ \A i \in 1..(n + 1) : ((first \o data) \o last)[i] = (first \o data)[i]
      /\ ((first \o data) \o last)[n + 2] = last[1]
  <2>1. /\ Len((first \o data) \o last) = (n + 1) + 1
        /\ \A i \in 1..(n + 1) : ((first \o data) \o last)[i] = (first \o data)[i]
        /\ \A i \in 1..1 : ((first \o data) \o last)[(n + 1) + i] = last[i]
    <3> DEFINE fd == first \o data
    <3>1. fd \in Seq(S) /\ Len(fd) = n + 1
      BY <1>6
    <3> HIDE DEF fd
    <3>2. /\ Len(fd \o last) = Len(fd) + Len(last)
          /\ \A i \in 1..Len(fd) : (fd \o last)[i] = fd[i]
          /\ \A i \in 1..Len(last) : (fd \o last)[Len(fd) + i] = last[i]
      <4>1. fd \in Seq(S) /\ last \in Seq(S)
        BY <1>3, <3>1
      <4> QED
        BY <4>1, ConcatOf
    <3>3. /\ Len(fd \o last) = (n + 1) + 1
          /\ \A i \in 1..(n + 1) : (fd \o last)[i] = fd[i]
          /\ \A i \in 1..1 : (fd \o last)[(n + 1) + i] = last[i]
      BY <1>3, <3>1, <3>2
    <3> QED
      BY <3>3 DEF fd
  <2>2. ((first \o data) \o last)[(n + 1) + 1] = last[1]
    <3>1. 1 \in 1..1
      OBVIOUS
    <3> QED
      BY <2>1, <3>1, Zenon
  <2>3. (n + 1) + 1 = n + 2
    BY <1>1
  <2>4. ((first \o data) \o last)[n + 2] = last[1]
    BY <2>2, <2>3
  <2> QED
    BY <2>1, <2>3, <2>4
<1>8. ASSUME NEW r \in 1..(n + 2)
      PROVE  NdefWrite(l)[r] = NthWrite(l, r)
  <2>1. CASE r = 1
    BY <1>1, <1>5, <1>6, <1>7, <2>1 DEF NthWrite
  <2>2. CASE r = n + 2
    BY <1>1, <1>3, <1>5, <1>7, <2>2 DEF NthWrite
  <2>3. CASE r \in 2..(n + 1)
    <3>1. NthWrite(l, r) = Write(LengthBlock(l) + (r - 1), "new")
      <4>1. LengthBlock(l) + r - 1 = LengthBlock(l) + (r - 1) /\ r # 1 /\ r # WritesOf(l)
        BY <1>1, <2>3
      <4> QED
        BY <4>1 DEF NthWrite
    <3> QED
      BY <1>1, <1>5, <1>6, <1>7, <2>3, <3>1
  <2> QED
    BY <1>1, <2>1, <2>2, <2>3
<1> QED
  BY <1>1, <1>5, <1>7, <1>8

LEMMA WriteTestBody ==
  ASSUME NEW t \in TestRecords, WriteTest(t)
  PROVE  \E n \in 2..3 :
           /\ Len(Body(t)) = n + WritesOf(t.layout)
           /\ \A i \in 1..n : Body(t)[i] = Do("READ")
           /\ \A r \in 1..WritesOf(t.layout) : Body(t)[n + r] = NthWrite(t.layout, r)
<1> DEFINE S == StepsOf({"READ", "WRITE"})
           l == t.layout
<1>1. Body(t) = T2TOperations(t)
  BY DEF Body, WriteTest
<1>2. ASSUME NEW n \in 2..3
      PROVE  /\ Times(n, "READ") \in Seq(S) /\ Len(Times(n, "READ")) = n
             /\ \A i \in 1..n : Times(n, "READ")[i] = Do("READ")
  <2>1. Times(n, "READ") \in Seq(S) /\ Len(Times(n, "READ")) = n
    <3>1. "READ" \in ({"READ", "WRITE"} \cap Commands) \ {"WRITE"} /\ n \in Nat
      BY CommandSet
    <3> QED
      BY <3>1, TimesType
  <2> QED
    BY <2>1 DEF Times
<1>3. CASE ~Known(l)
  <2>1. Body(t) = Times(2, "READ") /\ WritesOf(l) = 0
    BY <1>1, <1>3 DEF T2TOperations, WriteTest, Known, WritesOf
  <2> QED
    BY <1>2, <2>1
<1>4. CASE Known(l)
  <2>1. PICK n \in 2..3 : Body(t) = Times(n, "READ") \o NdefWrite(l)
    <3>1. CASE l = "12"
      BY <1>1, <3>1 DEF T2TOperations, WriteTest
    <3>2. CASE l \in {"06", "FE"}
      BY <1>1, <3>2 DEF T2TOperations, WriteTest
    <3> QED
      BY <1>4, <3>1, <3>2 DEF Known
  <2> DEFINE p == Times(n, "READ")
             q == NdefWrite(l)
  <2>2. /\ p \in Seq(S) /\ q \in Seq(S) /\ Len(p) = n /\ Len(q) = WritesOf(l)
        /\ \A i \in 1..n : p[i] = Do("READ")
        /\ \A r \in 1..WritesOf(l) : q[r] = NthWrite(l, r)
    BY <1>2, <1>4, NdefWriteSteps, NdefWriteType
  <2>3. WritesOf(l) \in Nat
    BY DEF WritesOf
  <2> HIDE DEF p, q, S
  <2>4. /\ Len(p \o q) = n + WritesOf(l)
        /\ \A i \in 1..n : (p \o q)[i] = p[i]
        /\ \A i \in 1..WritesOf(l) : (p \o q)[n + i] = q[i]
    <3>1. /\ Len(p \o q) = Len(p) + Len(q)
          /\ \A i \in 1..Len(p) : (p \o q)[i] = p[i]
          /\ \A i \in 1..Len(q) : (p \o q)[Len(p) + i] = q[i]
      <4>1. p \in Seq(S) /\ q \in Seq(S)
        BY <2>2
      <4> QED
        BY <4>1, ConcatOf
    <3> QED
      BY <2>2, <3>1
  <2>5. \A i \in 1..n : (p \o q)[i] = Do("READ")
    BY <2>2, <2>4
  <2>6. \A r \in 1..WritesOf(l) : (p \o q)[n + r] = NthWrite(l, r)
    BY <2>2, <2>4
  <2> QED
    BY <2>1, <2>4, <2>5, <2>6 DEF p, q
<1> QED
  BY <1>3, <1>4

(* What a handler of a T2T write test has left.                            *)
LEMMA WriteTestSteps ==
  ASSUME NEW t \in TestRecords, WriteTest(t), NEW p, ProgFits(t, p), p # <<>>
  PROVE  /\ \/ p[1].cmd = "READ" /\ FirstWrite(t.layout, p) <= 0
            \/ /\ p[1].cmd = "WRITE" /\ FirstWrite(t.layout, p) \in 1..WritesOf(t.layout)
               /\ p[1] = NthWrite(t.layout, FirstWrite(t.layout, p))
            \/ p[1].cmd = "DEACTIVATE" /\ Len(p) = 1
         /\ FirstWrite(t.layout, p) \in Int /\ Len(p) \in Nat \ {0}
<1> DEFINE b == Body(t)
           w == WritesOf(t.layout)
           e == Ending(t)
           S == StepsOf(Alphabet(t))
<1>1. PICK n \in 2..3 : /\ Len(b) = n + w
                        /\ \A i \in 1..n : b[i] = Do("READ")
                        /\ \A r \in 1..w : b[n + r] = NthWrite(t.layout, r)
  BY WriteTestBody
<1>2. e = Release
  BY EndingCases DEF WriteTest, Dep
<1>3. e \in Seq(S) /\ Len(e) = 1 /\ e[1] = Do("DEACTIVATE") /\ b \in Seq(S) /\ w \in {0, 5, 11}
  BY <1>2, ReleaseSteps, BodyEndingType DEF WritesOf
<1>4. IsSuffix(p, b \o e) /\ p \in Seq(S)
  BY DEF ProgFits
<1> HIDE DEF b, w, e, S
<1>5. /\ Len(b \o e) = n + w + 1
      /\ \A i \in 1..(n + w) : (b \o e)[i] = b[i]
      /\ (b \o e)[n + w + 1] = e[1]
  <2>1. /\ Len(b \o e) = (n + w) + 1
        /\ \A i \in 1..(n + w) : (b \o e)[i] = b[i]
        /\ \A i \in 1..1 : (b \o e)[(n + w) + i] = e[i]
    <3>1. /\ Len(b \o e) = Len(b) + Len(e)
          /\ \A i \in 1..Len(b) : (b \o e)[i] = b[i]
          /\ \A i \in 1..Len(e) : (b \o e)[Len(b) + i] = e[i]
      <4>1. b \in Seq(S) /\ e \in Seq(S)
        BY <1>3
      <4> QED
        BY <4>1, ConcatOf
    <3> QED
      BY <1>1, <1>3, <3>1
  <2> QED
    BY <1>3, <2>1
<1>6. Len(p) \in Nat \ {0}
  BY <1>4, LenProperties, EmptySeq
<1>7. Len(p) <= n + w + 1 /\ p[1] = (b \o e)[1 + n + w + 1 - Len(p)]
  <2>1. 1 + (n + w + 1) - Len(p) = 1 + n + w + 1 - Len(p)
    BY <1>3, <1>6
  <2>2. Len(p) <= Len(b \o e) /\ p[1] = (b \o e)[1 + Len(b \o e) - Len(p)]
    BY <1>4, <1>6 DEF IsSuffix
  <2> QED
    BY <1>5, <2>1, <2>2
<1>8. FirstWrite(t.layout, p) = w + 2 - Len(p) /\ WritesOf(t.layout) = w
  BY DEF FirstWrite, w
<1> DEFINE r == FirstWrite(t.layout, p)
<1> HIDE DEF r
<1>12. r = w + 2 - Len(p)
  BY <1>8 DEF r
<1>9. ASSUME Len(p) = 1
   PROVE  /\ \/ p[1].cmd = "READ" /\ r <= 0
             \/ p[1].cmd = "WRITE" /\ r \in 1..w /\ p[1] = NthWrite(t.layout, r)
             \/ p[1].cmd = "DEACTIVATE" /\ Len(p) = 1
          /\ r \in Int /\ Len(p) \in Nat \ {0}
  <2>1. p[1] = e[1]
    BY <1>3, <1>5, <1>7, <1>9
  <2> QED
    BY <1>3, <1>6, <1>12, <1>9, <2>1, DoCmd
<1>10. ASSUME Len(p) \in 2..(w + 1)
   PROVE  /\ \/ p[1].cmd = "READ" /\ r <= 0
             \/ p[1].cmd = "WRITE" /\ r \in 1..w /\ p[1] = NthWrite(t.layout, r)
             \/ p[1].cmd = "DEACTIVATE" /\ Len(p) = 1
          /\ r \in Int /\ Len(p) \in Nat \ {0}
  <2>1. r \in 1..w /\ 1 + n + w + 1 - Len(p) = n + r /\ n + r <= n + w
    BY <1>3, <1>6, <1>10, <1>12
  <2>2. p[1] = NthWrite(t.layout, r)
    <3>1. n + r \in 1..(n + w)
      BY <1>3, <2>1
    <3>2. (b \o e)[n + r] = b[n + r] /\ b[n + r] = NthWrite(t.layout, r)
      BY <1>1, <1>5, <2>1, <3>1
    <3> QED
      BY <1>7, <2>1, <3>2
  <2>3. p[1].cmd = "WRITE"
    BY <2>2 DEF NthWrite, Write
  <2> QED
    BY <1>3, <1>6, <1>12, <2>1, <2>2, <2>3
<1>11. ASSUME Len(p) > w + 1
   PROVE  /\ \/ p[1].cmd = "READ" /\ r <= 0
             \/ p[1].cmd = "WRITE" /\ r \in 1..w /\ p[1] = NthWrite(t.layout, r)
             \/ p[1].cmd = "DEACTIVATE" /\ Len(p) = 1
          /\ r \in Int /\ Len(p) \in Nat \ {0}
  <2>1. 1 + n + w + 1 - Len(p) \in 1..n
    BY <1>3, <1>6, <1>7, <1>11
  <2>2. p[1] = Do("READ")
    BY <1>1, <1>3, <1>5, <1>7, <2>1
  <2> QED
    BY <1>3, <1>6, <1>11, <1>12, <2>2, DoCmd
<1>13. /\ \/ p[1].cmd = "READ" /\ r <= 0
          \/ p[1].cmd = "WRITE" /\ r \in 1..w /\ p[1] = NthWrite(t.layout, r)
          \/ p[1].cmd = "DEACTIVATE" /\ Len(p) = 1
       /\ r \in Int /\ Len(p) \in Nat \ {0}
  <2>1. CASE Len(p) = 1
    BY <1>9, <2>1
  <2>2. CASE Len(p) \in 2..(w + 1)
    BY <1>10, <2>2
  <2>3. CASE Len(p) > w + 1
    BY <1>11, <2>3
  <2>4. Len(p) = 1 \/ Len(p) \in 2..(w + 1) \/ Len(p) > w + 1
    <3>1. w \in Nat /\ Len(p) \in Nat /\ Len(p) # 0
      BY <1>3, <1>6
    <3>2. \A a, c \in Nat : a # 0 => a = 1 \/ a \in 2..(c + 1) \/ a > c + 1
      OBVIOUS
    <3> QED
      BY <3>1, <3>2, Zenon
  <2> QED
    BY <2>1, <2>2, <2>3, <2>4
<1> QED
  BY <1>8, <1>13 DEF r

-----------------------------------------------------------------------------
(* The tag after the first k writes of a test, and the writes on their way.*)

MemoryAfter(l, k) ==
  [b \in Blocks |->
     IF b = LengthBlock(l)
       THEN IF k = 0 THEN "old" ELSE IF k = WritesOf(l) THEN "new" ELSE "zero"
       ELSE IF b \in DataBlocks(l) /\ b < LengthBlock(l) + k THEN "new" ELSE "old"]

LEMMA MemoryStart == \A l : [b \in Blocks |-> "old"] = MemoryAfter(l, 0)
BY DEF MemoryAfter, Blocks, DataBlocks, LengthBlock

LEMMA MemoryDomain ==
  ASSUME NEW l, NEW k
  PROVE  DOMAIN MemoryAfter(l, k) = Blocks /\ MemoryAfter(l, k) = [b \in Blocks |-> MemoryAfter(l, k)[b]]
BY DEF MemoryAfter

LEMMA MemoryNext ==
  ASSUME NEW l, NEW k \in 0..(WritesOf(l) - 1)
  PROVE  /\ NthWrite(l, k + 1).block \in Blocks
         /\ [MemoryAfter(l, k) EXCEPT ![NthWrite(l, k + 1).block] = NthWrite(l, k + 1).to]
              = MemoryAfter(l, k + 1)
<1>1. /\ Known(l) /\ WritesOf(l) = (IF l = "12" THEN 11 ELSE 5)
      /\ LengthBlock(l) = (IF l = "12" THEN 5 ELSE 4)
      /\ DataBlocks(l) = (IF l = "12" THEN 6..14 ELSE 5..7)
  BY DEF WritesOf, LengthBlock, DataBlocks
<1>2. CASE k = 0
  <2>1. NthWrite(l, k + 1) = Write(LengthBlock(l), "zero")
    BY <1>2 DEF NthWrite
  <2>2. NthWrite(l, k + 1).block = LengthBlock(l) /\ NthWrite(l, k + 1).to = "zero"
    BY <2>1 DEF Write
  <2>3. LengthBlock(l) \in Blocks
    BY <1>1, <1>2 DEF Blocks
  <2>4. \A b \in Blocks : MemoryAfter(l, k + 1)[b] = IF b = LengthBlock(l) THEN "zero" ELSE MemoryAfter(l, k)[b]
    BY <1>1, <1>2 DEF MemoryAfter, Blocks
  <2>5. [MemoryAfter(l, k) EXCEPT ![LengthBlock(l)] = "zero"] = MemoryAfter(l, k + 1)
    <3> DEFINE f == MemoryAfter(l, k)
               g == MemoryAfter(l, k + 1)
    <3>1. DOMAIN f = Blocks /\ f = [b \in Blocks |-> f[b]] /\ g = [b \in Blocks |-> g[b]]
      BY MemoryDomain
    <3> HIDE DEF f, g
    <3>2. [f EXCEPT ![LengthBlock(l)] = "zero"] = g
      BY <2>3, <2>4, <3>1 DEF f, g
    <3> QED
      BY <3>2 DEF f, g
  <2> QED
    BY <2>2, <2>3, <2>5
<1>3. CASE k = WritesOf(l) - 1
  <2>1. NthWrite(l, k + 1) = Write(LengthBlock(l), "new")
    BY <1>1, <1>3 DEF NthWrite
  <2>2. NthWrite(l, k + 1).block = LengthBlock(l) /\ NthWrite(l, k + 1).to = "new"
    BY <2>1 DEF Write
  <2>3. LengthBlock(l) \in Blocks
    BY <1>1, <1>3 DEF Blocks
  <2>4. \A b \in Blocks : MemoryAfter(l, k + 1)[b] = IF b = LengthBlock(l) THEN "new" ELSE MemoryAfter(l, k)[b]
    BY <1>1, <1>3 DEF MemoryAfter, Blocks
  <2>5. [MemoryAfter(l, k) EXCEPT ![LengthBlock(l)] = "new"] = MemoryAfter(l, k + 1)
    <3> DEFINE f == MemoryAfter(l, k)
               g == MemoryAfter(l, k + 1)
    <3>1. DOMAIN f = Blocks /\ f = [b \in Blocks |-> f[b]] /\ g = [b \in Blocks |-> g[b]]
      BY MemoryDomain
    <3> HIDE DEF f, g
    <3>2. [f EXCEPT ![LengthBlock(l)] = "new"] = g
      BY <2>3, <2>4, <3>1 DEF f, g
    <3> QED
      BY <3>2 DEF f, g
  <2> QED
    BY <2>2, <2>3, <2>5
<1>4. CASE k \in 1..(WritesOf(l) - 2)
  <2>1. NthWrite(l, k + 1) = Write(LengthBlock(l) + k, "new")
    <3>1. k + 1 # 1 /\ k + 1 # WritesOf(l) /\ LengthBlock(l) + (k + 1) - 1 = LengthBlock(l) + k
      BY <1>1, <1>4
    <3>2. NthWrite(l, k + 1) = Write(LengthBlock(l) + (k + 1) - 1, "new")
      BY <3>1 DEF NthWrite
    <3> QED
      BY <3>1, <3>2
  <2>2. NthWrite(l, k + 1).block = LengthBlock(l) + k /\ NthWrite(l, k + 1).to = "new"
    BY <2>1 DEF Write
  <2>3. LengthBlock(l) + k \in Blocks
    BY <1>1, <1>4 DEF Blocks
  <2>4. \A b \in Blocks : MemoryAfter(l, k + 1)[b] = IF b = LengthBlock(l) + k THEN "new" ELSE MemoryAfter(l, k)[b]
    BY <1>1, <1>4 DEF MemoryAfter, Blocks
  <2>5. [MemoryAfter(l, k) EXCEPT ![LengthBlock(l) + k] = "new"] = MemoryAfter(l, k + 1)
    <3> DEFINE f == MemoryAfter(l, k)
               g == MemoryAfter(l, k + 1)
    <3>1. DOMAIN f = Blocks /\ f = [b \in Blocks |-> f[b]] /\ g = [b \in Blocks |-> g[b]]
      BY MemoryDomain
    <3> HIDE DEF f, g
    <3>2. [f EXCEPT ![LengthBlock(l) + k] = "new"] = g
      BY <2>3, <2>4, <3>1 DEF f, g
    <3> QED
      BY <3>2 DEF f, g
  <2> QED
    BY <2>2, <2>3, <2>5
<1> QED
  BY <1>1, <1>2, <1>3, <1>4

LEMMA MemoryWhole ==
  ASSUME NEW l, NEW k \in 0..WritesOf(l), MemoryAfter(l, k)[LengthBlock(l)] # "zero"
  PROVE  \A b \in DataBlocks(l) : MemoryAfter(l, k)[b] = MemoryAfter(l, k)[LengthBlock(l)]
<1>1. /\ LengthBlock(l) \in Blocks /\ LengthBlock(l) \notin DataBlocks(l) /\ DataBlocks(l) \subseteq Blocks
      /\ WritesOf(l) \in {0, 5, 11}
  BY DEF LengthBlock, DataBlocks, Blocks, WritesOf
<1>2. k = 0 \/ k = WritesOf(l)
  BY <1>1 DEF MemoryAfter
<1>3. CASE k = 0
  BY <1>1, <1>3 DEF MemoryAfter, DataBlocks, LengthBlock
<1>4. CASE k = WritesOf(l) /\ k # 0
  <2>1. \A b \in DataBlocks(l) : b < LengthBlock(l) + k
    BY <1>1, <1>4 DEF DataBlocks, LengthBlock, WritesOf, Known
  <2> QED
    BY <1>1, <1>4, <2>1 DEF MemoryAfter
<1> QED
  BY <1>2, <1>3, <1>4

Layout == tests[session].layout
Mine(i) == reqs[i].cmd = "WRITE" /\ reqs[i].session = session

(* The tag has k writes, the test sent m, and those on their way begin     *)
(* after the first p requests.                                             *)
Progress(k, m, p) ==
  /\ k <= m /\ mem = MemoryAfter(Layout, k)
  /\ m > k => p + m - k <= Len(reqs)
  /\ \A i \in 1..Len(reqs) :
       /\ Mine(i) <=> i \in (p + 1)..(p + m - k)
       /\ Mine(i) => /\ reqs[i].block = NthWrite(Layout, k + i - p).block
                     /\ reqs[i].to = NthWrite(Layout, k + i - p).to
  /\ own < session \/ (pc # "pull" /\ Cmd = "READ") => m = 0
  /\ own = session /\ pc # "pull" /\ Cmd = "WRITE" =>
       /\ m = FirstWrite(Layout, prog) - (IF pc = "wait" THEN 0 ELSE 1)
       /\ m > k => p + m - k = Len(reqs)

Writable == session > 0 /\ WriteTest(tests[session]) /\ ~spoiled /\ rf = "active"
Progressed == \E k, m \in 0..WritesOf(Layout), p \in Nat : Progress(k, m, p)

Written == Writable => Progressed

LEMMA WrittenInit == Init => Written
BY DEF Init, Written, Writable

LEMMA WrittenSame ==
  ASSUME Written, UNCHANGED <<rf, tests, mem, spoiled, reqs, own, pc, prog>>
  PROVE  Written'
<1>1. session' = session /\ Layout' = Layout /\ Cmd' = Cmd /\ Writable' = Writable
  BY DEF session, Layout, Cmd, Writable
<1>2. \A k, m, p : Progress(k, m, p) => Progress(k, m, p)'
  BY <1>1 DEF Progress, Mine
<1>3. Progressed => Progressed'
  BY <1>1, <1>2 DEF Progressed
<1> QED
  BY <1>1, <1>3 DEF Written

LEMMA WrittenCallback ==
  ASSUME Written, Callback
  PROVE  Written'
<1>1. UNCHANGED <<rf, tests, mem, spoiled, reqs, own, pc, prog>>
  BY DEF Callback, NotifyState, PushMw, EvtCb, CbFrame, tagVars, dta
<1> QED
  BY <1>1, WrittenSame

(* A new tag carries the old message, and no test has written to it.       *)
LEMMA WrittenNewTag ==
  ASSUME Shape, Arrivals, NEW t \in Tests, tests' = Append(tests, t), session < MaxSessions,
         NewTag, QueuesFrame, reqs' = reqs \/ (reqs # <<>> /\ reqs' = Tail(reqs))
  PROVE  Written'
<1>1. session' = session + 1 /\ session \in Nat /\ own \in 0..session /\ UNCHANGED <<own, pc, prog>>
  BY Activated, SessionType DEF Shape, ThreadShape, QueuesFrame, dta
<1>2. \A i \in 1..Len(reqs') : reqs'[i].session <= own /\ reqs'[i].session \in Nat
  <2>1. \A i \in 1..Len(reqs) : reqs[i].session <= own /\ reqs[i].session \in Nat
    BY DEF Arrivals, SentByPast, Shape, QueueShape, Sendable
  <2>2. CASE reqs # <<>> /\ reqs' = Tail(reqs)
    BY <2>1, <2>2, TailOf DEF Shape, QueueShape
  <2> QED
    BY <2>1, <2>2
<1>3. Progress(0, 0, 0)'
  <2>1. mem' = MemoryAfter(Layout', 0)
    BY MemoryStart DEF NewTag
  <2>2. \A i \in 1..Len(reqs') : ~Mine(i)'
    BY <1>1, <1>2 DEF Mine
  <2>3. own' < session'
    BY <1>1
  <2>4. ~(own' = session')
    BY <1>1
  <2>5. \A i \in 1..Len(reqs') : i \notin (0 + 1)..(0 + 0 - 0)
    OBVIOUS
  <2> QED
    BY <2>1, <2>2, <2>4, <2>5 DEF Progress
<1>4. 0 \in 0..WritesOf(Layout')
  BY DEF WritesOf
<1>5. Progressed'
  BY <1>3, <1>4 DEF Progressed
<1> QED
  BY <1>5 DEF Written

(* What becomes of the writes on their way when the first request goes.    *)
LEMMA ProgressTail ==
  ASSUME Shape, NEW k \in 0..WritesOf(Layout), NEW m \in 0..WritesOf(Layout), NEW p \in Nat,
         Progress(k, m, p), reqs # <<>>, reqs' = Tail(reqs), UNCHANGED <<tests, own, pc, prog>>,
         NEW k1 \in 0..WritesOf(Layout), NEW p1 \in Nat, mem' = MemoryAfter(Layout, k1),
         \/ ~Mine(1) /\ k1 = k /\ p1 = (IF p = 0 THEN 0 ELSE p - 1)
         \/ Mine(1) /\ k1 = k + 1 /\ p1 = p
  PROVE  Progressed'
<1>1. session' = session /\ Layout' = Layout /\ Cmd' = Cmd
  BY DEF session, Layout, Cmd
<1>2. /\ Len(reqs) \in Nat \ {0} /\ Len(reqs') = Len(reqs) - 1
      /\ \A i \in 1..Len(reqs') : i + 1 \in 1..Len(reqs) /\ reqs'[i] = reqs[i + 1]
  BY TailOf DEF Shape, QueueShape
<1>3. \A i \in 1..Len(reqs') : Mine(i)' <=> Mine(i + 1)
  BY <1>1, <1>2 DEF Mine
<1>4. /\ k <= m /\ \A i \in 1..Len(reqs) :
           /\ Mine(i) <=> i \in (p + 1)..(p + m - k)
           /\ Mine(i) => /\ reqs[i].block = NthWrite(Layout, k + i - p).block
                         /\ reqs[i].to = NthWrite(Layout, k + i - p).to
  BY DEF Progress
<1>5. WritesOf(Layout) \in Nat
  BY DEF WritesOf
<1>6. Mine(1) <=> p = 0 /\ k < m
  BY <1>2, <1>4, <1>5
<1>7. /\ k1 <= m
      /\ \/ p1 + 1 = p /\ k1 = k
         \/ p = 0 /\ p1 = 0 /\ k1 = k + 1
         \/ p = 0 /\ p1 = 0 /\ k1 = k /\ k = m
  <2>1. CASE Mine(1)
    BY <1>4, <1>5, <1>6, <2>1
  <2>2. CASE ~Mine(1)
    BY <1>4, <1>5, <1>6, <2>2
  <2> QED
    BY <2>1, <2>2
<1>8. ASSUME NEW i \in 1..Len(reqs')
      PROVE  /\ Mine(i)' <=> i \in (p1 + 1)..(p1 + m - k1)
             /\ Mine(i)' => /\ reqs'[i].block = NthWrite(Layout, k1 + i - p1).block
                            /\ reqs'[i].to = NthWrite(Layout, k1 + i - p1).to
  <2>1. Mine(i + 1) <=> i + 1 \in (p + 1)..(p + m - k)
    BY <1>2, <1>4
  <2>2. Mine(i + 1) => /\ reqs[i + 1].block = NthWrite(Layout, k + (i + 1) - p).block
                       /\ reqs[i + 1].to = NthWrite(Layout, k + (i + 1) - p).to
    BY <1>2, <1>4
  <2>3. i \in (p1 + 1)..(p1 + m - k1) <=> i + 1 \in (p + 1)..(p + m - k)
    BY <1>2, <1>5, <1>7
  <2>4. Mine(i + 1) => k1 + i - p1 = k + (i + 1) - p
    BY <1>2, <1>5, <1>7, <2>1
  <2> QED
    BY <1>2, <1>3, <2>1, <2>2, <2>3, <2>4
<1>9. Progress(k1, m, p1)'
  <2>1. own' < session' \/ (pc' # "pull" /\ Cmd' = "READ") => m = 0
    BY <1>1 DEF Progress
  <2>2. own' = session' /\ pc' # "pull" /\ Cmd' = "WRITE" =>
          /\ m = FirstWrite(Layout', prog') - (IF pc' = "wait" THEN 0 ELSE 1)
          /\ m > k1 => p1 + m - k1 = Len(reqs')
    <3> SUFFICES ASSUME own' = session', pc' # "pull", Cmd' = "WRITE"
                 PROVE  /\ m = FirstWrite(Layout', prog') - (IF pc' = "wait" THEN 0 ELSE 1)
                        /\ m > k1 => p1 + m - k1 = Len(reqs')
      OBVIOUS
    <3>1. m = FirstWrite(Layout, prog) - (IF pc = "wait" THEN 0 ELSE 1)
      BY <1>1 DEF Progress
    <3>2. m > k => p + m - k = Len(reqs)
      BY <1>1 DEF Progress
    <3>3. m = FirstWrite(Layout', prog') - (IF pc' = "wait" THEN 0 ELSE 1)
      BY <1>1, <3>1
    <3>4. m > k1 => p1 + m - k1 = Len(reqs')
      BY <1>2, <1>5, <1>7, <3>2
    <3> QED
      BY <3>3, <3>4
  <2>3. m > k1 => p1 + m - k1 <= Len(reqs')
    <3>1. m > k => p + m - k <= Len(reqs)
      BY DEF Progress
    <3> QED
      BY <1>2, <1>5, <1>7, <3>1
  <2> QED
    BY <1>1, <1>7, <1>8, <2>1, <2>2, <2>3 DEF Progress
<1> QED
  BY <1>1, <1>9 DEF Progressed

LEMMA WrittenReports ==
  ASSUME Shape, Written, Reports
  PROVE  Written'
<1> SUFFICES ASSUME Writable' PROVE Progressed'
  BY DEF Written
<1>1. UNCHANGED <<tests, session, own, pc, prog>> /\ out = <<>>
  BY ReportsKeep DEF dta
<1>2. rf = "active" /\ ~spoiled
  <2>1. rf' = "active" /\ ~spoiled'
    BY DEF Writable
  <2>2. rf = "active"
    BY <2>1 DEF Reports, Execute, Refuse, LinkError, Deactivate, StopDiscovery, Configure,
                StartDiscovery, RemoteLeaves, tagVars
  <2>3. ~spoiled
    BY <2>1 DEF Reports, Execute, Refuse, LinkError, Deactivate, StopDiscovery, Configure,
                StartDiscovery, RemoteLeaves, tagVars
  <2> QED
    BY <2>2, <2>3
<1>3. Writable
  BY <1>1, <1>2 DEF Writable
<1>4. PICK k \in 0..WritesOf(Layout), m \in 0..WritesOf(Layout), p \in Nat : Progress(k, m, p)
  BY <1>3 DEF Written, Progressed
<1>5. mem = MemoryAfter(Layout, k)
  BY <1>4 DEF Progress
<1>6. CASE RemoteLeaves
  BY <1>6 DEF RemoteLeaves, Writable
<1>7. CASE ~RemoteLeaves
  <2>1. reqs # <<>> /\ reqs' = Tail(reqs) /\ Head(reqs) = reqs[1] /\ 1 \in 1..Len(reqs)
    <3>1. reqs # <<>> /\ reqs' = Tail(reqs)
      BY <1>7 DEF Reports, Execute, Refuse, LinkError, Deactivate, StopDiscovery, Configure,
                  StartDiscovery, Requested, Request
    <3> QED
      BY <3>1, TailOf DEF Shape, QueueShape
  <2>2. CASE ~Mine(1)
    <3>1. mem' = mem
      <4>1. CASE Execute
        <5>1. Head(reqs).cmd # "WRITE"
          <6>1. Head(reqs).cmd = "WRITE" => OfAnother /\ Writing
            BY <2>1, <2>2 DEF Mine, OfAnother, Writing
          <6>2. ~(Writing /\ OfAnother)
            BY <4>1 DEF Execute, Writable
          <6> QED
            BY <6>1, <6>2
        <5> QED
          BY <4>1, <5>1 DEF Execute
      <4>2. CASE ~Execute
        BY <4>2 DEF Reports, Refuse, LinkError, Deactivate, StopDiscovery, Configure,
                    StartDiscovery, RemoteLeaves, tagVars
      <4> QED
        BY <4>1, <4>2
    <3> QED
      <4> DEFINE p1 == IF p = 0 THEN 0 ELSE p - 1
      <4>1. p1 \in Nat
        OBVIOUS
      <4>2. ~Mine(1) /\ k = k /\ p1 = (IF p = 0 THEN 0 ELSE p - 1)
        BY <2>2
      <4> HIDE DEF p1
      <4>3. mem' = MemoryAfter(Layout, k)
        BY <1>5, <3>1
      <4> QED
        BY <1>1, <1>4, <2>1, <4>1, <4>2, <4>3, ProgressTail
  <2>3. CASE Mine(1)
    <3>1. Head(reqs).cmd = "WRITE"
      BY <2>1, <2>3 DEF Mine
    <3>2. Execute
      <4>1. ~Refuse
        BY <1>2, <3>1 DEF Refuse, Writing, Writable
      <4>2. ~LinkError
        BY DEF LinkError, Writable
      <4>3. ~(Deactivate \/ StopDiscovery \/ Configure \/ StartDiscovery)
        BY <3>1 DEF Deactivate, StopDiscovery, Configure, StartDiscovery, Requested
      <4> QED
        BY <1>7, <4>1, <4>2, <4>3 DEF Reports
    <3>3. p = 0 /\ k < m /\ WritesOf(Layout) \in Nat
      <4>1. Mine(1) <=> 1 \in (p + 1)..(p + m - k)
        BY <1>4, <2>1 DEF Progress
      <4>2. WritesOf(Layout) \in Nat
        BY DEF WritesOf
      <4> QED
        BY <2>3, <4>1, <4>2
    <3>4. Head(reqs).block = NthWrite(Layout, k + 1).block /\ Head(reqs).to = NthWrite(Layout, k + 1).to
      <4>1. k + 1 - 0 = k + 1
        OBVIOUS
      <4> QED
        BY <1>4, <2>1, <2>3, <3>3, <4>1 DEF Progress
    <3>5. k \in 0..(WritesOf(Layout) - 1) /\ k + 1 \in 0..WritesOf(Layout)
      BY <3>3
    <3>6. mem' = MemoryAfter(Layout, k + 1)
      BY <1>5, <3>1, <3>2, <3>4, <3>5, MemoryNext DEF Execute
    <3> QED
      <4> DEFINE k1 == k + 1
      <4>1. k1 \in 0..WritesOf(Layout) /\ mem' = MemoryAfter(Layout, k1) /\ k1 = k + 1 /\ Mine(1) /\ p = p
        BY <2>3, <3>5, <3>6
      <4> HIDE DEF k1
      <4> QED
        BY <1>1, <1>4, <2>1, <4>1, ProgressTail
  <2> QED
    BY <2>2, <2>3
<1> QED
  BY <1>6, <1>7

LEMMA WrittenNfa ==
  ASSUME Shape, Arrivals, Written, Nfa
  PROVE  Written'
<1>1. CASE Reports
  BY <1>1, WrittenReports
<1>2. CASE Activate
  <2>1. PICK t \in Tests : tests' = Append(tests, t)
    BY <1>2 DEF Activate
  <2>2. session < MaxSessions /\ UNCHANGED reqs /\ QueuesFrame /\ NewTag
    BY <1>2 DEF Activate
  <2> QED
    BY <2>1, <2>2, WrittenNewTag
<1>3. CASE Select
  <2>1. reqs # <<>> /\ reqs' = Tail(reqs) /\ QueuesFrame /\ Head(reqs) \in Sendable
        /\ Head(reqs).cmd = "SELECT" /\ Head(reqs) = reqs[1]
    BY <1>3, RequestShape, TailOf DEF Select, Shape, QueueShape
  <2>2. CASE session < MaxSessions /\ tests' = Append(tests, tests[session]) /\ NewTag
    <3>1. tests[session] \in Tests
      BY <2>1, SessionType DEF Shape, Sendable
    <3> QED
      BY <2>1, <2>2, <3>1, WrittenNewTag
  <2>3. CASE UNCHANGED <<rf, tests, mem, spoiled>>
    <3> SUFFICES ASSUME Writable' PROVE Progressed'
      BY DEF Written
    <3>1. Writable /\ UNCHANGED <<own, pc, prog>> /\ session' = session
      BY <2>1, <2>3 DEF Writable, QueuesFrame, dta, session
    <3>2. PICK k \in 0..WritesOf(Layout), m \in 0..WritesOf(Layout), p \in Nat : Progress(k, m, p)
      BY <3>1 DEF Written, Progressed
    <3>3. ~Mine(1)
      BY <2>1 DEF Mine
    <3> DEFINE p1 == IF p = 0 THEN 0 ELSE p - 1
    <3>4. p1 \in Nat
      OBVIOUS
    <3>5. ~Mine(1) /\ k = k /\ p1 = (IF p = 0 THEN 0 ELSE p - 1)
      BY <3>3
    <3> HIDE DEF p1
    <3>6. mem' = MemoryAfter(Layout, k)
      BY <2>3, <3>2 DEF Progress
    <3> QED
      BY <2>1, <2>3, <3>1, <3>2, <3>4, <3>5, <3>6, ProgressTail
  <2> QED
    BY <1>3, <2>2, <2>3 DEF Select
<1> QED
  BY <1>1, <1>2, <1>3 DEF Nfa, NfaStep, Reports

-----------------------------------------------------------------------------
(* The thread sends the writes of the latest test one after the other.     *)

(* A write test reads, writes and releases; whatever fails it releases.    *)
LEMMA WriteTestMoves ==
  ASSUME Shape, TestStep \/ Wait, WriteTest(test)
  PROVE  \/ UNCHANGED <<pc, prog, reqs>>
         \/ Sent /\ pc = "run" /\ pc' = "wait" /\ UNCHANGED prog
         \/ /\ UNCHANGED reqs /\ (GoOn(Tail(prog)) \/ GoOn(Release))
            /\ Cmd \in {"READ", "WRITE"} => pc = "wait"
<1>1. test \in TestRecords /\ prog # <<>> /\ ProgFits(test, prog) /\ Cmd = prog[1].cmd /\ pc # "pull"
  BY TestsKeep, Running, NextStep
<1>2. Cmd \in {"READ", "WRITE", "DEACTIVATE"}
  BY <1>1, WriteTestSteps
<1>3. pc # "sent"
  BY <1>2 DEF Shape, ThreadShape, Transceives
<1>4. ASSUME NEW p \in OnSuccess(test, Cmd) \cup OnFailures(test, Cmd)
      PROVE  p \in {Tail(prog), Release}
  <2>1. Ending(test) = Release
    BY <1>1, EndingCases DEF WriteTest, Dep
  <2>2. p = Tail(prog) \/ (p = <<>> /\ Cmd = "START") \/ p \in Detours(test)
    BY <1>1, <1>2, <1>4, Follows
  <2> QED
    BY <1>2, <2>1, <2>2 DEF Detours, WriteTest, Dep
<1>5. CASE TestStep
  <2>1. CASE Send
    BY <2>1 DEF Send
  <2>2. CASE DeactivatedAlready
    BY <2>2 DEF DeactivatedAlready, Step
  <2>3. ~(Disconnected \/ StopIdle \/ EnableDiscovery \/ ConsumeDeactivated \/ ReceiveData
            \/ SendRawFrame \/ Transceive \/ TransceiveSent)
    BY <1>2, <1>3 DEF Disconnected, StopIdle, EnableDiscovery, ConsumeDeactivated, ReceiveData,
                      SendRawFrame, Transceive, TransceiveSent, Step, Transceives
  <2> QED
    BY <1>5, <2>1, <2>2, <2>3 DEF TestStep
<1>6. CASE Wait
  <2>1. UNCHANGED reqs /\ pc = "wait"
    BY <1>6 DEF Wait, WaitGot, WaitDrop, WaitAbort, WaitTimeout, WaitPull, WaitFrame
  <2>2. CASE WaitDrop
    BY <2>1, <2>2 DEF WaitDrop
  <2>3. CASE WaitGot \/ WaitAbort \/ WaitTimeout
    <3>1. \E p \in OnSuccess(test, Cmd) \cup OnFailures(test, Cmd) : GoOn(p)
      BY <2>3 DEF WaitGot, WaitAbort, WaitTimeout, Answered
    <3> QED
      BY <1>4, <2>1, <3>1
  <2> QED
    BY <1>6, <2>2, <2>3 DEF Wait
<1> QED
  BY <1>5, <1>6

LEMMA WriteTestStart ==
  ASSUME NEW t \in TestRecords, WriteTest(t)
  PROVE  Head(Body(t) \o Ending(t)).cmd = "READ" /\ Body(t) \o Ending(t) # <<>>
<1> DEFINE b == Body(t)
           e == Ending(t)
           S == StepsOf(Alphabet(t))
<1>1. PICK n \in 2..3 : Len(b) = n + WritesOf(t.layout) /\ b[1] = Do("READ")
  BY WriteTestBody
<1>2. Len(b) \in Nat \ {0}
  BY <1>1 DEF WritesOf
<1>3. b \in Seq(S) /\ e \in Seq(S)
  BY BodyEndingType
<1> HIDE DEF b, e, S
<1>4. /\ b \o e \in Seq(S) /\ Len(b \o e) = Len(b) + Len(e)
      /\ \A i \in 1..Len(b) : (b \o e)[i] = b[i]
  BY <1>3, ConcatOf
<1>5. Len(e) \in Nat
  BY <1>3, LenProperties
<1>6. (b \o e)[1] = Do("READ") /\ b \o e # <<>>
  BY <1>1, <1>2, <1>4, <1>5
<1>7. Head(b \o e) = Do("READ")
  BY <1>4, <1>6
<1> QED
  BY <1>6, <1>7, DoCmd DEF b, e

LEMMA WrittenHandle ==
  ASSUME Shape, Arrivals, Written, CbMsgHandleThrd
  PROVE  Written'
<1>1. UNCHANGED <<rf, tests, mem, spoiled, reqs>> /\ session' = session /\ Writable' = Writable
  BY DEF CbMsgHandleThrd, HandleActivated, HandleDeactivated, DtaFrame, tagVars, session, Writable
<1>2. CASE HandleDeactivated
  BY <1>1, <1>2, WrittenSame DEF HandleDeactivated, dta
<1>3. CASE HandleActivated
  <2> SUFFICES ASSUME Writable PROVE Progressed'
    BY <1>1 DEF Written
  <2>1. PICK k \in 0..WritesOf(Layout), m \in 0..WritesOf(Layout), p \in Nat : Progress(k, m, p)
    BY DEF Written, Progressed
  <2>2. /\ own < Head(dtaq).session /\ Head(dtaq).session \in 1..session /\ own \in Nat /\ session \in Nat
    <3>1. Head(dtaq) = dtaq[1] /\ 1 \in 1..Len(dtaq) /\ Head(dtaq) \in Past /\ dtaq[1].kind = "ACTIVATED"
      BY <1>3, TailOf DEF HandleActivated, Shape, QueueShape
    <3>2. own < dtaq[1].session
      BY <3>1 DEF Arrivals, InOrder, Activates
    <3> QED
      BY <3>1, <3>2, SessionType DEF Past, Events, Shape, ThreadShape
  <2>3. own < session /\ m = 0 /\ k = 0 /\ WritesOf(Layout) \in Nat
    BY <2>1, <2>2 DEF Progress, WritesOf
  <2>4. own' = Head(dtaq).session /\ prog' = Body(tests[own']) \o Ending(tests[own'])
    BY <1>3 DEF HandleActivated, GoOn
  <2>5. own' = session => Cmd' = "READ"
    <3> SUFFICES ASSUME own' = session PROVE Cmd' = "READ"
      OBVIOUS
    <3> DEFINE t == tests[session]
    <3>1. t \in TestRecords /\ WriteTest(t)
      BY <2>2, SessionType, Bounds DEF Writable, Shape
    <3> HIDE DEF t
    <3>2. Head(Body(t) \o Ending(t)).cmd = "READ"
      BY <3>1, WriteTestStart
    <3>3. prog' = Body(t) \o Ending(t)
      BY <2>4 DEF t
    <3> QED
      BY <3>2, <3>3 DEF Cmd
  <2>6. Layout' = Layout
    BY <1>1 DEF Layout
  <2>7. Progress(0, 0, p)'
    <3>1. \A i \in 1..Len(reqs) : ~Mine(i)
      BY <2>1, <2>3 DEF Progress
    <3>2. \A i \in 1..Len(reqs') : ~Mine(i)'
      BY <1>1, <3>1 DEF Mine
    <3>3. \A i \in Nat : i \notin (p + 1)..(p + 0 - 0)
      OBVIOUS
    <3>4. mem' = MemoryAfter(Layout', 0)
      BY <1>1, <2>1, <2>3, <2>6 DEF Progress
    <3>5. ~(own' = session' /\ pc' # "pull" /\ Cmd' = "WRITE")
      BY <1>1, <2>5
    <3>6. \A i \in 1..Len(reqs') : i \in Nat
      OBVIOUS
    <3> QED
      BY <3>2, <3>3, <3>4, <3>5, <3>6 DEF Progress
  <2> QED
    BY <2>3, <2>6, <2>7 DEF Progressed
<1> QED
  BY <1>2, <1>3 DEF CbMsgHandleThrd

(* The test of an older activation sends requests that are not the latest's.*)
LEMMA WrittenOlder ==
  ASSUME Shape, Written, TestStep \/ Wait, own # session
  PROVE  Written'
<1>1. UNCHANGED <<rf, tests, mem, spoiled, session, own>> /\ Writable' = Writable /\ Layout' = Layout
  BY ThreadKeeps, TestsKeep DEF DtaThread, tagVars, Writable, Layout
<1> SUFFICES ASSUME Writable PROVE Progressed'
  BY <1>1 DEF Written
<1>2. PICK k \in 0..WritesOf(Layout), m \in 0..WritesOf(Layout), p \in Nat : Progress(k, m, p)
  BY DEF Written, Progressed
<1>3. own < session /\ own \in 1..session /\ session \in Nat
  BY Running, TestsKeep
<1>4. k = 0 /\ m = 0 /\ WritesOf(Layout) \in Nat
  BY <1>2, <1>3 DEF Progress, WritesOf
<1>5. \A i \in 1..Len(reqs) : ~Mine(i)
  BY <1>2, <1>4 DEF Progress
<1>6. \A i \in 1..Len(reqs') : ~Mine(i)'
  <2>1. CASE UNCHANGED reqs
    BY <1>1, <1>5, <2>1 DEF Mine
  <2>2. CASE Sent
    <3>1. /\ Len(reqs') = Len(reqs) + 1 /\ Len(reqs) \in Nat
          /\ \A i \in 1..Len(reqs) : reqs'[i] = reqs[i]
          /\ reqs'[Len(reqs')].session = own
      BY <2>2, SentShape, TestsKeep
    <3> QED
      BY <1>1, <1>3, <1>5, <3>1 DEF Mine
  <2> QED
    BY <2>1, <2>2, TestsKeep
<1>7. Progress(0, 0, p)'
  <2>1. \A i \in Nat : i \notin (p + 1)..(p + 0 - 0)
    OBVIOUS
  <2>2. mem' = MemoryAfter(Layout', 0)
    BY <1>1, <1>2, <1>4 DEF Progress
  <2>3. \A i \in 1..Len(reqs') : i \in Nat
    OBVIOUS
  <2>4. ~(own' = session')
    BY <1>1
  <2> QED
    BY <1>6, <2>1, <2>2, <2>3, <2>4 DEF Progress
<1> QED
  BY <1>1, <1>4, <1>7 DEF Progressed

(* The latest test sends a request ...                                     *)
LEMMA WrittenSent ==
  ASSUME Shape, own = session, WriteTest(test), NEW k \in 0..WritesOf(Layout),
         NEW m \in 0..WritesOf(Layout), NEW p \in Nat, Progress(k, m, p),
         pc = "run", pc' = "wait", Sent, UNCHANGED <<tests, own, mem, prog>>
  PROVE  Progressed'
<1>1. session' = session /\ Layout' = Layout /\ Cmd' = Cmd /\ Layout = test.layout
  BY DEF session, Layout, Cmd, test
<1>2. test \in TestRecords /\ prog # <<>> /\ ProgFits(test, prog) /\ Cmd = prog[1].cmd
      /\ Head(prog) = prog[1] /\ WritesOf(Layout) \in Nat
  BY Running, NextStep DEF ProgFits, WritesOf
<1>9. PICK r \in Int : r = FirstWrite(Layout, prog)
  BY <1>1, <1>2, WriteTestSteps
<1>10. PICK n \in Nat : n = Len(reqs)
  BY SentShape
<1>3. /\ \/ Cmd = "READ" /\ r <= 0
         \/ Cmd = "WRITE" /\ r \in 1..WritesOf(Layout) /\ prog[1] = NthWrite(Layout, r)
         \/ Cmd = "DEACTIVATE"
      /\ r \in Int
  BY <1>1, <1>2, <1>9, WriteTestSteps
<1>4. /\ Len(reqs') = n + 1
      /\ \A i \in 1..n : reqs'[i] = reqs[i]
      /\ reqs'[n + 1] = [cmd |-> Cmd, block |-> Head(prog).block,
                         to |-> Head(prog).to, session |-> own]
  BY <1>10, SentShape
<1>5. (\A i \in 1..n : Mine(i)' <=> Mine(i)) /\ (Mine(n + 1)' <=> Cmd = "WRITE")
  BY <1>1, <1>4 DEF Mine
<1>6. /\ k <= m /\ mem = MemoryAfter(Layout, k)
      /\ m > k => p + m - k <= n
      /\ \A i \in 1..n :
           /\ Mine(i) <=> i \in (p + 1)..(p + m - k)
           /\ Mine(i) => /\ reqs[i].block = NthWrite(Layout, k + i - p).block
                         /\ reqs[i].to = NthWrite(Layout, k + i - p).to
      /\ Cmd = "READ" => m = 0
      /\ Cmd = "WRITE" => m = r - 1 /\ (m > k => p + m - k = n)
  BY <1>9, <1>10 DEF Progress
<1>7. CASE Cmd # "WRITE"
  <2>1. PICK q \in Nat : (m = k => q = n + 1) /\ (m # k => q = p)
    OBVIOUS
  <2>2. ASSUME NEW i \in 1..Len(reqs')
        PROVE  /\ Mine(i)' <=> i \in (q + 1)..(q + m - k)
               /\ Mine(i)' => /\ reqs'[i].block = NthWrite(Layout, k + i - q).block
                              /\ reqs'[i].to = NthWrite(Layout, k + i - q).to
    <3>1. CASE i = n + 1
      BY <1>2, <1>4, <1>5, <1>6, <1>7, <2>1, <3>1
    <3>2. CASE i \in 1..n /\ m = k
      BY <1>2, <1>4, <1>5, <1>6, <2>1, <3>2
    <3>3. CASE i \in 1..n /\ m # k
      BY <1>2, <1>4, <1>5, <1>6, <2>1, <3>3
    <3> QED
      BY <1>4, <3>1, <3>2, <3>3
  <2>3. m > k => q + m - k <= Len(reqs')
    BY <1>2, <1>4, <1>6, <2>1
  <2>4. Progress(k, m, q)'
    BY <1>1, <1>6, <1>7, <2>2, <2>3 DEF Progress
  <2> QED
    BY <1>1, <2>1, <2>4 DEF Progressed
<1>8. CASE Cmd = "WRITE"
  <2>5. m = r - 1 /\ r \in 1..WritesOf(Layout) /\ (m > k => p + m - k = n)
    BY <1>3, <1>6, <1>8
  <2>6. PICK q \in Nat : (m = k => q = n) /\ (m # k => q = p)
    OBVIOUS
  <2>1. q + m - k = n
    BY <1>2, <1>6, <2>5, <2>6
  <2>2. ASSUME NEW i \in 1..Len(reqs')
        PROVE  /\ Mine(i)' <=> i \in (q + 1)..(q + r - k)
               /\ Mine(i)' => /\ reqs'[i].block = NthWrite(Layout, k + i - q).block
                              /\ reqs'[i].to = NthWrite(Layout, k + i - q).to
    <3>1. CASE i = n + 1
      <4>1. i \in (q + 1)..(q + r - k) /\ k + i - q = r
        BY <1>2, <1>4, <1>6, <2>1, <2>5, <3>1
      <4>2. reqs'[i].block = NthWrite(Layout, r).block /\ reqs'[i].to = NthWrite(Layout, r).to
        BY <1>2, <1>3, <1>4, <1>8, <3>1
      <4> QED
        BY <1>5, <1>8, <3>1, <4>1, <4>2
    <3>2. CASE i \in 1..n /\ m = k
      BY <1>2, <1>4, <1>5, <1>6, <2>1, <2>5, <2>6, <3>2
    <3>3. CASE i \in 1..n /\ m # k
      BY <1>2, <1>4, <1>5, <1>6, <2>1, <2>5, <2>6, <3>3
    <3> QED
      BY <1>4, <3>1, <3>2, <3>3
  <2>3. k <= r /\ q + r - k = Len(reqs') /\ r \in 0..WritesOf(Layout)
    BY <1>2, <1>4, <1>6, <2>1, <2>5
  <2>4. Progress(k, r, q)'
    <3>2. Cmd' = "WRITE" /\ r = FirstWrite(Layout', prog') - (IF pc' = "wait" THEN 0 ELSE 1)
      BY <1>1, <1>3, <1>8, <1>9
    <3>3. k <= r /\ mem' = MemoryAfter(Layout', k)
      BY <1>1, <1>6, <2>3
    <3>4. ~(own' < session')
      BY <1>1, Running
    <3> QED
      BY <1>1, <2>2, <2>3, <3>2, <3>3, <3>4 DEF Progress
  <2> QED
    BY <1>1, <2>1, <2>3, <2>4 DEF Progressed
<1> QED
  BY <1>7, <1>8

(* ... or goes on with its next step, or releases the tag.                 *)
LEMMA WrittenGoesOn ==
  ASSUME Shape, own = session, WriteTest(test), NEW k \in 0..WritesOf(Layout),
         NEW m \in 0..WritesOf(Layout), NEW p \in Nat, Progress(k, m, p), pc # "pull",
         GoOn(Tail(prog)) \/ GoOn(Release), Cmd \in {"READ", "WRITE"} => pc = "wait",
         UNCHANGED <<tests, own, mem, reqs>>
  PROVE  Progressed'
<1>1. session' = session /\ Layout' = Layout /\ Layout = test.layout /\ session \in Nat
  BY SessionType DEF session, Layout, test, Shape
<1>2. /\ test \in TestRecords /\ prog # <<>> /\ ProgFits(test, prog) /\ Cmd = prog[1].cmd
      /\ Len(Tail(prog)) = Len(prog) - 1 /\ Len(prog) \in Nat \ {0} /\ WritesOf(Layout) \in Nat
      /\ Tail(prog) \in Seq(StepsOf(Alphabet(test)))
  BY Running, NextStep DEF WritesOf
<1>3. PICK r \in Int : r = FirstWrite(Layout, prog)
  BY <1>1, <1>2, WriteTestSteps
<1>4. /\ \/ Cmd = "READ" /\ r <= 0 /\ m = 0
         \/ Cmd = "WRITE" /\ r \in 1..WritesOf(Layout) /\ m = r /\ (m > k => p + m - k = Len(reqs))
         \/ Cmd = "DEACTIVATE" /\ Len(prog) = 1
      /\ k <= m
  <2>1. \/ Cmd = "READ" /\ r <= 0
        \/ Cmd = "WRITE" /\ r \in 1..WritesOf(Layout)
        \/ Cmd = "DEACTIVATE" /\ Len(prog) = 1
    BY <1>1, <1>2, <1>3, WriteTestSteps
  <2>2. k <= m /\ (Cmd = "READ" => m = 0)
    BY DEF Progress
  <2>3. Cmd = "WRITE" => m = FirstWrite(Layout, prog) /\ (m > k => p + m - k = Len(reqs))
    BY <1>2 DEF Progress, FirstWrite
  <2> QED
    BY <1>3, <2>1, <2>2, <2>3
<1>5. pc' # "pull" =>
        /\ Cmd' = "READ" => m = 0
        /\ Cmd' = "WRITE" => /\ m = FirstWrite(Layout', prog') - 1 /\ pc' = "run"
                             /\ m > k => p + m - k = Len(reqs)
  <2>1. CASE GoOn(Release)
    BY <2>1, ReleaseSteps, DoCmd DEF GoOn, Cmd
  <2>2. CASE GoOn(Tail(prog)) /\ Tail(prog) # <<>>
    <3>1. Cmd' = Tail(prog)[1].cmd /\ prog' = Tail(prog) /\ pc' = "run"
      BY <1>2, <2>2 DEF GoOn, Cmd
    <3>2. ProgFits(test, Tail(prog))
      BY <1>2, TailFits
    <3>3. FirstWrite(Layout, Tail(prog)) = r + 1
      BY <1>2, <1>3 DEF FirstWrite
    <3>4. \/ Cmd' = "READ" /\ r + 1 <= 0
          \/ Cmd' = "WRITE" /\ r + 1 \in 1..WritesOf(Layout)
          \/ Cmd' = "DEACTIVATE"
      BY <1>1, <1>2, <2>2, <3>1, <3>2, <3>3, WriteTestSteps
    <3>5. Len(prog) # 1
      <4>1. Len(Tail(prog)) # 0
        BY <1>2, <2>2, EmptySeq
      <4> QED
        BY <1>2, <4>1
    <3>8. FirstWrite(Layout', prog') = r + 1
      BY <1>1, <3>1, <3>3
    <3>6. CASE Cmd = "READ"
      <4>1. r <= 0 /\ m = 0 /\ ~(m > k)
        BY <1>4, <3>6
      <4>2. Cmd' = "WRITE" => r + 1 = 1 /\ m = (r + 1) - 1
        BY <3>4, <4>1
      <4>3. Cmd' = "WRITE" => m = FirstWrite(Layout', prog') - 1 /\ pc' = "run"
        BY <3>1, <3>8, <4>2
      <4> QED
        BY <4>1, <4>3
    <3>7. CASE Cmd = "WRITE"
      <4>1. r \in 1..WritesOf(Layout) /\ m = r /\ (m > k => p + m - k = Len(reqs))
        BY <1>4, <3>7
      <4>2. Cmd' # "READ" /\ m = (r + 1) - 1
        BY <1>2, <3>4, <4>1
      <4>3. m = FirstWrite(Layout', prog') - 1 /\ pc' = "run"
        BY <3>1, <3>8, <4>2
      <4> QED
        BY <4>1, <4>2, <4>3
    <3> QED
      BY <1>4, <3>5, <3>6, <3>7
  <2>3. CASE GoOn(Tail(prog)) /\ Tail(prog) = <<>>
    BY <2>3 DEF GoOn
  <2> QED
    BY <2>1, <2>2, <2>3
<1>6. (\A i \in 1..Len(reqs) : Mine(i)' <=> Mine(i)) /\ ~(own' < session')
  BY <1>1, Running DEF Mine
<1>7. Progress(k, m, p)'
  BY <1>1, <1>5, <1>6 DEF Progress
<1> QED
  BY <1>1, <1>7 DEF Progressed

LEMMA WrittenTests ==
  ASSUME Shape, Written, TestStep \/ Wait
  PROVE  Written'
<1>1. UNCHANGED <<rf, tests, mem, spoiled, session, own>> /\ Writable' = Writable /\ pc # "pull"
  BY ThreadKeeps, TestsKeep DEF DtaThread, tagVars, Writable
<1>2. CASE own = session
  <2> SUFFICES ASSUME Writable PROVE Progressed'
    BY <1>1 DEF Written
  <2>1. WriteTest(test)
    BY <1>2 DEF test, Writable
  <2>2. PICK k \in 0..WritesOf(Layout), m \in 0..WritesOf(Layout), p \in Nat : Progress(k, m, p)
    BY DEF Written, Progressed
  <2>3. CASE UNCHANGED <<pc, prog, reqs>>
    <3>1. Written'
      BY <1>1, <2>3, WrittenSame
    <3> QED
      BY <1>1, <3>1 DEF Written
  <2>4. CASE Sent /\ pc = "run" /\ pc' = "wait" /\ UNCHANGED prog
    BY <1>1, <1>2, <2>1, <2>2, <2>4, WrittenSent
  <2>5. CASE /\ UNCHANGED reqs /\ (GoOn(Tail(prog)) \/ GoOn(Release))
             /\ Cmd \in {"READ", "WRITE"} => pc = "wait"
    BY <1>1, <1>2, <2>1, <2>2, <2>5, WrittenGoesOn
  <2> QED
    BY <2>1, <2>3, <2>4, <2>5, WriteTestMoves
<1>3. CASE own # session
  BY <1>3, WrittenOlder
<1> QED
  BY <1>2, <1>3

LEMMA WrittenStep == Shape /\ Arrivals /\ Written /\ [Next]_vars => Written'
<1>1. Written /\ UNCHANGED vars => Written'
  <2> SUFFICES ASSUME Written, UNCHANGED vars PROVE Written'
    OBVIOUS
  <2> QED
    BY WrittenSame DEF vars, tagVars, dta
<1> QED
  BY <1>1, WrittenNfa, WrittenCallback, WrittenHandle, WrittenTests DEF Next, DtaThread

-----------------------------------------------------------------------------
(* The memory changes only where Written tells what it is.                 *)
LEMMA NdefWholeWritten == Written /\ rf = "active" => NdefWhole
<1> SUFFICES ASSUME Written, Writable PROVE NdefWhole
  BY DEF NdefWhole, Writable, WriteTest
<1>1. PICK k \in 0..WritesOf(Layout), m \in 0..WritesOf(Layout), p \in Nat : Progress(k, m, p)
  BY DEF Written, Progressed
<1>2. mem = MemoryAfter(Layout, k)
  BY <1>1 DEF Progress
<1> QED
  BY <1>2, MemoryWhole DEF NdefWhole, Layout

LEMMA NdefWholeStep ==
  Shape /\ Written /\ Written' /\ NdefWhole /\ [Next]_vars => NdefWhole'
<1> SUFFICES ASSUME Shape, Written, Written', NdefWhole, [Next]_vars PROVE NdefWhole'
  OBVIOUS
<1>1. CASE rf' = "active"
  <2>1. (Written /\ rf = "active" => NdefWhole)'
    BY NdefWholeWritten, PTL
  <2> QED
    BY <1>1, <2>1
<1>2. CASE rf' # "active"
  <2>1. UNCHANGED <<tests, mem>> /\ (spoiled => spoiled')
    <3>1. CASE Nfa
      <4>1. CASE Activate
        BY <1>2, <4>1 DEF Activate
      <4>2. CASE Execute
        BY <1>2, <4>2 DEF Execute
      <4>3. CASE Select
        BY <1>2, <4>3 DEF Select
      <4>4. CASE Refuse
        BY <4>4 DEF Refuse
      <4>5. CASE LinkError \/ Deactivate \/ StopDiscovery \/ Configure \/ StartDiscovery \/ RemoteLeaves
        BY <4>5 DEF LinkError, Deactivate, StopDiscovery, Configure, StartDiscovery, RemoteLeaves, tagVars
      <4> QED
        BY <3>1, <4>1, <4>2, <4>3, <4>4, <4>5 DEF Nfa, NfaStep
    <3>2. CASE Callback
      <4>1. CbFrame
        BY <3>2 DEF Callback, NotifyState, PushMw, EvtCb
      <4> QED
        BY <4>1 DEF CbFrame, tagVars
    <3>3. CASE DtaThread
      BY <3>3, ThreadKeeps DEF tagVars
    <3>4. CASE UNCHANGED vars
      BY <3>4 DEF vars, tagVars
    <3> QED
      BY <3>1, <3>2, <3>3, <3>4 DEF Next
  <2>2. session' = session
    BY <2>1 DEF session
  <2> QED
    BY <2>1, <2>2 DEF NdefWhole
<1> QED
  BY <1>1, <1>2

(* The invariant the proof is by: the shape of the state, the order of the *)
(* activations, and how far the latest write test has got.                 *)
NdefInvariant == Shape /\ Arrivals /\ Written /\ NdefWhole

LEMMA NdefInvariantAlways == Spec => []NdefInvariant
<1>1. Init => NdefInvariant
  BY ShapeInit, ArrivalsInit, WrittenInit DEF NdefInvariant, NdefWhole, Init, session
<1>2. NdefInvariant /\ [Next]_vars => NdefInvariant'
  BY ShapeStep, ArrivalsStep, WrittenStep, NdefWholeStep DEF NdefInvariant
<1> QED
  BY <1>1, <1>2, PTL DEF Spec

(* Wherever a T2T write test stops, the tag shows the old message, the new *)
(* one or none: the length says so before and after every write.           *)
THEOREM WritesWhole == Spec => []NdefWhole
BY NdefInvariantAlways, PTL DEF NdefInvariant

-----------------------------------------------------------------------------
(* The phases of a restart: what is on its way while the thread stops,     *)
(* configures and starts the discovery and no wait has given up too early. *)

At(c) == pc # "pull" /\ Cmd = c
Awaits(c) == pc = "wait" /\ Cmd = c

None(q, k) == \A i \in 1..Len(q) : q[i].kind # k
Quits(e) == e.kind = "DEACTIVATED" /\ e.detail = "IDLE"

Empty == reqs = <<>> /\ out = <<>> /\ mwq = <<>>
Asked(c) == Len(reqs) = 1 /\ reqs[1].cmd = c /\ out = <<>> /\ mwq = <<>>
Answering(k) == reqs = <<>> /\ Len(out) = 1 /\ out[1].kind = k /\ mwq = <<>>

(* No stop is on its way, nor what it reports.                             *)
NoStop ==
  /\ \A i \in 1..Len(reqs) : reqs[i].cmd # "STOP"
  /\ None(out, "STOPPED") /\ None(mwq, "STOPPED")
  /\ \A i \in 1..Len(out) : ~Quits(out[i])

(* The stop is the last request, the last report or the last in the queue. *)
StopAsked ==
  /\ reqs # <<>> /\ reqs[Len(reqs)].cmd = "STOP"
  /\ \A i \in 1..(Len(reqs) - 1) : reqs[i].cmd # "STOP"
  /\ None(out, "STOPPED") /\ None(mwq, "STOPPED")
StopReported ==
  /\ reqs = <<>> /\ rf = "off" /\ None(mwq, "STOPPED")
  /\ out # <<>> /\ out[Len(out)].kind = "STOPPED"
  /\ \A i \in 1..(Len(out) - 1) : out[i].kind # "STOPPED"
StopQueued ==
  /\ reqs = <<>> /\ rf = "off" /\ out = <<>>
  /\ mwq # <<>> /\ mwq[Len(mwq)].kind = "STOPPED"
  /\ \A i \in 1..(Len(mwq) - 1) : mwq[i].kind # "STOPPED"
StopPhase == StopAsked \/ StopReported \/ StopQueued

ConfigPhase ==
  /\ rf = "off"
  /\ \/ pc = "run" /\ Empty
     \/ pc = "wait" /\ Asked("CONFIG")
     \/ pc = "wait" /\ Answering("CONFIGURED")
     \/ pc = "wait" /\ reqs = <<>> /\ out = <<>> /\ Len(mwq) = 1 /\ mwq[1].kind = "CONFIGURED"

(* The discovery runs again: what comes belongs to a later activation.     *)
After(e, n) ==
  /\ e.session > n /\ e.kind \in {"ACTIVATED", "DATA", "DEACTIVATED"}
  /\ e.kind = "DEACTIVATED" => e.detail = "DISCOVERY"
Afresh ==
  /\ reqs = <<>> /\ rf \in {"disc", "active"} /\ (rf = "active" => own < session)
  /\ \A i \in 1..Len(out) : After(out[i], own)

StartPhase ==
  \/ pc = "run" /\ rf = "off" /\ Empty
  \/ pc = "wait" /\ rf = "off" /\ Asked("START")
  \/ pc = "wait" /\ rf = "disc" /\ Answering("STARTED")
  \/ /\ pc = "wait" /\ Afresh /\ mwq # <<>> /\ mwq[1].kind = "STARTED"
     /\ \A i \in 2..Len(mwq) : After(mwq[i], own)

StartedPhase == Afresh /\ \A i \in 1..Len(mwq) : After(mwq[i], own)

Restarting == Awaits("STOP") \/ At("CONFIG") \/ At("START") \/ At("STARTED")

Phases ==
  /\ Awaits("STOP") => StopPhase
  /\ At("CONFIG") => ConfigPhase
  /\ At("START") => StartPhase
  /\ At("STARTED") => StartedPhase
  /\ ~Awaits("STOP") => NoStop
  /\ devState = "IDLE" => Restarting

InPhase == ~late => Phases

(* What the stack does, for a phase.                                       *)
LEMMA NfaReported ==
  ASSUME Shape, Nfa
  PROVE  /\ out = <<>> /\ UNCHANGED <<mwq, devState, pc, prog, own, late>>
         /\ \/ /\ reqs' = reqs /\ rf = "disc" /\ rf' = "active" /\ session' = session + 1
               /\ Len(out') \in 1..2
               /\ \A i \in 1..Len(out') : out'[i].session = session' /\ out'[i].kind \in {"ACTIVATED", "DATA"}
            \/ /\ reqs' = reqs /\ rf = "active" /\ rf' = "disc" /\ session' = session
               /\ Len(out') = 1 /\ out'[1].session = session
               /\ out'[1].kind = "DEACTIVATED" /\ out'[1].detail = "DISCOVERY"
            \/ /\ reqs # <<>> /\ reqs' = Tail(reqs) /\ Head(reqs).cmd \notin {"STOP", "CONFIG", "START"}
               /\ \A i \in 1..Len(out') : out'[i].kind # "STOPPED" /\ ~Quits(out'[i])
            \/ /\ reqs # <<>> /\ reqs' = Tail(reqs) /\ Head(reqs).cmd = "STOP" /\ rf' = "off"
               /\ Len(out') \in 1..2 /\ out'[Len(out')].kind = "STOPPED"
               /\ \A i \in 1..(Len(out') - 1) : out'[i].kind # "STOPPED"
            \/ /\ reqs # <<>> /\ reqs' = Tail(reqs) /\ Head(reqs).cmd = "CONFIG" /\ rf' = rf
               /\ Len(out') = 1 /\ out'[1].kind = "CONFIGURED"
            \/ /\ reqs # <<>> /\ reqs' = Tail(reqs) /\ Head(reqs).cmd = "START"
               /\ rf' = (IF rf = "off" THEN "disc" ELSE rf)
               /\ Len(out') = 1 /\ out'[1].kind = "STARTED"
<1>1. out = <<>> /\ UNCHANGED <<mwq, devState, pc, prog, own, late>>
  <2>1. out = <<>> /\ QueuesFrame
    BY DEF Nfa, NfaStep, Activate, RemoteLeaves, Execute, Refuse, LinkError, Deactivate, Select,
           StopDiscovery, Configure, StartDiscovery, Requested, Request, NfaIdle
  <2> QED
    BY <2>1 DEF QueuesFrame, mwif, dta
<1>2. CASE Activate
  <2>1. PICK t \in Tests :
          /\ tests' = Append(tests, t)
          /\ \/ Report(<<Activation>>)
             \/ Report(<<Activation, [Activation EXCEPT !.kind = "DATA"]>>)
    BY <1>2 DEF Activate
  <2>2. reqs' = reqs /\ rf = "disc" /\ rf' = "active" /\ session < MaxSessions
    BY <1>2 DEF Activate
  <2>3. session' = session + 1
    BY <2>1, <2>2, Activated DEF Shape
  <2>4. Activation.kind = "ACTIVATED" /\ Activation.session = session + 1
        /\ [Activation EXCEPT !.kind = "DATA"].kind = "DATA"
        /\ [Activation EXCEPT !.kind = "DATA"].session = session + 1
    BY DEF Activation
  <2>5. /\ Len(out') \in 1..2
        /\ \A i \in 1..Len(out') : out'[i].session = session + 1 /\ out'[i].kind \in {"ACTIVATED", "DATA"}
    <3> DEFINE e == Activation
               f == [Activation EXCEPT !.kind = "DATA"]
    <3>1. out' = <<e>> \/ out' = <<e, f>>
      BY <2>1 DEF Report
    <3>2. e.session = session + 1 /\ e.kind = "ACTIVATED" /\ f.session = session + 1 /\ f.kind = "DATA"
      BY <2>4
    <3> HIDE DEF e, f
    <3> QED
      BY <3>1, <3>2
  <2> QED
    BY <1>1, <2>2, <2>3, <2>5
<1>3. CASE RemoteLeaves
  <2>1. reqs' = reqs /\ rf = "active" /\ rf' = "disc" /\ UNCHANGED tests
        /\ out' = <<Event("DEACTIVATED", "DISCOVERY")>>
    BY <1>3 DEF RemoteLeaves, Report
  <2>2. session' = session
    BY <2>1 DEF session
  <2>3. Len(out') = 1 /\ out'[1].session = session /\ out'[1].kind = "DEACTIVATED"
        /\ out'[1].detail = "DISCOVERY"
    BY <2>1 DEF Event
  <2> QED
    BY <1>1, <2>1, <2>2, <2>3
<1>4. CASE Execute \/ Refuse
  <2>1. /\ reqs # <<>> /\ reqs' = Tail(reqs) /\ Head(reqs).cmd \in TagCommands
    BY <1>4, RequestShape DEF Execute, Refuse
  <2>2. CASE out' = <<>>
    BY <1>1, <2>1, <2>2 DEF TagCommands, Transceives
  <2>3. CASE out' # <<>>
    <3>1. PICK s \in {"ok", "refused"} : out' = Answer(s) /\ Head(reqs).cmd # "RAW"
      BY <1>4, <2>3 DEF Execute, Refuse, Report
    <3>2. Answers[Head(reqs).cmd] \notin {"STOPPED", "DEACTIVATED"}
      BY <2>1, <3>1, AnswerKind
    <3>3. CASE out' = <<Event(Answers[Head(reqs).cmd], s)>>
      BY <1>1, <2>1, <3>2, <3>3 DEF Event, Quits, TagCommands, Transceives
    <3>4. CASE out' = <<Event("DATA", "ok"), Event("READ_CPLT", "ok")>>
      BY <1>1, <2>1, <3>4 DEF Event, Quits, TagCommands, Transceives
    <3> QED
      BY <3>1, <3>3, <3>4 DEF Answer
  <2> QED
    BY <2>2, <2>3
<1>5. CASE LinkError
  <2>1. /\ reqs # <<>> /\ reqs' = Tail(reqs) /\ Head(reqs).cmd \in TagCommands
        /\ out' = <<Event("INTF_ERROR", "refused"), Event("DEACTIVATED", "DISCOVERY")>>
    BY <1>5, RequestShape DEF LinkError, Report
  <2> QED
    BY <1>1, <2>1 DEF Event, Quits, TagCommands, Transceives
<1>6. CASE Deactivate
  <2>1. /\ reqs # <<>> /\ reqs' = Tail(reqs) /\ Head(reqs).cmd \in {"DEACTIVATE", "SLEEP"}
    BY <1>6, RequestShape DEF Deactivate
  <2>2. \/ \E d \in {"SLEEP", "DISCOVERY"} : out' = <<Event("DEACTIVATED", d)>>
        \/ out' = <<Event("DEACTIVATE_FAIL", "refused")>>
    BY <1>6 DEF Deactivate, Report
  <2> QED
    BY <1>1, <2>1, <2>2 DEF Event, Quits
<1>7. CASE Select
  <2>1. /\ reqs # <<>> /\ reqs' = Tail(reqs) /\ Head(reqs).cmd = "SELECT"
    BY <1>7, RequestShape DEF Select
  <2>2. \/ out' = <<Event("SELECT_RESULT", "ok"), Activation>>
        \/ out' = <<Event("SELECT_RESULT", "refused")>>
    BY <1>7 DEF Select, Report
  <2> QED
    BY <1>1, <2>1, <2>2 DEF Event, Quits, Activation
<1>8. CASE StopDiscovery
  <2>1. /\ reqs # <<>> /\ reqs' = Tail(reqs) /\ Head(reqs).cmd = "STOP" /\ rf' = "off"
    BY <1>8, RequestShape DEF StopDiscovery
  <2>2. <<Event("DEACTIVATED", "IDLE")>> \o <<Event("STOPPED", "ok")>>
          = <<Event("DEACTIVATED", "IDLE"), Event("STOPPED", "ok")>>
    BY Two
  <2>3. <<>> \o <<Event("STOPPED", "ok")>> = <<Event("STOPPED", "ok")>>
    OBVIOUS
  <2>4. \/ out' = <<Event("DEACTIVATED", "IDLE"), Event("STOPPED", "ok")>>
        \/ out' = <<Event("STOPPED", "ok")>>
    BY <1>8, <2>2, <2>3 DEF StopDiscovery, Report
  <2>5. /\ Len(out') \in 1..2 /\ out'[Len(out')].kind = "STOPPED"
        /\ \A i \in 1..(Len(out') - 1) : out'[i].kind # "STOPPED"
    <3>1. CASE out' = <<Event("DEACTIVATED", "IDLE"), Event("STOPPED", "ok")>>
      <4>1. Len(out') = 2 /\ out'[1].kind # "STOPPED" /\ out'[2].kind = "STOPPED"
        BY <3>1 DEF Event
      <4> QED
        BY <4>1
    <3>2. CASE out' = <<Event("STOPPED", "ok")>>
      <4>1. Len(out') = 1 /\ out'[1].kind = "STOPPED"
        BY <3>2 DEF Event
      <4> QED
        BY <4>1
    <3> QED
      BY <2>4, <3>1, <3>2
  <2> QED
    BY <1>1, <2>1, <2>5
<1>9. CASE Configure
  <2>1. /\ reqs # <<>> /\ reqs' = Tail(reqs) /\ Head(reqs).cmd = "CONFIG" /\ rf' = rf
        /\ out' = <<Event("CONFIGURED", "ok")>>
    BY <1>9, RequestShape DEF Configure, Report, tagVars
  <2> QED
    BY <1>1, <2>1 DEF Event
<1>10. CASE StartDiscovery
  <2>1. /\ reqs # <<>> /\ reqs' = Tail(reqs) /\ Head(reqs).cmd = "START"
        /\ rf' = (IF rf = "off" THEN "disc" ELSE rf) /\ out' = <<Event("STARTED", "ok")>>
    BY <1>10, RequestShape DEF StartDiscovery, Report
  <2> QED
    BY <1>1, <2>1 DEF Event
<1> QED
  BY <1>2, <1>3, <1>4, <1>5, <1>6, <1>7, <1>8, <1>9, <1>10 DEF Nfa, NfaStep

LEMMA TailRequests ==
  ASSUME Shape, reqs # <<>>, reqs' = Tail(reqs)
  PROVE  /\ Len(reqs) \in Nat \ {0} /\ Len(reqs') = Len(reqs) - 1 /\ Head(reqs) = reqs[1]
         /\ \A i \in 1..Len(reqs') : i + 1 \in 1..Len(reqs) /\ reqs'[i] = reqs[i + 1]
         /\ Len(reqs) = 1 => reqs' = <<>>
<1>1. reqs \in Seq(Sendable)
  BY DEF Shape, QueueShape
<1>2. /\ reqs' \in Seq(Sendable) /\ Len(reqs) \in Nat \ {0} /\ Len(reqs') = Len(reqs) - 1
      /\ Head(reqs) = reqs[1]
      /\ \A i \in 1..Len(reqs') : i + 1 \in 1..Len(reqs) /\ reqs'[i] = reqs[i + 1]
  BY <1>1, TailOf
<1> QED
  BY <1>2, EmptySeq

LEMMA NfaPhases ==
  ASSUME Shape, Phases, Nfa
  PROVE  Phases'
<1>1. out = <<>> /\ UNCHANGED <<mwq, devState, pc, prog, own, late>>
  BY NfaReported
<1>2. \A c : (At(c)' <=> At(c)) /\ (Awaits(c)' <=> Awaits(c))
  BY <1>1 DEF At, Awaits, Cmd
<1>3. Len(reqs) \in Nat /\ own \in 0..session /\ session \in Nat /\ reqs \in Seq(Sendable)
  BY SessionType DEF Shape, QueueShape, ThreadShape
<1>4. /\ Len(reqs) = 1 => reqs # <<>>
      /\ Len(out) # 1 /\ Len(<<>>) = 0
  BY <1>1, <1>3
<1>5. ASSUME Awaits("STOP") PROVE StopPhase'
  <2>1. StopAsked \/ StopQueued
    BY <1>1, <1>5 DEF Phases, StopPhase, StopReported
  <2>2. CASE StopQueued
    BY <2>2, NfaReported DEF StopQueued
  <2>3. CASE StopAsked
    <3>1. CASE Head(reqs).cmd = "STOP" /\ reqs' = Tail(reqs)
      <4>1. reqs # <<>>
        BY <2>3 DEF StopAsked
      <4>2. Len(reqs) = 1
        BY <2>3, <3>1, <4>1, TailRequests DEF StopAsked
      <4>3. reqs' = <<>>
        BY <3>1, <4>1, <4>2, TailRequests
      <4>4. /\ rf' = "off" /\ Len(out') \in 1..2 /\ out'[Len(out')].kind = "STOPPED"
            /\ \A i \in 1..(Len(out') - 1) : out'[i].kind # "STOPPED"
        <5>1. reqs' # reqs
          BY <4>1, <4>3
        <5> QED
          BY <3>1, <5>1, NfaReported
      <4>5. out' # <<>>
        BY <1>4, <4>4
      <4>6. None(mwq', "STOPPED")
        BY <1>1, <2>3 DEF StopAsked, None
      <4> QED
        BY <4>3, <4>4, <4>5, <4>6 DEF StopPhase, StopReported, None
    <3>2. CASE ~(Head(reqs).cmd = "STOP" /\ reqs' = Tail(reqs))
      <4>1. None(out', "STOPPED")
        BY <3>2, NfaReported DEF None
      <4>2. CASE reqs' = reqs
        BY <1>1, <2>3, <4>1, <4>2 DEF StopPhase, StopAsked, None
      <4>3. CASE reqs' = Tail(reqs)
        <5>1. reqs # <<>>
          BY <2>3 DEF StopAsked
        <5>2. Len(reqs) # 1
          BY <2>3, <3>2, <4>3, <5>1, TailRequests DEF StopAsked
        <5>3. /\ Len(reqs') \in Nat \ {0} /\ reqs'[Len(reqs')].cmd = "STOP"
              /\ \A i \in 1..(Len(reqs') - 1) : reqs'[i].cmd # "STOP"
          BY <2>3, <4>3, <5>1, <5>2, TailRequests DEF StopAsked
        <5>4. reqs' # <<>>
          BY <5>3
        <5> QED
          BY <1>1, <2>3, <4>1, <5>3, <5>4 DEF StopPhase, StopAsked, None
      <4> QED
        BY <4>2, <4>3, NfaReported
    <3> QED
      BY <3>1, <3>2
  <2> QED
    BY <2>1, <2>2, <2>3
<1>6. ASSUME At("CONFIG") PROVE ConfigPhase'
  <2>1. rf = "off" /\ mwq' = mwq /\ pc' = pc
    BY <1>1, <1>6 DEF Phases, ConfigPhase
  <2>2. reqs # <<>> /\ pc = "wait" /\ Asked("CONFIG")
    BY <1>1, <1>4, <1>6, <2>1, NfaReported DEF Phases, ConfigPhase, Asked, Empty, Answering
  <2>3. reqs[1].cmd = "CONFIG" /\ Len(reqs) = 1 /\ mwq = <<>>
    BY <2>2 DEF Asked
  <2>4. reqs' = Tail(reqs)
    BY <2>1, NfaReported
  <2>5. Head(reqs).cmd = "CONFIG" /\ reqs' = <<>>
    BY <2>2, <2>3, <2>4, TailRequests
  <2>6. rf' = rf /\ Len(out') = 1 /\ out'[1].kind = "CONFIGURED"
    BY <2>1, <2>5, NfaReported
  <2> QED
    BY <2>1, <2>2, <2>3, <2>5, <2>6 DEF ConfigPhase, Answering
<1>7. ASSUME At("START") PROVE StartPhase'
  <2>1. mwq' = mwq /\ pc' = pc /\ StartPhase
    BY <1>1, <1>7 DEF Phases
  <2>2. CASE Afresh /\ pc = "wait" /\ mwq # <<>> /\ mwq[1].kind = "STARTED"
                    /\ \A i \in 2..Len(mwq) : After(mwq[i], own)
    <3>1. reqs' = reqs /\ reqs = <<>>
      BY <2>2, NfaReported DEF Afresh
    <3>2. /\ rf' \in {"disc", "active"} /\ (rf' = "active" => own' < session')
          /\ \A i \in 1..Len(out') : After(out'[i], own')
      BY <1>1, <1>3, <2>2, <3>1, NfaReported DEF Afresh, After
    <3>3. \A i \in 2..Len(mwq) : After(mwq[i], own')
      BY <1>1, <2>2 DEF After
    <3> QED
      BY <2>1, <2>2, <3>1, <3>2, <3>3 DEF StartPhase, Afresh, After
  <2>3. CASE pc = "run" /\ rf = "off" /\ Empty
    BY <1>4, <2>3, NfaReported DEF Empty
  <2>4. CASE pc = "wait" /\ rf = "disc" /\ Answering("STARTED")
    BY <1>1, <1>4, <2>4 DEF Answering
  <2>5. CASE pc = "wait" /\ rf = "off" /\ Asked("START")
    <3>1. reqs[1].cmd = "START" /\ Len(reqs) = 1 /\ mwq = <<>> /\ reqs # <<>>
      BY <1>4, <2>5 DEF Asked
    <3>2. reqs' = Tail(reqs)
      BY <2>5, NfaReported
    <3>3. Head(reqs).cmd = "START" /\ reqs' = <<>>
      BY <3>1, <3>2, TailRequests
    <3>4. rf' = "disc" /\ Len(out') = 1 /\ out'[1].kind = "STARTED"
      BY <2>5, <3>3, NfaReported
    <3> QED
      BY <2>1, <2>5, <3>1, <3>3, <3>4 DEF StartPhase, Answering
  <2> QED
    BY <2>1, <2>2, <2>3, <2>4, <2>5 DEF StartPhase
<1>8. ASSUME At("STARTED") PROVE StartedPhase'
  <2>1. StartedPhase
    BY <1>8 DEF Phases
  <2>2. reqs' = reqs /\ reqs = <<>>
    BY <2>1, NfaReported DEF StartedPhase, Afresh
  <2>3. /\ rf' \in {"disc", "active"} /\ (rf' = "active" => own' < session')
        /\ \A i \in 1..Len(out') : After(out'[i], own')
    BY <1>1, <1>3, <2>1, <2>2, NfaReported DEF StartedPhase, Afresh, After
  <2>4. \A i \in 1..Len(mwq) : After(mwq[i], own')
    BY <1>1, <2>1 DEF After, StartedPhase
  <2> QED
    BY <1>1, <2>2, <2>3, <2>4 DEF StartedPhase, Afresh, After
<1>9. ASSUME ~Awaits("STOP") PROVE NoStop'
  <2>1. \A i \in 1..Len(reqs) : reqs[i].cmd # "STOP"
    BY <1>9 DEF Phases, NoStop
  <2>2. None(mwq, "STOPPED")
    BY <1>9 DEF Phases, NoStop
  <2>3. reqs # <<>> /\ reqs' = Tail(reqs) => Head(reqs).cmd # "STOP"
    BY <2>1, TailRequests
  <2>4. \A i \in 1..Len(out') : out'[i].kind # "STOPPED" /\ ~Quits(out'[i])
    BY <2>3, NfaReported DEF Quits
  <2>5. \A i \in 1..Len(reqs') : reqs'[i].cmd # "STOP"
    <3>1. CASE reqs' = reqs
      BY <2>1, <3>1
    <3>2. CASE reqs # <<>> /\ reqs' = Tail(reqs)
      BY <2>1, <3>2, TailRequests
    <3> QED
      BY <3>1, <3>2, NfaReported
  <2> QED
    BY <1>1, <2>2, <2>4, <2>5 DEF NoStop, None, Quits
<1> QED
  BY <1>1, <1>2, <1>5, <1>6, <1>7, <1>8, <1>9 DEF Phases, Restarting

(* What the callback does, for a phase.                                    *)
LEMMA CallbackMoves ==
  ASSUME Shape, Arrivals, Callback
  PROVE  /\ UNCHANGED <<rf, tests, session, reqs, pc, prog, own, late>>
         /\ out # <<>> /\ Len(out) \in Nat \ {0} /\ out[1] = Head(out)
         /\ \/ /\ stage = "new" /\ UNCHANGED <<out, mwq, dtaq>>
               /\ devState' = DeviceState(out[1])
               /\ stage' = (IF out[1].kind = "ACTIVATED" THEN "dtaq" ELSE "mwq")
            \/ /\ stage = "mwq" /\ mwq' = Append(mwq, out[1]) /\ UNCHANGED <<devState, dtaq>>
               /\ IF out[1].kind = "DEACTIVATED"
                    THEN out' = out /\ stage' = "dtaq"
                    ELSE out' = Tail(out) /\ stage' \in {"idle", "new"} /\ out[1].kind # "ACTIVATED"
            \/ /\ stage = "dtaq" /\ UNCHANGED <<mwq, devState>> /\ out' = Tail(out)
               /\ dtaq' = Append(dtaq, out[1]) /\ stage' \in {"idle", "new"}
               /\ out[1].kind \in {"ACTIVATED", "DEACTIVATED"}
<1>1. UNCHANGED <<rf, tests, session, reqs, pc, prog, own, late>>
  BY DEF Callback, NotifyState, PushMw, EvtCb, CbFrame, tagVars, dta, session
<1>2. out # <<>> /\ Len(out) \in Nat \ {0} /\ out[1] = Head(out)
  BY TailOf DEF Callback, NotifyState, PushMw, EvtCb, Shape, CallbackShape
<1>3. CASE NotifyState
  BY <1>1, <1>2, <1>3 DEF NotifyState
<1>4. CASE PushMw
  BY <1>1, <1>2, <1>4 DEF PushMw, Reported, Arrivals, Latest, mwif
<1>5. CASE EvtCb
  BY <1>1, <1>2, <1>5 DEF EvtCb, Reported, Arrivals, Latest, mwif
<1> QED
  BY <1>3, <1>4, <1>5 DEF Callback

LEMMA CallbackQueues ==
  ASSUME Shape, Arrivals, Callback
  PROVE  /\ out' = out \/ (/\ Len(out') = Len(out) - 1
                           /\ \A i \in 1..Len(out') : i + 1 \in 1..Len(out) /\ out'[i] = out[i + 1]
                           /\ Len(out) = 1 => out' = <<>>)
         /\ mwq' = mwq \/ (/\ mwq' # <<>> /\ Len(mwq) \in Nat /\ Len(mwq') = Len(mwq) + 1
                           /\ \A i \in 1..Len(mwq) : mwq'[i] = mwq[i]
                           /\ mwq'[Len(mwq) + 1] = out[1])
<1>1. out \in Seq(Past) /\ mwq \in Seq(Past) /\ out # <<>> /\ out[1] \in Past
  BY CallbackMoves, TailOf DEF Shape, CallbackShape, QueueShape
<1>2. ASSUME out' = Tail(out)
      PROVE  /\ Len(out') = Len(out) - 1
             /\ \A i \in 1..Len(out') : i + 1 \in 1..Len(out) /\ out'[i] = out[i + 1]
             /\ Len(out) = 1 => out' = <<>>
  <2>1. /\ out' \in Seq(Past) /\ Len(out') = Len(out) - 1
        /\ \A i \in 1..Len(out') : i + 1 \in 1..Len(out) /\ out'[i] = out[i + 1]
    BY <1>1, <1>2, TailOf
  <2>2. Len(out) = 1 => out' = <<>>
    BY <2>1, EmptySeq
  <2> QED
    BY <2>1, <2>2
<1>3. ASSUME mwq' = Append(mwq, out[1])
      PROVE  /\ mwq' # <<>> /\ Len(mwq) \in Nat /\ Len(mwq') = Len(mwq) + 1
             /\ \A i \in 1..Len(mwq) : mwq'[i] = mwq[i]
             /\ mwq'[Len(mwq) + 1] = out[1]
  <2>1. /\ mwq' \in Seq(Past) /\ Len(mwq) \in Nat /\ Len(mwq') = Len(mwq) + 1
        /\ \A i \in 1..Len(mwq) : mwq'[i] = mwq[i]
        /\ mwq'[Len(mwq) + 1] = out[1]
    BY <1>1, <1>3, AppendOf
  <2>2. mwq' # <<>>
    <3>1. Len(<<>>) = 0
      OBVIOUS
    <3> QED
      BY <2>1, <3>1
  <2> QED
    BY <2>1, <2>2
<1> QED
  BY <1>2, <1>3, CallbackMoves

LEMMA CallbackPhases ==
  ASSUME Shape, Arrivals, Phases, Callback
  PROVE  Phases'
<1>1. /\ UNCHANGED <<rf, session, reqs, pc, prog, own, late>>
      /\ out # <<>> /\ Len(out) \in Nat \ {0}
  BY CallbackMoves
<1>2. \A c : (At(c)' <=> At(c)) /\ (Awaits(c)' <=> Awaits(c))
  BY <1>1 DEF At, Awaits, Cmd
<1>3. Len(mwq) \in Nat /\ Len(<<>>) = 0
  BY DEF Shape, QueueShape
<1>5. ASSUME Awaits("STOP") PROVE StopPhase'
  <2>1. CASE StopAsked
    <3>1. out[1].kind # "STOPPED"
      BY <1>1, <2>1 DEF StopAsked, None
    <3>2. None(out', "STOPPED")
      BY <2>1, CallbackQueues DEF StopAsked, None
    <3>3. None(mwq', "STOPPED")
      BY <1>3, <2>1, <3>1, CallbackQueues DEF StopAsked, None
    <3> QED
      BY <1>1, <2>1, <3>2, <3>3 DEF StopAsked, StopPhase, None
  <2>2. CASE StopReported
    <3>1. CASE out[1].kind = "STOPPED"
      <4>1. Len(out) = 1
        <5>1. \A i \in 1..(Len(out) - 1) : out[i].kind # "STOPPED"
          BY <2>2 DEF StopReported
        <5>2. 1 \notin 1..(Len(out) - 1)
          BY <3>1, <5>1
        <5>3. \A n \in Nat \ {0} : 1 \notin 1..(n - 1) => n = 1
          OBVIOUS
        <5> QED
          BY <1>1, <5>2, <5>3, Zenon
      <4>2. CASE out' = out /\ mwq' = mwq
        BY <1>1, <2>2, <4>2 DEF StopReported, StopPhase, None
      <4>3. CASE out' # out \/ mwq' # mwq
        <5>1. mwq' = Append(mwq, out[1]) /\ out' = Tail(out)
          BY <3>1, <4>3, CallbackMoves
        <5>2. mwq' # mwq /\ out' # out
          <6>1. mwq \in Seq(Past) /\ out \in Seq(Past) /\ out[1] \in Past
            BY <1>1, TailOf, CallbackMoves DEF Shape, CallbackShape, QueueShape
          <6>2. Len(mwq') = Len(mwq) + 1 /\ Len(out') = Len(out) - 1
            BY <1>1, <5>1, <6>1, AppendOf, TailOf
          <6> QED
            BY <1>1, <1>3, <6>2
        <5>3. /\ out' = <<>> /\ mwq' # <<>> /\ Len(mwq') = Len(mwq) + 1 /\ mwq'[Len(mwq')].kind = "STOPPED"
              /\ \A i \in 1..Len(mwq) : mwq'[i] = mwq[i]
          BY <3>1, <4>1, <5>2, CallbackQueues
        <5>4. \A i \in 1..(Len(mwq') - 1) : mwq'[i].kind # "STOPPED"
          BY <1>3, <2>2, <5>3 DEF StopReported, None
        <5> QED
          BY <1>1, <2>2, <5>3, <5>4 DEF StopReported, StopQueued, StopPhase
      <4> QED
        BY <4>2, <4>3
    <3>2. CASE out[1].kind # "STOPPED"
      <4>1. Len(out) # 1
        BY <2>2, <3>2 DEF StopReported
      <4>2. /\ out' # <<>> /\ out'[Len(out')].kind = "STOPPED"
            /\ \A i \in 1..(Len(out') - 1) : out'[i].kind # "STOPPED"
        <5>1. CASE out' = out
          BY <2>2, <5>1 DEF StopReported
        <5>2. CASE out' # out
          <6>1. /\ Len(out') = Len(out) - 1 /\ Len(out') \in Nat \ {0}
                /\ \A i \in 1..Len(out') : i + 1 \in 1..Len(out) /\ out'[i] = out[i + 1]
            BY <1>1, <4>1, <5>2, CallbackQueues
          <6>2. out' # <<>>
            BY <1>3, <6>1
          <6>3. out'[Len(out')] = out[Len(out)]
            BY <1>1, <6>1
          <6>4. \A i \in 1..(Len(out') - 1) : i + 1 \in 1..(Len(out) - 1) /\ out'[i] = out[i + 1]
            BY <1>1, <6>1
          <6> QED
            BY <2>2, <6>2, <6>3, <6>4 DEF StopReported
        <5> QED
          BY <5>1, <5>2
      <4>3. None(mwq', "STOPPED")
        BY <1>3, <2>2, <3>2, CallbackQueues DEF StopReported, None
      <4> QED
        BY <1>1, <2>2, <4>2, <4>3 DEF StopReported, StopPhase, None
    <3> QED
      BY <3>1, <3>2
  <2> QED
    BY <1>1, <1>5, <2>1, <2>2 DEF Phases, StopPhase, StopQueued
<1>6. ASSUME At("CONFIG") PROVE ConfigPhase'
  <2>1. rf = "off" /\ pc = "wait" /\ reqs = <<>> /\ Len(out) = 1 /\ out[1].kind = "CONFIGURED" /\ mwq = <<>>
    BY <1>1, <1>6 DEF Phases, ConfigPhase, Empty, Asked, Answering
  <2>2. CASE out' = out /\ mwq' = mwq
    BY <1>1, <2>1, <2>2 DEF ConfigPhase, Answering
  <2>3. CASE mwq' = Append(mwq, out[1]) /\ out' = Tail(out)
    <3>1. mwq' = <<out[1]>>
      BY <2>1, <2>3
    <3>2. Len(mwq') = 1 /\ mwq'[1].kind = "CONFIGURED"
      BY <2>1, <3>1
    <3>3. out' # out
      <4>1. out \in Seq(Past)
        BY DEF Shape, CallbackShape
      <4> QED
        BY <1>1, <2>3, <4>1, TailOf
    <3>4. out' = <<>>
      BY <2>1, <3>3, CallbackQueues
    <3> QED
      BY <1>1, <2>1, <3>2, <3>4 DEF ConfigPhase
  <2> QED
    BY <2>1, <2>2, <2>3, CallbackMoves
<1>8. ASSUME Afresh PROVE Afresh' /\ After(out[1], own)
  <2>1. \A i \in 1..Len(out) : After(out[i], own)
    BY <1>8 DEF Afresh
  <2>2. \A i \in 1..Len(out') : After(out'[i], own)
    BY <2>1, CallbackQueues
  <2>3. After(out[1], own)
    BY <1>1, <2>1
  <2> QED
    BY <1>1, <1>8, <2>2, <2>3 DEF Afresh, After
<1>9. ASSUME At("STARTED") PROVE StartedPhase'
  <2>1. StartedPhase
    BY <1>9 DEF Phases
  <2>2. \A i \in 1..Len(mwq') : After(mwq'[i], own)
    BY <1>3, <1>8, <2>1, CallbackQueues DEF StartedPhase
  <2> QED
    BY <1>1, <1>8, <2>1, <2>2 DEF StartedPhase, After
<1>7. ASSUME At("START") PROVE StartPhase'
  <2>1. pc = "wait"
    BY <1>1, <1>7 DEF Phases, StartPhase, Empty
  <2>2. CASE rf = "disc" /\ Answering("STARTED")
    <3>1. reqs = <<>> /\ Len(out) = 1 /\ out[1].kind = "STARTED" /\ mwq = <<>>
      BY <2>2 DEF Answering
    <3>2. CASE out' = out /\ mwq' = mwq
      BY <1>1, <2>1, <2>2, <3>1, <3>2 DEF StartPhase, Answering
    <3>3. CASE mwq' = Append(mwq, out[1]) /\ out' = Tail(out)
      <4>1. mwq' = <<out[1]>>
        BY <3>1, <3>3
      <4>2. Len(mwq') = 1 /\ mwq'[1].kind = "STARTED" /\ mwq' # <<>>
        BY <3>1, <4>1
      <4>3. out' # out
        <5>1. out \in Seq(Past)
          BY DEF Shape, CallbackShape
        <5> QED
          BY <1>1, <3>3, <5>1, TailOf
      <4>4. out' = <<>>
        BY <3>1, <4>3, CallbackQueues
      <4>5. Afresh'
        BY <1>1, <2>2, <3>1, <4>4 DEF Afresh
      <4> QED
        BY <1>1, <2>1, <4>2, <4>5 DEF StartPhase
    <3> QED
      BY <3>1, <3>2, <3>3, CallbackMoves
  <2>3. CASE /\ Afresh /\ mwq # <<>> /\ mwq[1].kind = "STARTED"
             /\ \A i \in 2..Len(mwq) : After(mwq[i], own)
    <3>1. mwq' # <<>> /\ mwq'[1].kind = "STARTED" /\ \A i \in 2..Len(mwq') : After(mwq'[i], own)
      <4>1. CASE mwq' = mwq
        BY <2>3, <4>1
      <4>2. CASE mwq' # mwq
        <5>1. Len(mwq) \in Nat \ {0}
          BY <2>3, EmptySeq DEF Shape, QueueShape
        <5> QED
          BY <1>8, <2>3, <4>2, <5>1, CallbackQueues
      <4> QED
        BY <4>1, <4>2
    <3> QED
      BY <1>1, <1>8, <2>1, <2>3, <3>1 DEF StartPhase, After
  <2> QED
    BY <1>1, <1>7, <2>1, <2>2, <2>3 DEF Phases, StartPhase, Asked
<1>10. ASSUME ~Awaits("STOP") PROVE NoStop'
  <2>1. NoStop
    BY <1>10 DEF Phases
  <2>2. \A i \in 1..Len(out') : out'[i].kind # "STOPPED" /\ ~Quits(out'[i])
    BY <2>1, CallbackQueues DEF NoStop, None
  <2>3. None(mwq', "STOPPED")
    <3>1. out[1].kind # "STOPPED"
      BY <1>1, <2>1 DEF NoStop, None
    <3> QED
      BY <1>3, <2>1, <3>1, CallbackQueues DEF NoStop, None
  <2> QED
    BY <1>1, <2>1, <2>2, <2>3 DEF NoStop, None, Quits
<1>11. ASSUME devState' = "IDLE" PROVE Restarting
  <2>1. CASE devState = "IDLE"
    BY <2>1 DEF Phases
  <2>2. CASE devState # "IDLE"
    <3>1. devState' = DeviceState(out[1])
      BY <1>11, <2>2, CallbackMoves
    <3>2. Quits(out[1])
      BY <1>11, <2>2, <3>1 DEF DeviceState, Quits
    <3>3. ~NoStop
      BY <1>1, <3>2 DEF NoStop
    <3> QED
      BY <3>3 DEF Phases, Restarting
  <2> QED
    BY <2>1, <2>2
<1> QED
  BY <1>1, <1>2, <1>5, <1>6, <1>7, <1>9, <1>10, <1>11 DEF Phases, Restarting

LEMMA HeadOf ==
  ASSUME NEW S, NEW q \in Seq(S), Len(q) # 0
  PROVE  q # <<>> /\ Head(q) = q[1]
OBVIOUS

(* A handler enters a restart at its stop, and goes through it in order.   *)
LEMMA DetourStarts ==
  ASSUME NEW t \in TestRecords, NEW p \in Detours(t), p # prog, p # <<>>
  PROVE  Head(p).cmd \notin {"CONFIG", "START", "STARTED"}
<1>1. Head(Restart).cmd = "STOP" /\ Head(Release).cmd = "DEACTIVATE" /\ Head(Consuming).cmd = "CONSUME"
  BY RestartSteps, ReleaseSteps, ConsumingSteps, HeadOf, DoCmd
<1>2. Head(Sleeps \o Restart).cmd = "SLEEP"
  <2> DEFINE S == StepsOf({"SLEEP", "DEACTIVATE"} \cup RestartCmds)
  <2>1. Sleeps \in Seq(S) /\ Restart \in Seq(S)
    BY SleepsSteps, RestartSteps, StepsMonotonic
  <2> HIDE DEF S
  <2>2. Sleeps \o Restart \in Seq(S)
    BY <2>1, ConcatOf
  <2> QED
    BY <2>2, SleepsRestartSteps, HeadOf, DoCmd
<1>3. Head(<<Do("XCV")>> \o Restart).cmd = "XCV"
  <2> DEFINE S == StepsOf({"XCV"} \cup RestartCmds)
             q == <<Do("XCV")>>
  <2>1. <<Do("XCV")>> \in Seq(S)
    BY OneStep, CommandSet
  <2>2. q \in Seq(S) /\ Restart \in Seq(S) /\ Len(q) = 1 /\ q[1] = Do("XCV")
    BY <2>1, RestartSteps, StepsMonotonic
  <2> HIDE DEF S, q
  <2>3. q \o Restart \in Seq(S) /\ Len(q \o Restart) = 6 /\ (q \o Restart)[1] = Do("XCV")
    <3>1. Len(Restart) = 5
      BY RestartSteps
    <3>2. /\ q \o Restart \in Seq(S) /\ Len(q \o Restart) = Len(q) + Len(Restart)
          /\ \A i \in 1..Len(q) : (q \o Restart)[i] = q[i]
      BY <2>2, ConcatOf
    <3> QED
      BY <2>2, <3>1, <3>2
  <2>4. Head(q \o Restart).cmd = "XCV"
    BY <2>3, HeadOf, DoCmd
  <2> QED
    BY <2>4 DEF q
<1>4. Ending(t) \in {Restart, Release, Consuming}
  BY EndingCases
<1> QED
  BY <1>1, <1>2, <1>3, <1>4 DEF Detours

LEMMA RestartEntered ==
  ASSUME Shape, pc # "pull", Cmd # "STARTED", NEW p, Follower(p), GoOn(p)
  PROVE  /\ At("CONFIG")' => Cmd \in {"STOP", "CONFIG"}
         /\ At("START")' => Cmd = "CONFIG"
         /\ At("STARTED")' => Cmd = "START"
         /\ pc' \in {"run", "pull"} /\ prog' = p
         /\ p = Tail(prog) /\ Cmd \in {"STOP", "CONFIG", "START"}
              => pc' = "run" /\ Cmd' \in {"CONFIG", "START", "STARTED"}
<1>1. prog' = p /\ pc' = (IF p = <<>> THEN "pull" ELSE "run")
  BY DEF GoOn
<1>2. test \in TestRecords /\ prog # <<>> /\ ProgFits(test, prog)
  BY Running
<1>3. \/ p = Tail(prog)
      \/ p = <<>>
      \/ p \in Detours(test) /\ Cmd \notin RestartCmds
  BY <1>2, Follows DEF Follower
<1>4. Cmd' = Head(p).cmd
  BY <1>1 DEF Cmd
<1>5. CASE p = <<>>
  BY <1>1, <1>2, <1>5, RestartNext DEF At
<1>6. CASE p # <<>> /\ p \in Detours(test) /\ Cmd \notin RestartCmds
  <2>1. Cmd' \notin {"CONFIG", "START", "STARTED"}
    <3>1. CASE p = prog
      BY <1>4, <1>6, <3>1 DEF Cmd, RestartCmds
    <3>2. CASE p # prog
      BY <1>2, <1>4, <1>6, <3>2, DetourStarts
    <3> QED
      BY <3>1, <3>2
  <2> QED
    BY <1>1, <1>6, <2>1 DEF At, RestartCmds
<1>7. CASE p # <<>> /\ p = Tail(prog)
  <2>1. /\ Cmd = "STOP" => Cmd' = "CONFIG"
        /\ Cmd = "CONFIG" => Cmd' \in {"CONFIG", "START"}
        /\ Cmd = "START" => Cmd' = "STARTED"
    BY <1>2, <1>4, <1>7, RestartNext
  <2>2. Cmd' \in {"CONFIG", "START", "STARTED"} => Cmd \in {"STOP", "CONFIG", "START"}
    <3> SUFFICES ASSUME Cmd' \in {"CONFIG", "START", "STARTED"} PROVE Cmd \in {"STOP", "CONFIG", "START"}
      OBVIOUS
    <3>1. /\ Cmd = prog[1].cmd /\ Len(prog) \in Nat \ {0} /\ Len(Tail(prog)) = Len(prog) - 1
          /\ \A i \in 1..Len(Tail(prog)) : Tail(prog)[i] = prog[i + 1]
          /\ Tail(prog) \in Seq(StepsOf(Alphabet(test)))
      BY <1>2, NextStep
    <3>2. Len(prog) >= 2 /\ Cmd' = prog[2].cmd
      <4>1. Len(Tail(prog)) # 0
        BY <1>7, <3>1, EmptySeq
      <4>2. Head(Tail(prog)) = Tail(prog)[1]
        BY <3>1, <4>1, HeadOf
      <4> QED
        BY <1>4, <1>7, <3>1, <4>1, <4>2
    <3>3. PICK n \in 0..5 : EndsWith(prog, n) /\ (n \in {0, 5} \/ n = Len(prog))
      BY <1>2 DEF ProgFits, Restartable
    <3>4. 2 > Len(prog) - n /\ prog[2] = Restart[2 - Len(prog) + 5]
      BY <3>1, <3>2, <3>3 DEF EndsWith, RestartCmds
    <3>5. Len(prog) = n
      <4>1. CASE n = 0
        BY <3>2, <3>4, <4>1
      <4>2. CASE n = 5
        <5>1. Len(prog) \in {5, 6}
          BY <3>1, <3>3, <3>4, <4>2 DEF EndsWith
        <5>2. Len(prog) = 6 => Cmd' = "STOP"
          BY <3>2, <3>4, RestartSteps, DoCmd
        <5> QED
          BY <4>2, <5>1, <5>2
      <4> QED
        BY <3>3, <4>1, <4>2
    <3>6. n \in 2..5 /\ prog[1] = Restart[1 - n + 5]
      BY <3>1, <3>2, <3>3, <3>5 DEF EndsWith
    <3> QED
      BY <3>1, <3>6, RestartSteps, DoCmd
  <2> QED
    BY <1>1, <1>7, <2>1, <2>2 DEF At
<1> QED
  BY <1>3, <1>5, <1>6, <1>7

LEMMA NoStopKept ==
  ASSUME Shape, NoStop, out' = out, reqs' = reqs \/ (Sent /\ pc # "pull" /\ Cmd # "STOP"),
         mwq' = mwq \/ mwq' = <<>> \/ (mwq # <<>> /\ mwq' = Tail(mwq))
  PROVE  NoStop'
<1>1. \A i \in 1..Len(mwq') : mwq'[i].kind # "STOPPED"
  <2>1. mwq \in Seq(Past)
    BY DEF Shape, QueueShape
  <2>2. CASE mwq # <<>> /\ mwq' = Tail(mwq)
    BY <2>1, <2>2, TailOf DEF NoStop, None
  <2>3. CASE mwq' = mwq \/ mwq' = <<>>
    BY <2>3 DEF NoStop, None
  <2> QED
    BY <2>2, <2>3
<1>2. \A i \in 1..Len(reqs') : reqs'[i].cmd # "STOP"
  <2>1. CASE reqs' = reqs
    BY <2>1 DEF NoStop
  <2>2. CASE Sent /\ pc # "pull" /\ Cmd # "STOP"
    <3>1. /\ Len(reqs') = Len(reqs) + 1 /\ Len(reqs) \in Nat
          /\ \A i \in 1..Len(reqs) : reqs'[i] = reqs[i]
          /\ reqs'[Len(reqs')].cmd = Cmd
      BY <2>2, SentShape
    <3>2. \A i \in 1..Len(reqs') : i \in 1..Len(reqs) \/ i = Len(reqs')
      BY <3>1
    <3> QED
      BY <2>2, <3>1, <3>2 DEF NoStop
  <2> QED
    BY <2>1, <2>2
<1> QED
  BY <1>1, <1>2 DEF NoStop, None, Quits

(* A handler that is not in a restart and goes on.                         *)
LEMMA OutsidePhases ==
  ASSUME Shape, Phases, pc # "pull", Cmd \notin RestartCmds, NEW p, Follower(p), GoOn(p), NoStop',
         devState' = devState
  PROVE  Phases'
<1>1. ~At("CONFIG")' /\ ~At("START")' /\ ~At("STARTED")' /\ ~Awaits("STOP")'
  BY RestartEntered DEF RestartCmds, Awaits
<1>2. devState # "IDLE"
  BY DEF Phases, Restarting, At, Awaits, RestartCmds
<1> QED
  BY <1>1, <1>2 DEF Phases

(* A step of the thread within its handler, other than of a restart.       *)
LEMMA OutsideStepPhases ==
  ASSUME Shape, Phases, TestStep, Cmd \notin RestartCmds
  PROVE  Phases'
<1>1. pc # "pull" /\ out' = out /\ devState # "IDLE" /\ NoStop
  <2>1. pc # "pull" /\ out' = out
    BY TestsKeep, ThreadKeeps DEF DtaThread
  <2> QED
    BY <2>1 DEF Phases, Restarting, At, Awaits, RestartCmds
<1>2. ~StopIdle /\ ~EnableDiscovery
  BY DEF StopIdle, EnableDiscovery, Step, RestartCmds
<1>3. mwq' = mwq /\ devState' = devState
  BY <1>2 DEF TestStep, Disconnected, DeactivatedAlready, ConsumeDeactivated, ReceiveData, Send,
              SendRawFrame, Transceive, TransceiveSent, mwif
<1>4. NoStop'
  BY <1>1, <1>3, TestsKeep, NoStopKept DEF RestartCmds
<1>5. CASE \E p : Follower(p) /\ GoOn(p)
  BY <1>1, <1>3, <1>4, <1>5, OutsidePhases DEF RestartCmds
<1>6. CASE Cmd' \notin RestartCmds
  BY <1>1, <1>3, <1>4, <1>6 DEF Phases, At, Awaits, RestartCmds
<1>7. CASE Disconnected \/ DeactivatedAlready \/ SendRawFrame
  <2>1. \E p : Follower(p) /\ GoOn(p)
    BY <1>7 DEF Disconnected, DeactivatedAlready, SendRawFrame, Follower, OnSuccess, Step
  <2> QED
    BY <1>5, <2>1
<1>8. CASE ConsumeDeactivated \/ Send \/ Transceive
  BY <1>6, <1>8 DEF ConsumeDeactivated, Send, Transceive, Cmd
<1>9. CASE ReceiveData
  <2>1. prog' = prog \/ prog' = <<Do("CE_RECEIVE")>>
    BY <1>9 DEF ReceiveData
  <2>2. Head(<<Do("CE_RECEIVE")>>).cmd = "CE_RECEIVE"
    BY DoCmd
  <2> QED
    BY <1>6, <2>1, <2>2 DEF Cmd, RestartCmds
<1>10. CASE TransceiveSent
  <2>1. prog' = prog \/ \E p \in OnFailures(test, Cmd) : GoOn(p)
    BY <1>10 DEF TransceiveSent
  <2>2. CASE prog' = prog
    BY <1>6, <2>2 DEF Cmd
  <2>3. CASE \E p \in OnFailures(test, Cmd) : GoOn(p)
    BY <1>5, <2>3 DEF Follower
  <2> QED
    BY <2>1, <2>2, <2>3
<1> QED
  BY <1>2, <1>7, <1>8, <1>9, <1>10 DEF TestStep

LEMMA RestartStepPhases ==
  ASSUME Shape, Phases, TestStep, Cmd \in RestartCmds
  PROVE  Phases'
<1>1. pc # "pull" /\ out' = out /\ UNCHANGED <<rf, session, own>>
  BY TestsKeep, ThreadKeeps DEF DtaThread, tagVars
<1>2. prog # <<>> /\ ProgFits(test, prog) /\ test \in TestRecords /\ Cmd \notin Transceives
  BY <1>1, Running DEF RestartCmds, Transceives
<1>3. CASE EnableDiscovery
  <2>1. Cmd = "STARTED" /\ pc = "run" /\ devState' = "DISC" /\ mwq' = mwq /\ reqs' = reqs
    BY <1>3 DEF EnableDiscovery, Step
  <2>2. pc' = "pull"
    <3>1. Tail(prog) = <<>>
      BY <1>2, <2>1, RestartNext
    <3> QED
      BY <1>3, <3>1 DEF EnableDiscovery, GoOn
  <2>3. NoStop'
    BY <1>1, <2>1, NoStopKept DEF Phases, Awaits
  <2> QED
    BY <2>1, <2>2, <2>3 DEF Phases, At, Awaits
<1>4. CASE StopIdle
  BY <1>4 DEF StopIdle, Step, Phases, Restarting, At, Awaits
<1>5. CASE Send
  <2>1. pc = "run" /\ pc' = "wait" /\ Cmd' = Cmd /\ mwq' = mwq /\ devState' = devState /\ Cmd # "STARTED"
    BY <1>5 DEF Send, Cmd, mwif
  <2>2. /\ Len(reqs') = Len(reqs) + 1 /\ Len(reqs) \in Nat
        /\ \A i \in 1..Len(reqs) : reqs'[i] = reqs[i]
        /\ reqs'[Len(reqs')].cmd = Cmd /\ reqs' # <<>> /\ Len(<<>>) = 0
    <3>1. Sent
      BY <1>5 DEF Send
    <3>2. /\ Len(reqs') = Len(reqs) + 1 /\ Len(reqs) \in Nat
          /\ \A i \in 1..Len(reqs) : reqs'[i] = reqs[i]
          /\ reqs'[Len(reqs')].cmd = Cmd
      BY <1>1, <3>1, SentShape
    <3>3. Len(<<>>) = 0
      OBVIOUS
    <3> QED
      BY <3>2, <3>3
  <2>3. NoStop
    BY <2>1 DEF Phases, Awaits
  <2>4. CASE Cmd = "STOP"
    <3>1. \A i \in 1..(Len(reqs') - 1) : reqs'[i].cmd # "STOP"
      BY <2>2, <2>3 DEF NoStop
    <3>2. StopAsked'
      BY <1>1, <2>1, <2>2, <2>3, <2>4, <3>1 DEF StopAsked, NoStop, None
    <3>3. Restarting'
      BY <2>1, <2>4 DEF Restarting, Awaits
    <3> QED
      BY <2>1, <2>4, <3>2, <3>3 DEF Phases, At, Awaits, StopPhase
  <2>5. CASE Cmd \in {"CONFIG", "START"}
    <3>1. rf = "off" /\ Empty
      BY <1>1, <2>1, <2>5 DEF Phases, At, ConfigPhase, StartPhase
    <3>2. rf' = "off" /\ Asked(Cmd)'
      BY <1>1, <2>1, <2>2, <3>1 DEF Asked, Empty
    <3>3. NoStop'
      BY <1>1, <1>5, <2>1, <2>3, <2>5, NoStopKept DEF Send
    <3>4. Cmd = "CONFIG" => ConfigPhase'
      BY <2>1, <3>2 DEF ConfigPhase, Asked
    <3>5. Cmd = "START" => StartPhase'
      BY <2>1, <3>2 DEF StartPhase, Asked
    <3>6. Restarting'
      BY <2>1, <2>5 DEF Restarting, At
    <3> QED
      BY <2>1, <2>5, <3>3, <3>4, <3>5, <3>6 DEF Phases, At, Awaits
  <2> QED
    BY <2>1, <2>4, <2>5 DEF RestartCmds
<1>6. pc # "sent"
  BY <1>2 DEF Shape, ThreadShape
<1> QED
  BY <1>2, <1>3, <1>4, <1>5, <1>6
     DEF TestStep, Disconnected, DeactivatedAlready, ConsumeDeactivated, ReceiveData, SendRawFrame,
         Transceive, TransceiveSent, Step, RestartCmds

LEMMA HandlePhases ==
  ASSUME Shape, Arrivals, Phases, CbMsgHandleThrd
  PROVE  Phases'
<1>1. /\ pc = "pull" /\ UNCHANGED <<out, reqs, mwq, devState>> /\ pc' \in {"run", "pull"}
  BY DEF CbMsgHandleThrd, HandleActivated, HandleDeactivated, GoOn, DtaFrame, cbVars, mwif, dta
<1>2. NoStop /\ devState # "IDLE"
  BY <1>1 DEF Phases, Restarting, Awaits, At
<1>3. NoStop'
  BY <1>1, <1>2 DEF NoStop, None, Quits
<1>4. pc' = "run" => Cmd' \notin {"CONFIG", "START", "STARTED"}
  <2> SUFFICES ASSUME pc' = "run" PROVE Cmd' \notin {"CONFIG", "START", "STARTED"}
    OBVIOUS
  <2>1. HandleActivated
    BY <1>1 DEF CbMsgHandleThrd, HandleDeactivated, dta
  <2> DEFINE t == tests[Head(dtaq).session]
             p == Body(t) \o Ending(t)
  <2>2. t \in TestRecords
    <3>1. Head(dtaq) \in Past /\ Head(dtaq).kind = "ACTIVATED"
      BY <2>1, TailOf DEF HandleActivated, Shape, QueueShape
    <3>2. Head(dtaq).session \in 1..session
      BY <3>1, SessionType DEF Past, Events, Shape
    <3> QED
      BY <3>2, SessionType, Bounds DEF Shape
  <2>3. prog' = p /\ p # <<>>
    BY <2>1 DEF HandleActivated, GoOn
  <2>4. ProgFits(t, p)
    BY <2>2, TestStartFits
  <2>5. p \in Seq(StepsOf(Alphabet(t))) /\ Len(p) = Len(Body(t)) + Len(Ending(t)) /\ Len(Body(t)) \in Nat
        /\ Ending(t) \in Seq(StepsOf(Alphabet(t))) /\ Body(t) \in Seq(StepsOf(Alphabet(t)))
    BY <2>2, BodyEndingType, LenProperties
  <2>6. Len(Ending(t)) \in 1..5 /\ (Ending(t) = Restart \/ Ending(t)[Len(Ending(t))].cmd \notin RestartCmds)
        /\ (Ending(t) = Restart => Len(Ending(t)) = 5)
    <3>1. CASE Ending(t) = Restart
      BY <3>1, RestartSteps
    <3>2. CASE Ending(t) \in {Release, Consuming}
      <4>1. Len(Ending(t)) \in 1..2 /\ Ending(t)[Len(Ending(t))].cmd = "DEACTIVATE"
        <5>1. CASE Ending(t) = Release
          BY <5>1, ReleaseSteps, DoCmd
        <5>2. CASE Ending(t) = Consuming
          BY <5>2, ConsumingSteps, DoCmd
        <5> QED
          BY <3>2, <5>1, <5>2
      <4>2. Ending(t) # Restart
        <5>1. Len(Restart) = 5
          BY RestartSteps
        <5>2. Len(Ending(t)) # 5
          BY <4>1
        <5> QED
          BY <5>1, <5>2
      <4> QED
        BY <4>1, <4>2 DEF RestartCmds
    <3> QED
      BY <2>2, <3>1, <3>2, EndingCases
  <2>7. p[Len(p)] = Ending(t)[Len(Ending(t))]
    BY <2>5, <2>6, ConcatOf
  <2> HIDE DEF p, t
  <2>8. Cmd' = p[1].cmd
    BY <2>3, <2>5, <2>6, HeadOf DEF Cmd
  <2>9. PICK n \in 0..5 : EndsWith(p, n) /\ (n \in {0, 5} \/ n = Len(p))
    BY <2>4 DEF ProgFits, Restartable
  <2>10. SUFFICES ASSUME p[1].cmd \in RestartCmds PROVE p[1].cmd = "STOP"
    BY <2>8 DEF RestartCmds
  <2>11. Len(p) \in Nat \ {0} /\ Len(p) >= Len(Ending(t))
    <3>1. \A a \in Nat, b \in 1..5 : a + b \in Nat \ {0} /\ a + b >= b
      OBVIOUS
    <3> QED
      BY <2>5, <2>6, <3>1, Zenon
  <2>12. n = Len(p)
    BY <2>9, <2>10, <2>11 DEF EndsWith
  <2>13. \A i \in 1..Len(p) : p[i] = Restart[i - Len(p) + 5]
    BY <2>9, <2>11, <2>12 DEF EndsWith
  <2>14. p[Len(p)] = Restart[5]
    <3>1. Len(p) - Len(p) + 5 = 5 /\ Len(p) \in 1..Len(p)
      BY <2>11
    <3> QED
      BY <2>13, <3>1
  <2>15. Ending(t) = Restart
    BY <2>6, <2>7, <2>14, RestartSteps, DoCmd DEF RestartCmds
  <2>16. Len(p) = 5
    <3>1. n >= 5
      BY <2>6, <2>11, <2>12, <2>15
    <3> QED
      BY <2>9, <2>12, <3>1
  <2> QED
    BY <2>13, <2>16, RestartSteps, DoCmd
<1> QED
  BY <1>1, <1>2, <1>3, <1>4 DEF Phases, At, Awaits

(* The answer of a restart's step is the only thing its wait can take.     *)
LEMMA WaitFacts ==
  ASSUME Shape, Wait
  PROVE  /\ pc = "wait" /\ UNCHANGED <<out, reqs, rf, session, own, devState>> /\ Cmd # "STARTED"
         /\ prog # <<>> /\ ProgFits(test, prog) /\ test \in TestRecords
         /\ \/ /\ mwq # <<>> /\ mwq' = Tail(mwq) /\ mwq \in Seq(Past)
               /\ Len(mwq) \in Nat \ {0} /\ Len(mwq') = Len(mwq) - 1 /\ (Len(mwq) = 1 => mwq' = <<>>)
               /\ \A i \in 1..Len(mwq') : i + 1 \in 1..Len(mwq) /\ mwq'[i] = mwq[i + 1]
               /\ \/ mwq[1].kind = Answers[Cmd] /\ Answered /\ late' = late
                  \/ mwq[1].kind # Answers[Cmd] /\ ~Aborts /\ UNCHANGED <<pc, prog, late>>
                  \/ /\ Aborts /\ mwq[1].kind \in {"DEACTIVATED", "INTF_ERROR"} /\ late' = late
                     /\ Cmd # "STOP" /\ \E p \in OnFailures(test, Cmd) : GoOn(p)
            \/ /\ mwq = <<>> /\ mwq' = <<>> /\ (\E p \in OnFailures(test, Cmd) : GoOn(p))
               /\ late' = (late \/ reqs # <<>> \/ out # <<>>)
<1>1. /\ pc = "wait" /\ UNCHANGED <<out, reqs, rf, session, own, devState>>
  BY DEF Wait, WaitGot, WaitDrop, WaitAbort, WaitTimeout, WaitPull, WaitFrame, DtaFrame, mwif, cbVars,
         tagVars, session
<1>2. Cmd # "STARTED" /\ prog # <<>> /\ ProgFits(test, prog) /\ test \in TestRecords
  BY <1>1, Running DEF Shape, ThreadShape, Answers
<1>3. CASE WaitTimeout
  BY <1>1, <1>2, <1>3 DEF WaitTimeout, NfaIdle
<1>4. CASE WaitGot \/ WaitDrop \/ WaitAbort
  <2>1. mwq # <<>> /\ mwq' = Tail(mwq) /\ mwq \in Seq(Past)
    BY <1>4 DEF WaitGot, WaitDrop, WaitAbort, WaitPull, Shape, QueueShape
  <2>2. /\ Len(mwq) \in Nat \ {0} /\ Len(mwq') = Len(mwq) - 1 /\ Head(mwq) = mwq[1]
        /\ mwq' \in Seq(Past)
        /\ \A i \in 1..Len(mwq') : i + 1 \in 1..Len(mwq) /\ mwq'[i] = mwq[i + 1]
    BY <2>1, TailOf
  <2>3. Len(mwq) = 1 => mwq' = <<>>
    BY <2>2, EmptySeq
  <2>4. \/ mwq[1].kind = Answers[Cmd] /\ Answered /\ late' = late
        \/ mwq[1].kind # Answers[Cmd] /\ ~Aborts /\ UNCHANGED <<pc, prog, late>>
        \/ /\ Aborts /\ mwq[1].kind \in {"DEACTIVATED", "INTF_ERROR"} /\ late' = late
           /\ Cmd # "STOP" /\ \E p \in OnFailures(test, Cmd) : GoOn(p)
    BY <1>4, <2>2 DEF WaitGot, WaitDrop, WaitAbort, Got, Aborts
  <2> QED
    BY <1>1, <1>2, <2>1, <2>2, <2>3, <2>4
<1> QED
  BY <1>3, <1>4 DEF Wait

LEMMA RestartAnswered ==
  ASSUME Shape, pc = "wait", Cmd \in {"STOP", "CONFIG", "START"}, Answered
  PROVE  /\ GoOn(Tail(prog)) /\ pc' = "run"
         /\ Cmd = "STOP" => Cmd' = "CONFIG"
         /\ Cmd = "CONFIG" => Cmd' \in {"CONFIG", "START"}
         /\ Cmd = "START" => Cmd' = "STARTED"
<1>1. test \in TestRecords /\ prog # <<>> /\ ProgFits(test, prog)
  BY Running
<1>2. Succeeded
  BY DEF Succeeded, Transceives
<1>3. OnSuccess(test, Cmd) = {Tail(prog)}
  BY DEF OnSuccess
<1>4. GoOn(Tail(prog))
  BY <1>2, <1>3 DEF Answered
<1> QED
  BY <1>1, <1>4, RestartNext DEF GoOn, Cmd

LEMMA WaitStopPhases ==
  ASSUME Shape, Phases, Wait, Cmd = "STOP"
  PROVE  InPhase'
<1>1. pc = "wait" /\ UNCHANGED <<out, reqs, rf, session, own, devState>> /\ StopPhase
  BY WaitFacts DEF Phases, Awaits
<1>2. Answers[Cmd] = "STOPPED"
  BY DEF Answers
<1>3. CASE mwq = <<>>
  <2>1. reqs # <<>> \/ out # <<>>
    BY <1>1, <1>3 DEF StopPhase, StopAsked, StopReported, StopQueued
  <2>2. late'
    BY <1>3, <2>1, WaitFacts
  <2> QED
    BY <2>2 DEF InPhase
<1>4. CASE mwq # <<>> /\ mwq[1].kind = "STOPPED"
  <2>1. Len(mwq) \in Nat \ {0}
    BY <1>4, WaitFacts
  <2>2. StopQueued
    BY <1>1, <1>4, <2>1 DEF StopPhase, StopAsked, StopReported, None
  <2>3. Len(mwq) = 1
    <3>1. 1 \notin 1..(Len(mwq) - 1)
      BY <1>4, <2>2 DEF StopQueued
    <3>2. \A n \in Nat \ {0} : 1 \notin 1..(n - 1) => n = 1
      OBVIOUS
    <3> QED
      BY <2>1, <3>1, <3>2, Zenon
  <2>4. mwq' = <<>> /\ Answered
    BY <1>2, <1>4, <2>3, WaitFacts
  <2>5. pc' = "run" /\ Cmd' = "CONFIG"
    BY <1>1, <2>4, RestartAnswered
  <2>6. rf' = "off" /\ Empty'
    BY <1>1, <2>2, <2>4 DEF StopQueued, Empty
  <2>7. NoStop'
    BY <2>6 DEF Empty, NoStop, None
  <2>8. ConfigPhase' /\ Restarting'
    BY <2>5, <2>6 DEF ConfigPhase, Empty, Restarting, At
  <2> QED
    BY <2>5, <2>7, <2>8 DEF InPhase, Phases, At, Awaits
<1>5. CASE mwq # <<>> /\ mwq[1].kind # "STOPPED"
  <2>1. UNCHANGED <<pc, prog, late>> /\ Len(mwq) \in Nat \ {0} /\ Len(mwq') = Len(mwq) - 1
        /\ \A i \in 1..Len(mwq') : i + 1 \in 1..Len(mwq) /\ mwq'[i] = mwq[i + 1]
    BY <1>2, <1>5, WaitFacts
  <2>2. StopPhase'
    <3>1. CASE StopAsked \/ StopReported
      BY <1>1, <2>1, <3>1 DEF StopPhase, StopAsked, StopReported, None
    <3>2. CASE StopQueued
      <4>1. Len(mwq) # 1
        BY <1>5, <3>2 DEF StopQueued
      <4>2. Len(mwq') \in Nat \ {0} /\ Len(<<>>) = 0
        BY <2>1, <4>1
      <4>3. mwq'[Len(mwq')] = mwq[Len(mwq)] /\ mwq' # <<>>
        BY <2>1, <4>2
      <4>4. \A i \in 1..(Len(mwq') - 1) : i + 1 \in 1..(Len(mwq) - 1) /\ mwq'[i] = mwq[i + 1]
        BY <2>1, <4>2
      <4> QED
        BY <1>1, <3>2, <4>3, <4>4 DEF StopQueued, StopPhase
    <3> QED
      BY <1>1, <3>1, <3>2 DEF StopPhase
  <2>3. Cmd' = "STOP" /\ pc' = "wait"
    BY <1>1, <2>1 DEF Cmd
  <2> QED
    BY <2>2, <2>3 DEF InPhase, Phases, At, Awaits, Restarting
<1> QED
  BY <1>3, <1>4, <1>5

LEMMA WaitConfigPhases ==
  ASSUME Shape, Phases, Wait, Cmd = "CONFIG"
  PROVE  InPhase'
<1>1. pc = "wait" /\ UNCHANGED <<out, reqs, rf, session, own, devState>> /\ ConfigPhase
  BY WaitFacts DEF Phases, At
<1>2. Answers[Cmd] = "CONFIGURED" /\ Len(<<>>) = 0
  BY DEF Answers
<1>3. CASE mwq = <<>>
  <2>1. reqs # <<>> \/ out # <<>>
    BY <1>1, <1>2, <1>3 DEF ConfigPhase, Asked, Answering
  <2>2. late'
    BY <1>3, <2>1, WaitFacts
  <2> QED
    BY <2>2 DEF InPhase
<1>4. CASE mwq # <<>>
  <2>1. rf = "off" /\ reqs = <<>> /\ out = <<>> /\ Len(mwq) = 1 /\ mwq[1].kind = "CONFIGURED"
    BY <1>1, <1>4 DEF ConfigPhase, Asked, Answering
  <2>2. mwq' = <<>> /\ Answered
    BY <1>2, <1>4, <2>1, WaitFacts
  <2>3. pc' = "run" /\ Cmd' \in {"CONFIG", "START"}
    BY <1>1, <2>2, RestartAnswered
  <2>4. rf' = "off" /\ Empty'
    BY <1>1, <2>1, <2>2 DEF Empty
  <2>5. NoStop'
    BY <2>4 DEF Empty, NoStop, None
  <2>6. ConfigPhase' /\ StartPhase' /\ Restarting'
    BY <2>3, <2>4 DEF ConfigPhase, StartPhase, Empty, Restarting, At
  <2> QED
    BY <2>3, <2>5, <2>6 DEF InPhase, Phases, At, Awaits
<1> QED
  BY <1>3, <1>4

LEMMA WaitStartPhases ==
  ASSUME Shape, Phases, Wait, Cmd = "START"
  PROVE  InPhase'
<1>1. pc = "wait" /\ UNCHANGED <<out, reqs, rf, session, own, devState>> /\ StartPhase /\ NoStop
  BY WaitFacts DEF Phases, At, Awaits
<1>2. Answers[Cmd] = "STARTED" /\ Len(<<>>) = 0
  BY DEF Answers
<1>3. CASE mwq = <<>>
  <2>1. reqs # <<>> \/ out # <<>>
    BY <1>1, <1>2, <1>3 DEF StartPhase, Asked, Answering
  <2>2. late'
    BY <1>3, <2>1, WaitFacts
  <2> QED
    BY <2>2 DEF InPhase
<1>4. CASE mwq # <<>>
  <2>1. Afresh /\ mwq[1].kind = "STARTED" /\ \A i \in 2..Len(mwq) : After(mwq[i], own)
    BY <1>1, <1>4 DEF StartPhase, Asked, Answering
  <2>2. /\ Answered /\ Len(mwq) \in Nat \ {0} /\ Len(mwq') = Len(mwq) - 1
        /\ \A i \in 1..Len(mwq') : i + 1 \in 1..Len(mwq) /\ mwq'[i] = mwq[i + 1]
        /\ mwq' = Tail(mwq)
    BY <1>2, <1>4, <2>1, WaitFacts
  <2>3. pc' = "run" /\ Cmd' = "STARTED"
    BY <1>1, <2>2, RestartAnswered
  <2>4. \A i \in 1..Len(mwq') : After(mwq'[i], own')
    BY <1>1, <2>1, <2>2
  <2>5. StartedPhase'
    BY <1>1, <2>1, <2>4 DEF StartedPhase, Afresh, After
  <2>6. NoStop'
    BY <1>1, <1>4, <2>2, NoStopKept
  <2>7. Restarting'
    BY <2>3 DEF Restarting, At
  <2> QED
    BY <2>3, <2>5, <2>6, <2>7 DEF InPhase, Phases, At, Awaits
<1> QED
  BY <1>3, <1>4

LEMMA WaitPhases ==
  ASSUME Shape, Phases, Wait
  PROVE  InPhase'
<1>1. pc = "wait" /\ UNCHANGED <<out, reqs, rf, session, own, devState>> /\ Cmd # "STARTED"
  BY WaitFacts
<1>2. CASE Cmd \notin RestartCmds
  <2>1. NoStop'
    BY <1>1, <1>2, WaitFacts, NoStopKept DEF Phases, Awaits, RestartCmds
  <2>2. CASE \E p : Follower(p) /\ GoOn(p)
    BY <1>1, <1>2, <2>1, <2>2, OutsidePhases DEF InPhase
  <2>3. CASE prog' = prog /\ pc' = pc
    <3>1. Cmd' = Cmd
      BY <2>3 DEF Cmd
    <3>2. devState # "IDLE"
      BY <1>2 DEF Phases, Restarting, At, Awaits, RestartCmds
    <3> QED
      BY <1>1, <1>2, <2>1, <3>1, <3>2 DEF InPhase, Phases, At, Awaits, RestartCmds
  <2> QED
    BY <2>2, <2>3, WaitFacts DEF Answered, Follower
<1> QED
  BY <1>1, <1>2, WaitStopPhases, WaitConfigPhases, WaitStartPhases DEF RestartCmds

LEMMA PhasesInit == Init => InPhase
BY DEF Init, InPhase, Phases, NoStop, None, At, Awaits, Restarting

LEMMA PhasesStep == Shape /\ Arrivals /\ InPhase /\ [Next]_vars => InPhase'
<1> SUFFICES ASSUME Shape, Arrivals, InPhase, [Next]_vars, ~late' PROVE Phases'
  BY DEF InPhase
<1>1. CASE Wait
  <2>1. ~late
    <3>1. late \in BOOLEAN
      BY DEF Shape, ThreadShape
    <3> QED
      BY <1>1, <3>1, WaitFacts
  <2> QED
    BY <1>1, <2>1, WaitPhases DEF InPhase
<1>2. CASE ~Wait
  <2>1. late' = late
    BY <1>2 DEF Next, DtaThread, Nfa, NfaStep, Activate, RemoteLeaves, Execute, Refuse, LinkError,
                Deactivate, Select, StopDiscovery, Configure, StartDiscovery, QueuesFrame, Callback,
                NotifyState, PushMw, EvtCb, CbFrame, CbMsgHandleThrd, HandleActivated, HandleDeactivated,
                TestStep, Disconnected, DeactivatedAlready, StopIdle, EnableDiscovery,
                ConsumeDeactivated, ReceiveData, Send, SendRawFrame, Transceive, TransceiveSent,
                StepFrame, dta, vars
  <2>2. Phases
    BY <2>1 DEF InPhase
  <2>3. CASE UNCHANGED vars
    BY <2>2, <2>3 DEF vars, tagVars, cbVars, mwif, dta, session, Phases, At, Awaits, Cmd, StopPhase,
                      StopAsked, StopReported, StopQueued, ConfigPhase, StartPhase, StartedPhase, Afresh,
                      After, Empty, Asked, Answering, NoStop, None, Quits, Restarting
  <2> QED
    BY <1>2, <2>2, <2>3, NfaPhases, CallbackPhases, HandlePhases, OutsideStepPhases, RestartStepPhases
       DEF Next, DtaThread
<1> QED
  BY <1>1, <1>2

(* What keeps a restart clean: the shape of the state, the order of the    *)
(* activations, and the phase the restart is in.                           *)
RestartInvariant == Shape /\ Arrivals /\ InPhase

LEMMA RestartInvariantAlways == Spec => []RestartInvariant
<1>1. Init => RestartInvariant
  BY ShapeInit, ArrivalsInit, PhasesInit DEF RestartInvariant
<1>2. RestartInvariant /\ [Next]_vars => RestartInvariant'
  BY ShapeStep, ArrivalsStep, PhasesStep DEF RestartInvariant
<1> QED
  BY <1>1, <1>2, PTL DEF Spec

LEMMA CleanInPhase == RestartInvariant => RestartedClean
<1> SUFFICES ASSUME RestartInvariant, Step("STARTED"), ~late, NEW i \in 1..Len(mwq)
             PROVE  ~(mwq[i].kind = "DEACTIVATED" /\ mwq[i].session <= own)
  BY DEF RestartedClean
<1>1. mwq[i].session > own
  BY DEF RestartInvariant, InPhase, Phases, At, Step, StartedPhase, After
<1>2. mwq[i].session \in Nat /\ own \in Nat
  BY SessionType DEF RestartInvariant, Shape, QueueShape, ThreadShape, Past, Events
<1> QED
  BY <1>1, <1>2

(* When the discovery has been started again and no wait gave up too early,*)
(* the middleware queue holds no deactivation of the activation that is    *)
(* over: the wait for the stop drops it (phMwIfi_DiscoveryStop).           *)
THEOREM RestartsClean == Spec => []RestartedClean
BY RestartInvariantAlways, CleanInPhase, PTL

-----------------------------------------------------------------------------
(* What a step of the running handler does: it stays, asks the stack, goes *)
(* on to what follows, or ends the restart.                                *)

Stays ==
  /\ UNCHANGED <<prog, reqs, devState>> /\ pc' # "pull"
  /\ pc' # pc => pc' = "wait" /\ Cmd \in {"CONSUME", "RECEIVE"} \cup Transceives
Listens ==
  Cmd = "RECEIVE" /\ prog' = <<Do("CE_RECEIVE")>> /\ pc' = "wait" /\ UNCHANGED <<reqs, devState>>
Asks ==
  /\ pc = "run" /\ pc' \in {"wait", "sent"} /\ Sent /\ UNCHANGED <<prog, devState>>
  /\ pc' = "sent" => Cmd \in Transceives
Goes(p) ==
  /\ Follower(p) /\ GoOn(p) /\ devState' = devState /\ Cmd # "STARTED"
  /\ reqs' = reqs \/ (Cmd = "RAW" /\ Sent)
  /\ pc = "run" => \/ Cmd \in Transceives \cup {"RAW"}
                   \/ Cmd = "DEACTIVATE" /\ devState = "DISC"
                   \/ Cmd = "STOP" /\ devState = "IDLE"
Ends ==
  /\ pc = "run" /\ Cmd = "STARTED" /\ prog' = <<>> /\ pc' = "pull" /\ devState' = "DISC"
  /\ UNCHANGED <<reqs, mwq>>

LEMMA HandlerMoves ==
  ASSUME Shape, TestStep \/ Wait
  PROVE  /\ UNCHANGED <<rf, tests, session, astray, out, stage, own, test>>
         /\ pc # "pull" /\ own > 0 /\ own \in 1..session
         /\ test \in TestRecords /\ prog # <<>> /\ ProgFits(test, prog)
         /\ Stays \/ Listens \/ Asks \/ Ends \/ \E p : Goes(p)
<1>1. /\ UNCHANGED <<rf, tests, session, astray, out, stage>>
      /\ UNCHANGED <<own, test>> /\ pc # "pull"
  BY ThreadKeeps, TestsKeep DEF DtaThread, tagVars
<1>2. own \in 1..session /\ own > 0 /\ test \in TestRecords /\ prog # <<>> /\ ProgFits(test, prog)
  BY <1>1, Running
<1>3. pc = "sent" => Cmd \in Transceives
  BY DEF Shape, ThreadShape
<1>4. CASE Disconnected \/ DeactivatedAlready \/ StopIdle \/ SendRawFrame
  <2>1. PICK p : Follower(p) /\ GoOn(p)
    <3>1. CASE Disconnected \/ SendRawFrame
      BY <3>1 DEF Disconnected, SendRawFrame, Follower
    <3>2. CASE DeactivatedAlready \/ StopIdle
      BY <3>2 DEF DeactivatedAlready, StopIdle, Step, Follower, OnSuccess
    <3> QED
      BY <1>4, <3>1, <3>2
  <2>2. /\ devState' = devState /\ Cmd # "STARTED" /\ (reqs' = reqs \/ (Cmd = "RAW" /\ Sent))
        /\ \/ Cmd \in Transceives \cup {"RAW"}
           \/ Cmd = "DEACTIVATE" /\ devState = "DISC"
           \/ Cmd = "STOP" /\ devState = "IDLE"
    BY <1>4 DEF Disconnected, DeactivatedAlready, StopIdle, SendRawFrame, Step, mwif, Transceives
  <2> QED
    BY <1>1, <1>2, <2>1, <2>2 DEF Goes
<1>5. CASE EnableDiscovery
  <2>1. Cmd = "STARTED" /\ pc = "run" /\ GoOn(Tail(prog)) /\ devState' = "DISC" /\ UNCHANGED <<reqs, mwq>>
    BY <1>5 DEF EnableDiscovery, Step
  <2>2. Tail(prog) = <<>>
    BY <1>2, <2>1, RestartNext
  <2> QED
    BY <1>1, <1>2, <2>1, <2>2 DEF Ends, GoOn
<1>6. CASE ConsumeDeactivated
  BY <1>1, <1>2, <1>6 DEF ConsumeDeactivated, Step, Stays, mwif
<1>7. CASE ReceiveData
  BY <1>1, <1>2, <1>7 DEF ReceiveData, Step, Stays, Listens, mwif
<1>8. CASE Send \/ Transceive
  BY <1>1, <1>2, <1>8 DEF Send, Transceive, Asks, mwif
<1>9. CASE TransceiveSent
  <2>1. devState' = devState /\ reqs' = reqs /\ pc = "sent"
    BY <1>9 DEF TransceiveSent, mwif
  <2>2. CASE pc' = "wait" /\ UNCHANGED prog
    BY <1>1, <1>2, <1>3, <2>1, <2>2 DEF Stays
  <2>3. CASE \E p \in OnFailures(test, Cmd) : GoOn(p)
    BY <1>1, <1>2, <1>3, <2>1, <2>3 DEF Goes, Follower, Transceives
  <2> QED
    BY <1>9, <2>2, <2>3 DEF TransceiveSent
<1>10. CASE Wait
  <2>1. devState' = devState /\ reqs' = reqs /\ pc = "wait" /\ Cmd # "STARTED"
    BY <1>10, WaitFacts
  <2>2. CASE UNCHANGED <<pc, prog>>
    BY <1>1, <1>2, <2>1, <2>2 DEF Stays
  <2>3. CASE \E p : Follower(p) /\ GoOn(p)
    BY <1>1, <1>2, <2>1, <2>3 DEF Goes
  <2> QED
    BY <1>10, <2>2, <2>3, WaitFacts DEF Answered, Follower
<1> QED
  BY <1>4, <1>5, <1>6, <1>7, <1>8, <1>9, <1>10 DEF TestStep

(* How the requests grow.                                                  *)
LEMMA AskedLast ==
  ASSUME Shape, pc # "pull", Sent
  PROVE  /\ Len(reqs) \in Nat /\ Len(reqs') = Len(reqs) + 1
         /\ \A i \in 1..Len(reqs) : reqs'[i] = reqs[i]
         /\ \A i \in 1..Len(reqs') : i \in 1..Len(reqs) \/ i = Len(reqs')
         /\ reqs'[Len(reqs')].cmd = Cmd /\ reqs'[Len(reqs')].session = own
         /\ Len(reqs') \in 1..Len(reqs')
<1>1. /\ Len(reqs) \in Nat /\ Len(reqs') = Len(reqs) + 1
      /\ \A i \in 1..Len(reqs) : reqs'[i] = reqs[i]
      /\ reqs'[Len(reqs')].cmd = Cmd /\ reqs'[Len(reqs')].session = own
  BY SentShape
<1> QED
  BY <1>1

(* What a step of the stack does to the tag: it is a new activation, or    *)
(* the present tag leaves or is asked for something.                       *)
Reports1(k) == Len(out') = 1 /\ out'[1].kind = k /\ out' # <<>>

NewActivation ==
  /\ session' = session + 1 /\ rf' = "active" /\ stage' = "new"
  /\ reqs' = reqs \/ (reqs # <<>> /\ reqs' = Tail(reqs))
  /\ \E i \in 1..Len(out') : Activates(out', i)
  /\ \A i \in 1..Len(out') : \/ out'[i].kind \in {"ACTIVATED", "DATA"}
                             \/ out'[i].kind = "SELECT_RESULT" /\ i = 1

Leaves ==
  /\ reqs' = reqs /\ rf = "active" /\ rf' = "disc" /\ astray' = astray
  /\ Reports1("DEACTIVATED") /\ out'[1].detail = "DISCOVERY"

Commanded ==
  /\ Head(reqs).cmd \in TagCommands /\ astray' = astray
  /\ \/ /\ rf' = rf
        /\ \A i \in 1..Len(out') :
             out'[i].kind \notin {"ACTIVATED", "INTF_ERROR", "DEACTIVATED", "SELECT_RESULT"}
     \/ /\ rf' = "disc" /\ Len(out') = 2 /\ out'[1].kind = "INTF_ERROR"
        /\ out'[2].kind = "DEACTIVATED" /\ out'[2].detail = "DISCOVERY"

Slept ==
  /\ Head(reqs).cmd = "SLEEP" /\ astray' = (astray \/ OfAnother)
  /\ \/ rf = "active" /\ rf' = "sleep" /\ Reports1("DEACTIVATED") /\ out'[1].detail = "SLEEP"
     \/ rf # "active" /\ rf' = rf /\ Reports1("DEACTIVATE_FAIL")
Deactivated ==
  /\ Head(reqs).cmd = "DEACTIVATE" /\ astray' = astray
  /\ \/ /\ rf \in {"active", "sleep"} /\ rf' = "disc"
        /\ Reports1("DEACTIVATED") /\ out'[1].detail = "DISCOVERY"
     \/ rf \notin {"active", "sleep"} /\ rf' = rf /\ Reports1("DEACTIVATE_FAIL")
NotSelected ==
  /\ Head(reqs).cmd = "SELECT" /\ astray' = (astray \/ OfAnother) /\ rf' = rf
  /\ Reports1("SELECT_RESULT")
Stopped ==
  /\ Head(reqs).cmd = "STOP" /\ astray' = astray /\ rf' = "off"
  /\ \A i \in 1..Len(out') : \/ out'[i].kind = "STOPPED"
                             \/ out'[i].kind = "DEACTIVATED" /\ out'[i].detail = "IDLE"
Restarted ==
  /\ astray' = astray
  /\ \/ Head(reqs).cmd = "CONFIG" /\ rf' = rf /\ Reports1("CONFIGURED")
     \/ /\ Head(reqs).cmd = "START" /\ rf' = (IF rf = "off" THEN "disc" ELSE rf)
        /\ Reports1("STARTED")

Processes ==
  /\ reqs # <<>> /\ reqs' = Tail(reqs)
  /\ Commanded \/ Slept \/ Deactivated \/ NotSelected \/ Stopped \/ Restarted

LEMMA NfaMoves ==
  ASSUME Shape, Nfa
  PROVE  /\ out = <<>> /\ stage = "idle" /\ (stage' = "new" \/ out' = <<>>)
         /\ UNCHANGED <<mwq, dtaq, devState, pc, prog, own, late, Cmd>>
         /\ NewActivation \/ (UNCHANGED <<tests, session, test>> /\ (Leaves \/ Processes))
<1>1. out = <<>> /\ UNCHANGED <<mwq, devState, pc, prog, own, late>>
  BY NfaReported
<1>2. QueuesFrame /\ \E es : Report(es)
  BY DEF Nfa, NfaStep, Activate, RemoteLeaves, Execute, Refuse, LinkError, Deactivate, Select,
         StopDiscovery, Configure, StartDiscovery
<1>3. /\ stage = "idle" /\ (stage' = "new" \/ out' = <<>>)
      /\ (out' # <<>> => stage' = "new") /\ dtaq' = dtaq /\ Cmd' = Cmd
  BY <1>1, <1>2 DEF Shape, CallbackShape, QueuesFrame, Report, Cmd
<1>4. ASSUME UNCHANGED tests PROVE UNCHANGED <<tests, session, test>>
  BY <1>1, <1>4 DEF session, test
<1>5. ASSUME NEW e, out' = <<e>> PROVE Len(out') = 1 /\ out'[1] = e /\ out' # <<>>
  BY <1>5
<1>6. ASSUME NEW e, NEW f, out' = <<e, f>>
      PROVE  Len(out') = 2 /\ out'[1] = e /\ out'[2] = f /\ out' # <<>>
  BY <1>6
<1>7. \A k, d : Event(k, d).kind = k /\ Event(k, d).detail = d
  BY DEF Event
<1>8. Activation.kind = "ACTIVATED" /\ [Activation EXCEPT !.kind = "DATA"].kind = "DATA"
  BY DEF Activation
<1>9. CASE Activate
  <2>1. PICK t \in Tests :
          /\ tests' = Append(tests, t)
          /\ \/ Report(<<Activation>>)
             \/ Report(<<Activation, [Activation EXCEPT !.kind = "DATA"]>>)
    BY <1>9 DEF Activate
  <2>2. session' = session + 1 /\ rf' = "active" /\ reqs' = reqs
    <3>1. session < MaxSessions /\ rf' = "active" /\ reqs' = reqs
      BY <1>9 DEF Activate
    <3> QED
      BY <2>1, <3>1, Activated
  <2>3. /\ Len(out') \in 1..2 /\ out'[1].kind = "ACTIVATED" /\ out' # <<>>
        /\ \A i \in 1..Len(out') : out'[i].kind \in {"ACTIVATED", "DATA"}
    <3> DEFINE a == Activation
               f == [Activation EXCEPT !.kind = "DATA"]
    <3>1. out' = <<a>> \/ out' = <<a, f>>
      BY <2>1 DEF Report
    <3>2. a.kind = "ACTIVATED" /\ f.kind = "DATA"
      BY <1>8
    <3> HIDE DEF a, f
    <3>3. CASE out' = <<a>>
      BY <3>2, <3>3, <1>5
    <3>4. CASE out' = <<a, f>>
      BY <3>2, <3>4, <1>6
    <3> QED
      BY <3>1, <3>3, <3>4
  <2>4. 1 \in 1..Len(out') /\ stage' = "new"
    BY <1>3, <2>3
  <2> QED
    BY <1>1, <1>3, <2>2, <2>3, <2>4 DEF NewActivation, Activates
<1>10. CASE RemoteLeaves
  <2>1. reqs' = reqs /\ rf = "active" /\ rf' = "disc" /\ UNCHANGED <<tests, astray>>
        /\ out' = <<Event("DEACTIVATED", "DISCOVERY")>>
    BY <1>10 DEF RemoteLeaves, Report
  <2>2. Leaves
    BY <2>1, <1>5, <1>7 DEF Leaves, Reports1
  <2> QED
    BY <1>1, <1>3, <1>4, <2>1, <2>2
<1>11. CASE Execute \/ Refuse
  <2>1. /\ reqs # <<>> /\ reqs' = Tail(reqs) /\ Head(reqs).cmd \in TagCommands
        /\ UNCHANGED <<rf, tests, astray>>
    BY <1>11, RequestShape DEF Execute, Refuse
  <2>2. \A i \in 1..Len(out') :
             out'[i].kind \notin {"ACTIVATED", "INTF_ERROR", "DEACTIVATED", "SELECT_RESULT"}
    <3>1. CASE out' = <<>>
      BY <3>1
    <3>2. CASE out' # <<>>
      <4>1. PICK s \in {"ok", "refused"} : out' = Answer(s) /\ Head(reqs).cmd # "RAW"
        BY <1>11, <3>2 DEF Execute, Refuse, Report
      <4>2. Answers[Head(reqs).cmd] \notin {"ACTIVATED", "INTF_ERROR", "DEACTIVATED", "SELECT_RESULT"}
        BY <2>1, <4>1, AnswerKind
      <4>3. CASE out' = <<Event(Answers[Head(reqs).cmd], s)>>
        BY <1>5, <1>7, <4>2, <4>3
      <4>4. CASE out' = <<Event("DATA", "ok"), Event("READ_CPLT", "ok")>>
        BY <1>6, <1>7, <4>4
      <4> QED
        BY <4>1, <4>3, <4>4 DEF Answer
    <3> QED
      BY <3>1, <3>2
  <2> QED
    BY <1>1, <1>3, <1>4, <2>1, <2>2 DEF Processes, Commanded
<1>12. CASE LinkError
  <2>1. /\ reqs # <<>> /\ reqs' = Tail(reqs) /\ Head(reqs).cmd \in TagCommands
        /\ UNCHANGED <<tests, astray>> /\ rf' = "disc"
        /\ out' = <<Event("INTF_ERROR", "refused"), Event("DEACTIVATED", "DISCOVERY")>>
    BY <1>12, RequestShape DEF LinkError, Report
  <2>2. Commanded
    BY <1>6, <1>7, <2>1 DEF Commanded
  <2> QED
    BY <1>1, <1>3, <1>4, <2>1, <2>2 DEF Processes
<1>13. CASE Deactivate
  <2>1. /\ reqs # <<>> /\ reqs' = Tail(reqs) /\ Head(reqs).cmd \in {"DEACTIVATE", "SLEEP"}
        /\ UNCHANGED tests
    BY <1>13, RequestShape DEF Deactivate
  <2>2. CASE Head(reqs).cmd = "SLEEP"
    <3>1. /\ astray' = (astray \/ OfAnother)
          /\ \/ rf = "active" /\ rf' = "sleep" /\ out' = <<Event("DEACTIVATED", "SLEEP")>>
             \/ rf # "active" /\ rf' = rf /\ out' = <<Event("DEACTIVATE_FAIL", "refused")>>
      BY <1>13, <2>2 DEF Deactivate, Report
    <3>2. Slept
      BY <2>2, <3>1, <1>5, <1>7 DEF Slept, Reports1
    <3> QED
      BY <1>1, <1>3, <1>4, <2>1, <3>2 DEF Processes
  <2>3. CASE Head(reqs).cmd = "DEACTIVATE"
    <3>1. /\ astray' = astray
          /\ \/ rf \in {"active", "sleep"} /\ rf' = "disc" /\ out' = <<Event("DEACTIVATED", "DISCOVERY")>>
             \/ rf \notin {"active", "sleep"} /\ rf' = rf /\ out' = <<Event("DEACTIVATE_FAIL", "refused")>>
      <4>1. astray' = astray
        BY <1>13, <2>3 DEF Deactivate, Shape, TagShape
      <4>2. CASE rf \in {"active", "sleep"}
        BY <1>13, <2>3, <4>1, <4>2 DEF Deactivate, Report
      <4>3. CASE rf \notin {"active", "sleep"}
        BY <1>13, <2>3, <4>1, <4>3 DEF Deactivate, Report
      <4> QED
        BY <4>2, <4>3
    <3>2. Deactivated
      BY <2>3, <3>1, <1>5, <1>7 DEF Deactivated, Reports1
    <3> QED
      BY <1>1, <1>3, <1>4, <2>1, <3>2 DEF Processes
  <2> QED
    BY <2>1, <2>2, <2>3
<1>14. CASE Select
  <2>1. /\ reqs # <<>> /\ reqs' = Tail(reqs) /\ Head(reqs).cmd = "SELECT"
    BY <1>14, RequestShape DEF Select
  <2>2. CASE rf = "sleep" /\ session < MaxSessions /\ rf' = "active"
               /\ tests' = Append(tests, tests[session])
               /\ out' = <<Event("SELECT_RESULT", "ok"), Activation>>
    <3>1. session \in Nat /\ (session # 0 => tests[session] \in Tests)
      BY SessionType DEF Shape
    <3>2. session' = session + 1
      <4>1. tests \in Seq(Tests) /\ session = Len(tests)
        BY DEF Shape, TagShape, session
      <4>2. session' = Len(tests')
        BY DEF session
      <4> QED
        BY <2>2, <4>1, <4>2
    <3>3. /\ Len(out') = 2 /\ out'[1].kind = "SELECT_RESULT" /\ out'[2].kind = "ACTIVATED"
          /\ out' # <<>>
      <4> DEFINE a == Event("SELECT_RESULT", "ok")
                 f == Activation
      <4>1. out' = <<a, f>> /\ a.kind = "SELECT_RESULT" /\ f.kind = "ACTIVATED"
        BY <2>2, <1>7, <1>8
      <4> HIDE DEF a, f
      <4> QED
        BY <4>1, <1>6
    <3>4. stage' = "new" /\ 2 \in 1..Len(out')
      BY <1>3, <3>3
    <3>5. \A i \in 1..Len(out') : \/ out'[i].kind \in {"ACTIVATED", "DATA"}
                                  \/ out'[i].kind = "SELECT_RESULT" /\ i = 1
      BY <3>3
    <3>6. \E i \in 1..Len(out') : Activates(out', i)
      BY <3>3, <3>4 DEF Activates
    <3> QED
      BY <1>1, <1>3, <2>1, <2>2, <3>2, <3>4, <3>5, <3>6 DEF NewActivation
  <2>3. CASE /\ out' = <<Event("SELECT_RESULT", "refused")>> /\ astray' = (astray \/ OfAnother)
             /\ UNCHANGED <<rf, tests>>
    <3>1. NotSelected
      BY <2>1, <2>3, <1>5, <1>7 DEF NotSelected, Reports1
    <3> QED
      BY <1>1, <1>3, <1>4, <2>1, <2>3, <3>1 DEF Processes
  <2> QED
    BY <1>14, <2>2, <2>3 DEF Select, Report
<1>15. CASE StopDiscovery
  <2>1. /\ reqs # <<>> /\ reqs' = Tail(reqs) /\ Head(reqs).cmd = "STOP" /\ rf' = "off"
        /\ UNCHANGED <<tests, astray>>
    BY <1>15, RequestShape DEF StopDiscovery
  <2>2. <<Event("DEACTIVATED", "IDLE")>> \o <<Event("STOPPED", "ok")>>
          = <<Event("DEACTIVATED", "IDLE"), Event("STOPPED", "ok")>>
    BY Two
  <2>3. <<>> \o <<Event("STOPPED", "ok")>> = <<Event("STOPPED", "ok")>>
    OBVIOUS
  <2>4. \/ out' = <<Event("DEACTIVATED", "IDLE"), Event("STOPPED", "ok")>>
        \/ out' = <<Event("STOPPED", "ok")>>
    BY <1>15, <2>2, <2>3 DEF StopDiscovery, Report
  <2>5. Stopped
    <3>1. CASE out' = <<Event("DEACTIVATED", "IDLE"), Event("STOPPED", "ok")>>
      BY <2>1, <3>1, <1>6, <1>7 DEF Stopped
    <3>2. CASE out' = <<Event("STOPPED", "ok")>>
      BY <2>1, <3>2, <1>5, <1>7 DEF Stopped
    <3> QED
      BY <2>4, <3>1, <3>2
  <2> QED
    BY <1>1, <1>3, <1>4, <2>1, <2>5 DEF Processes
<1>16. CASE Configure \/ StartDiscovery
  <2>1. /\ reqs # <<>> /\ reqs' = Tail(reqs) /\ UNCHANGED <<tests, astray>>
        /\ \/ Head(reqs).cmd = "CONFIG" /\ rf' = rf /\ out' = <<Event("CONFIGURED", "ok")>>
           \/ /\ Head(reqs).cmd = "START" /\ rf' = (IF rf = "off" THEN "disc" ELSE rf)
              /\ out' = <<Event("STARTED", "ok")>>
    BY <1>16, RequestShape DEF Configure, StartDiscovery, Report, tagVars
  <2>2. Restarted
    BY <2>1, <1>5, <1>7 DEF Restarted, Reports1
  <2> QED
    BY <1>1, <1>3, <1>4, <2>1, <2>2 DEF Processes
<1> QED
  BY <1>9, <1>10, <1>11, <1>12, <1>13, <1>14, <1>15, <1>16 DEF Nfa, NfaStep

LEMMA TailReqs ==
  ASSUME Shape, reqs # <<>>, reqs' = Tail(reqs), NEW i \in 1..Len(reqs')
  PROVE  i + 1 \in 1..Len(reqs) /\ reqs'[i] = reqs[i + 1]
BY TailRequests

(* Behind a request that has been processed the others move up.            *)
LEMMA LaterReqs ==
  ASSUME Shape, reqs # <<>>, reqs' = Tail(reqs), NEW i \in 1..Len(reqs), i # 1
  PROVE  i - 1 \in 1..Len(reqs') /\ reqs'[i - 1] = reqs[i]
BY TailRequests

InReqs(cs) == \E i \in 1..Len(reqs) : reqs[i].cmd \in cs
Behind(i, cs) == \E j \in 1..Len(reqs) : i < j /\ reqs[j].cmd \in cs

LEMMA InReqsTail ==
  ASSUME Shape, reqs # <<>>, reqs' = Tail(reqs), NEW cs
  PROVE  /\ InReqs(cs) /\ Head(reqs).cmd \notin cs => InReqs(cs)'
         /\ Behind(1, cs) => InReqs(cs)'
         /\ \A i \in 1..Len(reqs') : Behind(i + 1, cs) => Behind(i, cs)'
<1>1. Head(reqs) = reqs[1]
  BY TailRequests
<1>2. ASSUME NEW i \in 1..Len(reqs), reqs[i].cmd \in cs, i # 1
      PROVE  i - 1 \in 1..Len(reqs') /\ reqs'[i - 1].cmd \in cs
  BY <1>2, LaterReqs
<1>3. InReqs(cs) /\ Head(reqs).cmd \notin cs => InReqs(cs)'
  BY <1>1, <1>2 DEF InReqs
<1>4. Behind(1, cs) => InReqs(cs)'
  BY <1>2 DEF InReqs, Behind
<1>5. ASSUME NEW i \in 1..Len(reqs'), Behind(i + 1, cs) PROVE Behind(i, cs)'
  <2>1. PICK j \in 1..Len(reqs) : i + 1 < j /\ reqs[j].cmd \in cs
    BY <1>5 DEF Behind
  <2>2. j # 1 /\ i < j - 1
    BY <2>1
  <2> QED
    BY <1>2, <2>1, <2>2 DEF Behind
<1> QED
  BY <1>3, <1>4, <1>5

LEMMA InReqsAsked ==
  ASSUME Shape, pc # "pull", Sent, NEW cs
  PROVE  /\ InReqs(cs) => InReqs(cs)'
         /\ \A i \in 1..Len(reqs) : Behind(i, cs) => Behind(i, cs)'
         /\ Cmd \in cs => InReqs(cs)' /\ \A i \in 1..Len(reqs) : Behind(i, cs)'
<1>1. InReqs(cs) => InReqs(cs)'
  BY AskedLast DEF InReqs
<1>2. \A i \in 1..Len(reqs) : Behind(i, cs) => Behind(i, cs)'
  BY AskedLast DEF Behind
<1>3. Cmd \in cs => InReqs(cs)' /\ \A i \in 1..Len(reqs) : Behind(i, cs)'
  BY AskedLast DEF Behind, InReqs
<1> QED
  BY <1>1, <1>2, <1>3

-----------------------------------------------------------------------------
(* No test leaves the discovery stopped: a start follows every stop.       *)

Starting == Awaits("STOP") \/ At("CONFIG") \/ Step("START")
OffRestarts ==
  /\ rf = "off" => InReqs({"START"}) \/ Starting
  /\ \A i \in 1..Len(reqs) : reqs[i].cmd = "STOP" => Behind(i, {"START"}) \/ Starting

LEMMA OffRestartsInit == Init => OffRestarts
BY DEF Init, OffRestarts

LEMMA OffRestartsNfa ==
  ASSUME Shape, OffRestarts, Nfa
  PROVE  OffRestarts'
<1>1. UNCHANGED <<pc, prog, Cmd>> /\ (NewActivation \/ Leaves \/ Processes)
  BY NfaMoves
<1>2. Starting' = Starting
  BY <1>1 DEF Starting, Awaits, At, Step
<1>3. CASE reqs' = reqs
  <2>1. rf' # "off"
    <3>1. CASE NewActivation \/ Leaves
      BY <3>1 DEF NewActivation, Leaves
    <3>2. CASE Processes
      BY <1>3, <3>2, TailRequests DEF Processes
    <3> QED
      BY <1>1, <3>1, <3>2
  <2> QED
    BY <1>2, <1>3, <2>1 DEF OffRestarts, Behind
<1>4. CASE reqs # <<>> /\ reqs' = Tail(reqs)
  <2>1. ASSUME NEW i \in 1..Len(reqs'), reqs'[i].cmd = "STOP"
        PROVE  Behind(i, {"START"})' \/ Starting'
    BY <1>2, <1>4, <2>1, TailReqs, InReqsTail DEF OffRestarts
  <2>2. ASSUME rf' = "off" PROVE InReqs({"START"})' \/ Starting'
    <3>1. CASE NewActivation \/ Leaves
      BY <2>2, <3>1 DEF NewActivation, Leaves
    <3>2. CASE Processes /\ Head(reqs).cmd = "STOP"
      <4>1. Head(reqs) = reqs[1] /\ 1 \in 1..Len(reqs)
        BY <1>4, TailRequests
      <4>2. Behind(1, {"START"}) \/ Starting
        BY <3>2, <4>1 DEF OffRestarts
      <4> QED
        BY <1>2, <1>4, <4>2, InReqsTail
    <3>3. CASE Processes /\ Head(reqs).cmd # "STOP"
      <4>1. rf = "off" /\ Head(reqs).cmd \notin {"START"}
        BY <2>2, <3>3 DEF Processes, Commanded, Slept, Deactivated, NotSelected, Stopped, Restarted,
                          TagCommands, Transceives
      <4> QED
        BY <1>2, <1>4, <4>1, InReqsTail DEF OffRestarts
    <3> QED
      BY <1>1, <3>1, <3>2, <3>3
  <2> QED
    BY <2>1, <2>2 DEF OffRestarts
<1> QED
  BY <1>1, <1>3, <1>4 DEF NewActivation, Leaves, Processes

LEMMA OffRestartsHandler ==
  ASSUME Shape, OffRestarts, TestStep \/ Wait
  PROVE  OffRestarts'
<1>1. pc # "pull" /\ prog # <<>> /\ test \in TestRecords /\ ProgFits(test, prog) /\ rf' = rf
      /\ (Stays \/ Listens \/ Asks \/ Ends \/ \E p : Goes(p))
  BY HandlerMoves
<1>2. reqs' = reqs \/ Sent
  BY <1>1 DEF Stays, Listens, Asks, Ends, Goes
<1>3. ASSUME Starting' PROVE OffRestarts'
  BY <1>3 DEF OffRestarts
<1>4. CASE Starting
  <2>1. Cmd \in {"STOP", "CONFIG", "START"}
    BY <1>4 DEF Starting, Awaits, At, Step
  <2>2. CASE Stays
    BY <1>3, <1>4, <2>1, <2>2 DEF Stays, Starting, Awaits, At, Step, Cmd, Transceives
  <2>3. CASE Asks /\ Cmd \in {"STOP", "CONFIG"}
    BY <1>3, <2>3 DEF Asks, Starting, Awaits, At, Cmd, Transceives
  <2>4. CASE Asks /\ Cmd = "START"
    <3>1. InReqs({"START"})' /\ \A i \in 1..Len(reqs) : Behind(i, {"START"})'
      BY <1>1, <2>4, InReqsAsked DEF Asks
    <3>2. \A i \in 1..Len(reqs') : reqs'[i].cmd = "STOP" => i \in 1..Len(reqs)
      BY <1>1, <2>4, AskedLast DEF Asks
    <3> QED
      BY <3>1, <3>2 DEF OffRestarts
  <2>5. CASE \E p : Goes(p)
    <3>1. PICK p : Goes(p)
      BY <2>5
    <3>2. p = Tail(prog) \/ (p = <<>> /\ Cmd = "START")
      BY <1>1, <2>1, <3>1, Follows DEF Goes, Follower, RestartCmds
    <3>3. CASE Cmd = "START"
      BY <1>4, <3>1, <3>3 DEF Starting, Awaits, At, Step, Goes, Transceives
    <3>4. CASE Cmd \in {"STOP", "CONFIG"}
      <4>1. p # <<>> /\ Head(p).cmd \in {"CONFIG", "START"}
        BY <1>1, <3>2, <3>4, RestartNext
      <4>2. pc' = "run" /\ Cmd' \in {"CONFIG", "START"}
        BY <3>1, <4>1 DEF Goes, GoOn, Cmd
      <4> QED
        BY <1>3, <4>2 DEF Starting, At, Step
    <3> QED
      BY <2>1, <3>3, <3>4
  <2> QED
    BY <1>1, <2>1, <2>2, <2>3, <2>4, <2>5 DEF Listens, Ends
<1>5. CASE ~Starting
  <2>1. CASE reqs' = reqs
    BY <1>1, <1>5, <2>1 DEF OffRestarts, Behind, InReqs
  <2>2. CASE Sent /\ Cmd # "STOP"
    <3>1. /\ InReqs({"START"}) => InReqs({"START"})'
          /\ \A i \in 1..Len(reqs) : Behind(i, {"START"}) => Behind(i, {"START"})'
      BY <1>1, <2>2, InReqsAsked
    <3>2. \A i \in 1..Len(reqs') : reqs'[i].cmd = "STOP" => i \in 1..Len(reqs) /\ reqs'[i] = reqs[i]
      BY <1>1, <2>2, AskedLast
    <3> QED
      BY <1>1, <1>5, <3>1, <3>2 DEF OffRestarts
  <2>3. CASE Sent /\ Cmd = "STOP"
    <3>1. reqs' # reqs
      BY <1>1, <2>3, AskedLast
    <3>2. Asks
      BY <1>1, <2>3, <3>1 DEF Stays, Listens, Ends, Goes
    <3> QED
      BY <1>3, <2>3, <3>2 DEF Asks, Starting, Awaits, Cmd, Transceives
  <2> QED
    BY <1>2, <2>1, <2>2, <2>3
<1> QED
  BY <1>4, <1>5

LEMMA OffRestartsStep == Shape /\ Arrivals /\ OffRestarts /\ [Next]_vars => OffRestarts'
<1> SUFFICES ASSUME Shape, Arrivals, OffRestarts, [Next]_vars PROVE OffRestarts'
  OBVIOUS
<1>1. ASSUME UNCHANGED <<rf, reqs, pc, prog>> PROVE OffRestarts'
  BY <1>1 DEF OffRestarts, InReqs, Behind, Starting, Awaits, At, Step, Cmd
<1>2. CASE Callback
  BY <1>1, <1>2, CallbackMoves
<1>3. CASE UNCHANGED vars
  BY <1>1, <1>3 DEF vars, tagVars, dta
<1>4. CASE CbMsgHandleThrd
  <2>1. rf' = rf /\ reqs' = reqs /\ pc = "pull"
    BY <1>4 DEF CbMsgHandleThrd, HandleActivated, HandleDeactivated, DtaFrame, tagVars
  <2>2. ~Starting
    BY <2>1 DEF Starting, Awaits, At, Step
  <2> QED
    BY <2>1, <2>2 DEF OffRestarts, InReqs, Behind
<1> QED
  BY <1>2, <1>3, <1>4, OffRestartsNfa, OffRestartsHandler DEF Next, DtaThread

-----------------------------------------------------------------------------
(* The controller's state while its reports are on their way, and the      *)
(* requests to select a tag, which come behind those to put it to sleep.   *)

ReportedState ==
  /\ rf \in {"active", "sleep"} => session > 0
  /\ \A i \in 1..Len(out) :
       /\ out[i].kind = "ACTIVATED" => rf = "active"
       /\ out[i].kind = "INTF_ERROR" => rf = "disc"
       /\ out[i].kind = "DEACTIVATED" => \/ out[i].detail = "DISCOVERY" /\ rf = "disc"
                                         \/ out[i].detail = "IDLE" /\ rf = "off"
                                         \/ out[i].detail = "SLEEP" /\ rf = "sleep" /\ Len(out) = 1
       /\ out[i].kind = "SELECT_RESULT" =>
            i = 1 /\ (rf = "active" /\ ~astray => \E j \in 1..Len(out) : Activates(out, j))

SleepAt(i) == reqs[i].cmd = "SLEEP" /\ reqs[i].session = session
SleepPending == \E i \in 1..Len(reqs) : SleepAt(i)

SelectsAsleep ==
  rf = "active" =>
    /\ \A i \in 1..Len(reqs) : reqs[i].cmd = "SELECT" /\ reqs[i].session = session =>
         \E j \in 1..Len(reqs) : j < i /\ SleepAt(j)
    /\ own = session /\ (Awaits("SLEEP") \/ Step("SELECT")) => SleepPending

LEMMA ReportedInit == Init => ReportedState /\ SelectsAsleep
BY DEF Init, ReportedState, SelectsAsleep, Awaits, Step

LEMMA ReportedNfa ==
  ASSUME Shape, SelectsAsleep, Nfa, ReportedState
  PROVE  ReportedState'
<1>1. out = <<>> /\ (NewActivation \/ (session' = session /\ (Leaves \/ Processes)))
  BY NfaMoves
<1>2. session \in Nat
  BY SessionType DEF Shape
<1>3. CASE NewActivation
  BY <1>2, <1>3 DEF NewActivation, ReportedState
<1>4. CASE session' = session /\ Leaves
  BY <1>2, <1>4 DEF Leaves, Reports1, ReportedState
<1>5. ASSUME session' = session, Processes
      PROVE  rf' \in {"active", "sleep"} => session' > 0
  BY <1>5 DEF Processes, Commanded, Slept, Deactivated, NotSelected, Stopped, Restarted, ReportedState
<1>6. CASE session' = session /\ Processes
  <2>1. Commanded \/ Slept \/ Deactivated \/ NotSelected \/ Stopped \/ Restarted
    BY <1>6 DEF Processes
  <2>2. CASE Commanded
    BY <1>5, <1>6, <2>2 DEF Commanded, ReportedState
  <2>3. CASE Slept
    BY <1>5, <1>6, <2>3 DEF Slept, Reports1, ReportedState
  <2>4. CASE Deactivated
    BY <1>5, <1>6, <2>4 DEF Deactivated, Reports1, ReportedState
  <2>5. CASE NotSelected
    <3>1. rf' = "active" => astray'
      <4> SUFFICES ASSUME rf' = "active", ~OfAnother PROVE FALSE
        BY <2>5 DEF NotSelected
      <4>1. reqs[1].cmd = "SELECT" /\ reqs[1].session = session /\ 1 \in 1..Len(reqs) /\ rf = "active"
        BY <1>6, <2>5, TailRequests DEF Processes, NotSelected, OfAnother
      <4>2. PICK j \in 1..Len(reqs) : j < 1
        BY <4>1 DEF SelectsAsleep
      <4> QED
        BY <4>2
    <3>2. rf' \in {"active", "sleep"} => session' > 0
      BY <1>5, <1>6
    <3>3. Len(out') = 1 /\ out'[1].kind = "SELECT_RESULT"
      BY <2>5 DEF NotSelected, Reports1
    <3> QED
      BY <3>1, <3>2, <3>3 DEF ReportedState
  <2>6. CASE Stopped
    BY <1>5, <1>6, <2>6 DEF Stopped, ReportedState
  <2>7. CASE Restarted
    BY <1>5, <1>6, <2>7 DEF Restarted, Reports1, ReportedState
  <2> QED
    BY <2>1, <2>2, <2>3, <2>4, <2>5, <2>6, <2>7
<1> QED
  BY <1>1, <1>3, <1>4, <1>6

LEMMA ReportedCallback ==
  ASSUME Shape, Arrivals, ReportedState, Callback
  PROVE  ReportedState'
<1>1. UNCHANGED <<rf, session, astray>>
  <2>1. rf' = rf /\ session' = session
    BY CallbackMoves
  <2>2. astray' = astray
    BY DEF Callback, NotifyState, PushMw, EvtCb, CbFrame, tagVars
  <2> QED
    BY <2>1, <2>2
<1>2. CASE out' = out
  BY <1>1, <1>2 DEF ReportedState, Activates
<1>3. CASE /\ Len(out') = Len(out) - 1
           /\ \A i \in 1..Len(out') : i + 1 \in 1..Len(out) /\ out'[i] = out[i + 1]
  <2>1. Len(out) \in Nat
    BY CallbackMoves
  <2>2. ASSUME NEW i \in 1..Len(out')
        PROVE  /\ i + 1 \in 1..Len(out) /\ i + 1 # 1 /\ Len(out) # 1 /\ out'[i] = out[i + 1]
    BY <1>3, <2>1
  <2> QED
    BY <1>1, <2>2 DEF ReportedState
<1> QED
  BY <1>2, <1>3, CallbackQueues

LEMMA ReportedStep ==
  Shape /\ Arrivals /\ SelectsAsleep /\ ReportedState /\ [Next]_vars => ReportedState'
<1> SUFFICES ASSUME Shape, Arrivals, SelectsAsleep, ReportedState, [Next]_vars PROVE ReportedState'
  OBVIOUS
<1>1. ASSUME UNCHANGED <<rf, session, astray, out>> PROVE ReportedState'
  BY <1>1 DEF ReportedState, Activates
<1>2. CASE DtaThread
  BY <1>1, <1>2, ThreadKeeps DEF tagVars
<1>3. CASE UNCHANGED vars
  BY <1>1, <1>3 DEF vars, tagVars, cbVars, session
<1> QED
  BY <1>2, <1>3, ReportedNfa, ReportedCallback DEF Next

(* No test begins by putting its tag to sleep or selecting it.             *)
LEMMA TestStarts ==
  ASSUME NEW t \in TestRecords
  PROVE  /\ Body(t) \o Ending(t) # <<>> /\ Len(Body(t) \o Ending(t)) \in Nat \ {0}
         /\ (Body(t) \o Ending(t))[1].cmd \notin {"SLEEP", "SELECT"}
         /\ Head(Body(t) \o Ending(t)) = (Body(t) \o Ending(t))[1]
         /\ \E i \in 1..Len(Body(t) \o Ending(t)) :
              (Body(t) \o Ending(t))[i].cmd \in {"STOP", "DEACTIVATE"}
<1> DEFINE S == StepsOf(Alphabet(t))
           b == Body(t)
           e == Ending(t)
           p == b \o e
<1>1. b \in Seq(S) /\ e \in Seq(S) /\ p \in Seq(S) /\ Len(p) = Len(b) + Len(e) /\ Len(b) \in Nat
  BY BodyEndingType, LenProperties
<1>2. /\ Len(e) \in 1..5 /\ e[1].cmd \in {"STOP", "DEACTIVATE", "CONSUME"}
      /\ \E i \in 1..Len(e) : e[i].cmd \in {"STOP", "DEACTIVATE"}
  <2>1. CASE e = Restart
    BY <2>1, RestartSteps, DoCmd
  <2>2. CASE e = Release
    BY <2>2, ReleaseSteps, DoCmd
  <2>3. CASE e = Consuming
    BY <2>3, ConsumingSteps, DoCmd
  <2> QED
    BY <2>1, <2>2, <2>3, EndingCases
<1>3. b # <<>> => b[1].cmd \notin {"SLEEP", "SELECT"}
  <2> SUFFICES ASSUME b # <<>> PROVE b[1].cmd \notin {"SLEEP", "SELECT"}
    OBVIOUS
  <2>1. b \in Seq(StepsOf(BodyAlphabet(t)))
    BY BodyType
  <2>2. Len(b) # 0 /\ 1 \in 1..Len(b)
    <3>1. Len(b) # 0
      BY <1>1, EmptySeq
    <3> QED
      BY <1>1, <3>1
  <2>3. b[1].cmd \in BodyAlphabet(t)
    BY <2>1, <2>2, StepsCmds
  <2>4. CASE t.tag = "T5T" /\ t.pattern = 49
    <3>1. CASE t.cr12
      <4>1. b = <<Do("I93"), Do("SLEEP"), Do("SELECT"), Do("I93"), Do("CHECK")>>
        <5>1. b = Dos(<<"I93", "SLEEP", "SELECT", "I93", "CHECK">>)
          BY <2>4, <3>1 DEF Body, T5TOperations_DynamicExecution
        <5> QED
          BY <5>1 DEF Dos
      <4> QED
        BY <4>1, DoCmd
    <3>2. CASE ~t.cr12
      BY <2>4, <3>2 DEF Body
    <3> QED
      BY <3>1, <3>2
  <2>5. CASE t.tag # "T5T" \/ t.pattern # 49
    <3>1. {"SLEEP", "SELECT"} \cap BodyAlphabet(t) = {}
      BY <2>5, Alphabets
    <3> QED
      BY <2>3, <3>1
  <2> QED
    BY <2>4, <2>5
<1> HIDE DEF b, e
<1>4. /\ \A i \in 1..Len(b) : p[i] = b[i]
      /\ \A i \in 1..Len(e) : p[Len(b) + i] = e[i]
  BY <1>1, ConcatOf
<1>5. Len(p) \in Nat \ {0}
  <2>1. \A x \in Nat, y \in 1..5 : x + y \in Nat \ {0}
    OBVIOUS
  <2> QED
    BY <1>1, <1>2, <2>1, Zenon
<1>6. p # <<>> /\ Head(p) = p[1]
  BY <1>1, <1>5, HeadOf
<1>7. p[1].cmd \notin {"SLEEP", "SELECT"}
  <2>1. CASE b = <<>>
    <3>1. Len(b) = 0
      BY <2>1
    <3>2. p[1] = e[1]
      <4>1. 1 \in 1..Len(e) /\ Len(b) + 1 = 1
        BY <1>2, <3>1
      <4> QED
        BY <1>4, <4>1
    <3> QED
      BY <1>2, <3>2
  <2>2. CASE b # <<>>
    <3>1. Len(b) # 0
      BY <1>1, <2>2, EmptySeq
    <3>2. 1 \in 1..Len(b)
      BY <1>1, <3>1
    <3> QED
      BY <1>3, <1>4, <2>2, <3>2
  <2> QED
    BY <2>1, <2>2
<1>8. \E i \in 1..Len(p) : p[i].cmd \in {"STOP", "DEACTIVATE"}
  <2>1. PICK i \in 1..Len(e) : e[i].cmd \in {"STOP", "DEACTIVATE"}
    BY <1>2
  <2>2. Len(b) + i \in 1..Len(p)
    BY <1>1, <1>2, <2>1
  <2> QED
    BY <1>4, <2>1, <2>2
<1> QED
  BY <1>5, <1>6, <1>7, <1>8 DEF b, e

(* The release of the tag is still to come.                                *)
Coming == \E i \in 1..Len(prog) : prog[i].cmd \in {"STOP", "DEACTIVATE"} /\ (i = 1 => pc = "run")

LEMMA HandleMoves ==
  ASSUME Shape, Arrivals, CbMsgHandleThrd
  PROVE  /\ pc = "pull" /\ UNCHANGED <<rf, tests, session, astray, out, stage, reqs, mwq, devState, late>>
         /\ \/ UNCHANGED <<own, prog, pc, test, Cmd>>
            \/ /\ own < own' /\ own' \in 1..session /\ pc' = "run" /\ test' = tests[own']
               /\ Cmd' \notin {"SLEEP", "SELECT"} /\ Coming'
<1>1. pc = "pull" /\ UNCHANGED <<rf, tests, session, astray, out, stage, reqs, mwq, devState, late>>
  BY DEF CbMsgHandleThrd, HandleActivated, HandleDeactivated, DtaFrame, cbVars, tagVars, mwif, dta, session
<1>2. CASE HandleDeactivated
  <2>1. UNCHANGED <<own, prog, pc>>
    BY <1>2 DEF HandleDeactivated, dta
  <2>2. UNCHANGED <<test, Cmd>>
    BY <1>1, <2>1 DEF test, Cmd
  <2> QED
    BY <1>1, <2>1, <2>2
<1>3. CASE HandleActivated
  <2>1. dtaq \in Seq(Past) /\ dtaq # <<>> /\ Head(dtaq).kind = "ACTIVATED" /\ own' = Head(dtaq).session
    BY <1>3 DEF HandleActivated, Shape, QueueShape
  <2>2. Head(dtaq) = dtaq[1] /\ 1 \in 1..Len(dtaq) /\ Head(dtaq) \in Past
    BY <2>1, TailOf
  <2>3. own < own' /\ own' \in 1..session
    <3>1. own < own'
      BY <2>1, <2>2 DEF Arrivals, InOrder, Activates
    <3>2. own' \in 1..session
      BY <2>1, <2>2, SessionType DEF Past, Events, Shape
    <3> QED
      BY <3>1, <3>2
  <2> DEFINE p == Body(tests[own']) \o Ending(tests[own'])
  <2>4. GoOn(p)
    BY <1>3, <2>1 DEF HandleActivated
  <2>5. tests[own'] \in TestRecords
    BY <2>3, SessionType, Bounds DEF Shape
  <2>6. /\ p # <<>> /\ p[1].cmd \notin {"SLEEP", "SELECT"} /\ Head(p) = p[1]
        /\ \E i \in 1..Len(p) : p[i].cmd \in {"STOP", "DEACTIVATE"}
    BY <2>5, TestStarts
  <2> HIDE DEF p
  <2>7. pc' = "run" /\ prog' = p
    BY <2>4, <2>6 DEF GoOn
  <2>8. Cmd' \notin {"SLEEP", "SELECT"} /\ Coming'
    BY <2>6, <2>7 DEF Cmd, Coming
  <2>9. test' = tests[own']
    BY <1>1 DEF test
  <2> QED
    BY <1>1, <2>3, <2>7, <2>8, <2>9
<1> QED
  BY <1>2, <1>3 DEF CbMsgHandleThrd

(* What a handler's next step may be, seen from the step before it.        *)
LEMMA SleepSteps ==
  ASSUME Shape, pc # "pull"
  PROVE  /\ Cmd = "SELECT" => test.tag = "T5T"
         /\ Cmd = "SLEEP" => test.tag \in Dep \cup {"T5T"}
         /\ Cmd \in {"SLEEP", "SELECT"} /\ test.tag = "T5T" => IsSuffix(prog, SleepTest)
         /\ Cmd = "SLEEP" /\ test.tag \in Dep => prog = Sleeps \o Restart
         /\ Cmd \in {"RECEIVE", "CE_RECEIVE"} => test.tag \in Dep
         /\ Cmd \in Alphabet(test) /\ Cmd = prog[1].cmd /\ Len(prog) \in Nat \ {0}
<1>1. test \in TestRecords /\ prog # <<>> /\ ProgFits(test, prog)
  BY Running
<1>2. /\ Cmd = prog[1].cmd /\ Head(prog) \in StepsOf(Alphabet(test)) /\ Len(prog) \in Nat \ {0}
  BY <1>1, NextStep
<1>3. Cmd \in Alphabet(test) /\ 1 \in 1..Len(prog)
  BY <1>2 DEF StepsOf, Cmd
<1>4. test.tag \in {"T1T", "T2T", "T3T", "T4T", "T5T"} \cup Dep
  BY <1>1 DEF TestRecords
<1>5. Cmd \in {"SLEEP", "SELECT", "RECEIVE", "CE_RECEIVE"} => test.tag \in Dep \cup {"T5T"}
  BY <1>3, <1>4, CommandSet DEF Alphabet, Dep, RestartCmds
<1>6. Cmd = "SELECT" => test.tag \notin Dep
  <2> SUFFICES ASSUME test.tag \in Dep, Cmd = "SELECT" PROVE FALSE
    OBVIOUS
  <2>1. Cmd \in {"LOOP", "RECEIVE", "CE_RECEIVE", "SLEEP", "DEACTIVATE"} \cup RestartCmds
    BY <1>3 DEF Alphabet, Dep
  <2> QED
    BY <2>1 DEF RestartCmds
<1>7. Cmd \in {"RECEIVE", "CE_RECEIVE"} => test.tag # "T5T"
  BY <1>3 DEF Alphabet, RestartCmds, Dep
<1>8. Cmd \in {"SLEEP", "SELECT"} => Has(prog, {"SLEEP", "SELECT"}) 
  BY <1>2, <1>3 DEF Has
<1>9. Cmd = "SLEEP" => Has(prog, {"SLEEP"}) 
  BY <1>2, <1>3 DEF Has
<1> QED
  BY <1>1, <1>2, <1>3, <1>5, <1>6, <1>7, <1>8, <1>9 DEF ProgFits

(* The place of a command in the test that sleeps.                         *)
LEMMA SleepTestPlace ==
  ASSUME NEW p \in Seq(StepRec), p # <<>>, IsSuffix(p, SleepTest)
  PROVE  /\ Len(p) \in 1..7 /\ \A i \in 1..Len(p) : p[i] = SleepTest[i + 7 - Len(p)]
         /\ p[1].cmd = "SLEEP" <=> Len(p) = 6
         /\ p[1].cmd = "SELECT" <=> Len(p) = 5
         /\ p[Len(p)].cmd = "DEACTIVATE"
<1>1. Len(p) \in Nat \ {0}
  BY TailOf
<1>2. Len(p) \in 1..7 /\ \A i \in 1..Len(p) : p[i] = SleepTest[i + 7 - Len(p)]
  <2>1. Len(SleepTest) = 7
    BY SleepTestSteps
  <2>2. Len(p) <= 7 /\ \A i \in 1..Len(p) : p[i] = SleepTest[i + 7 - Len(p)]
    BY <2>1 DEF IsSuffix
  <2>3. \A n \in Nat \ {0} : n <= 7 => n \in 1..7
    OBVIOUS
  <2> QED
    BY <1>1, <2>2, <2>3, Zenon
<1>3. \A n \in 1..7 : /\ SleepTest[1 + 7 - n].cmd = "SLEEP" <=> n = 6
                      /\ SleepTest[1 + 7 - n].cmd = "SELECT" <=> n = 5
  <2>1. /\ SleepTest[1].cmd = "I93" /\ SleepTest[2].cmd = "SLEEP" /\ SleepTest[3].cmd = "SELECT"
        /\ SleepTest[4].cmd = "I93" /\ SleepTest[5].cmd = "CHECK" /\ SleepTest[6].cmd = "CONSUME"
        /\ SleepTest[7].cmd = "DEACTIVATE"
    BY SleepTestSteps, DoCmd
  <2> SUFFICES ASSUME NEW n \in 1..7
               PROVE /\ SleepTest[1 + 7 - n].cmd = "SLEEP" <=> n = 6
                     /\ SleepTest[1 + 7 - n].cmd = "SELECT" <=> n = 5
    OBVIOUS
  <2>2. n \in {1, 2, 3, 4, 5, 6, 7}
    OBVIOUS
  <2> QED
    BY <2>1, <2>2
<1>4. p[1] = SleepTest[1 + 7 - Len(p)] /\ p[Len(p)] = SleepTest[7]
  <2>1. 1 \in 1..Len(p) /\ Len(p) \in 1..Len(p) /\ Len(p) + 7 - Len(p) = 7
    BY <1>1
  <2> QED
    BY <1>2, <2>1
<1>5. /\ p[1].cmd = "SLEEP" <=> Len(p) = 6
      /\ p[1].cmd = "SELECT" <=> Len(p) = 5
  BY <1>2, <1>3, <1>4
<1>6. p[Len(p)].cmd = "DEACTIVATE"
  BY <1>4, SleepTestSteps, DoCmd
<1> QED
  BY <1>2, <1>5, <1>6

LEMMA SleepEntered ==
  ASSUME Shape, pc # "pull", NEW p, Follower(p), GoOn(p), Cmd # "STARTED"
  PROVE  /\ Cmd' = "SELECT" /\ p # <<>> => Cmd = "SLEEP" /\ p = Tail(prog) /\ test.tag = "T5T"
         /\ Cmd' = "SLEEP" /\ p # <<>> /\ test.tag = "T5T" => Cmd = "I93" /\ p = Tail(prog)
         /\ Cmd = "SLEEP" /\ test.tag = "T5T" => p = Tail(prog) /\ pc' = "run" /\ Cmd' = "SELECT"
<1>1. test \in TestRecords /\ prog # <<>> /\ ProgFits(test, prog)
  BY Running
<1>2. /\ Tail(prog) \in Seq(StepRec) /\ Len(prog) \in Nat \ {0} /\ Len(Tail(prog)) = Len(prog) - 1
      /\ prog \in Seq(StepRec) /\ Cmd = prog[1].cmd
      /\ \A i \in 1..Len(Tail(prog)) : Tail(prog)[i] = prog[i + 1]
  <2>1. prog \in Seq(StepRec)
    <3>1. prog \in Seq(StepsOf(Alphabet(test)))
      BY <1>1 DEF ProgFits
    <3> QED
      BY <3>1 DEF StepsOf
  <2> QED
    BY <1>1, <2>1, NextStep, TailOf
<1>3. \/ p = Tail(prog)
      \/ p = <<>> /\ Cmd = "START"
      \/ p \in Detours(test) /\ Cmd \notin {"SLEEP", "SELECT", "CONSUME", "DEACTIVATE"} \cup RestartCmds
  BY <1>1, Follows DEF Follower
<1>4. p # <<>> => Cmd' = Head(p).cmd
  BY DEF GoOn, Cmd
<1>5. p # <<>> /\ p = Tail(prog) => Len(prog) >= 2 /\ Cmd' = prog[2].cmd /\ pc' = "run"
  <2> SUFFICES ASSUME p # <<>>, p = Tail(prog) PROVE Len(prog) >= 2 /\ Cmd' = prog[2].cmd /\ pc' = "run"
    OBVIOUS
  <2>1. Len(p) # 0
    BY <1>2, EmptySeq
  <2>2. Head(p) = p[1] /\ Len(prog) >= 2 /\ 1 \in 1..Len(Tail(prog))
    BY <1>2, <2>1, HeadOf
  <2> QED
    BY <1>2, <1>4, <2>2 DEF GoOn
<1>6. ASSUME p # <<>>, p = Tail(prog), Cmd' \in {"SLEEP", "SELECT"}, test.tag = "T5T"
      PROVE  /\ Cmd' = "SELECT" => Cmd = "SLEEP"
             /\ Cmd' = "SLEEP" => Cmd = "I93"
  <2>1. 2 \in 1..Len(prog) /\ prog[2].cmd = Cmd'
    BY <1>2, <1>5, <1>6
  <2>2. Has(prog, {"SLEEP", "SELECT"})
    BY <1>6, <2>1 DEF Has
  <2>3. IsSuffix(prog, SleepTest)
    BY <1>1, <1>6, <2>2 DEF ProgFits
  <2>4. /\ Len(prog) \in 1..7 /\ prog[1] = SleepTest[8 - Len(prog)] /\ prog[2] = SleepTest[9 - Len(prog)]
    <3>1. Len(prog) \in 1..7 /\ \A i \in 1..Len(prog) : prog[i] = SleepTest[i + 7 - Len(prog)]
      BY <1>1, <1>2, <2>3, SleepTestPlace
    <3>2. 1 \in 1..Len(prog) /\ 1 + 7 - Len(prog) = 8 - Len(prog) /\ 2 + 7 - Len(prog) = 9 - Len(prog)
      BY <2>1, <3>1
    <3> QED
      BY <2>1, <3>1, <3>2
  <2>5. \A n \in 2..7 : /\ SleepTest[9 - n].cmd = "SELECT" => SleepTest[8 - n].cmd = "SLEEP"
                        /\ SleepTest[9 - n].cmd = "SLEEP" => SleepTest[8 - n].cmd = "I93"
    <3>1. /\ SleepTest[1].cmd = "I93" /\ SleepTest[2].cmd = "SLEEP" /\ SleepTest[3].cmd = "SELECT"
          /\ SleepTest[4].cmd = "I93" /\ SleepTest[5].cmd = "CHECK" /\ SleepTest[6].cmd = "CONSUME"
          /\ SleepTest[7].cmd = "DEACTIVATE"
      BY SleepTestSteps, DoCmd
    <3> SUFFICES ASSUME NEW n \in 2..7
                 PROVE /\ SleepTest[9 - n].cmd = "SELECT" => SleepTest[8 - n].cmd = "SLEEP"
                       /\ SleepTest[9 - n].cmd = "SLEEP" => SleepTest[8 - n].cmd = "I93"
      OBVIOUS
    <3>2. n \in {2, 3, 4, 5, 6, 7}
      OBVIOUS
    <3> QED
      BY <3>1, <3>2
  <2>6. Len(prog) \in 2..7
    BY <2>1, <2>4
  <2>7. Cmd' = SleepTest[9 - Len(prog)].cmd /\ Cmd = SleepTest[8 - Len(prog)].cmd
    BY <1>2, <2>1, <2>4
  <2>8. /\ SleepTest[9 - Len(prog)].cmd = "SELECT" => SleepTest[8 - Len(prog)].cmd = "SLEEP"
        /\ SleepTest[9 - Len(prog)].cmd = "SLEEP" => SleepTest[8 - Len(prog)].cmd = "I93"
    BY <2>5, <2>6, Zenon
  <2> QED
    BY <2>7, <2>8, Zenon
<1>7. ASSUME p # <<>>, p \in Detours(test), Cmd \notin {"SLEEP", "SELECT"}
      PROVE  /\ Cmd' # "SELECT"
             /\ test.tag = "T5T" => Cmd' # "SLEEP"
  <2>1. CASE p = prog
    <3>1. Cmd' = Cmd
      BY <2>1 DEF GoOn, Cmd
    <3> QED
      BY <1>7, <3>1
  <2>2. CASE p # prog
    <3>1. /\ p[1].cmd # "SELECT" /\ (test.tag = "T5T" => p[1].cmd # "SLEEP")
          /\ Head(p) = p[1]
      <4>1. p \in {Restart, Release, Consuming, <<>>, Sleeps \o Restart, <<Do("XCV")>> \o Restart}
            /\ (test.tag = "T5T" => p \in {Restart, Release, Consuming})
        <5>1. Ending(test) \in {Restart, Release, Consuming}
          BY <1>1, EndingCases
        <5> QED
          BY <1>7, <2>2, <5>1 DEF Detours, Dep
      <4>2. CASE p = Restart
        BY <4>2, RestartSteps, DoCmd, HeadOf
      <4>3. CASE p = Release
        BY <4>3, ReleaseSteps, DoCmd, HeadOf
      <4>4. CASE p = Consuming
        BY <4>4, ConsumingSteps, DoCmd, HeadOf
      <4>5. CASE p = Sleeps \o Restart /\ test.tag # "T5T"
        <5> DEFINE S == StepsOf({"SLEEP", "DEACTIVATE"} \cup RestartCmds)
        <5>1. Sleeps \in Seq(S) /\ Restart \in Seq(S)
          BY SleepsSteps, RestartSteps, StepsMonotonic
        <5> HIDE DEF S
        <5>2. p \in Seq(S) /\ Len(p) = 7
          BY <4>5, <5>1, ConcatOf, SleepsRestartSteps
        <5>3. Head(p) = p[1]
          BY <5>2, HeadOf
        <5> QED
          BY <4>5, <5>3, SleepsRestartSteps, DoCmd
      <4>6. CASE p = <<Do("XCV")>> \o Restart /\ test.tag # "T5T"
        <5> DEFINE S == StepsOf({"XCV"} \cup RestartCmds)
                   q == <<Do("XCV")>>
        <5>1. q \in Seq(S) /\ Restart \in Seq(S) /\ Len(q) = 1 /\ q[1] = Do("XCV") /\ Len(Restart) = 5
          BY OneStep, CommandSet, RestartSteps, StepsMonotonic
        <5> HIDE DEF S, q
        <5>2. q \o Restart \in Seq(S) /\ Len(q \o Restart) = 6 /\ (q \o Restart)[1] = Do("XCV")
          <6>1. /\ q \o Restart \in Seq(S) /\ Len(q \o Restart) = Len(q) + Len(Restart)
                /\ \A i \in 1..Len(q) : (q \o Restart)[i] = q[i]
            BY <5>1, ConcatOf
          <6> QED
            BY <5>1, <6>1
        <5>3. p = q \o Restart
          BY <4>6 DEF q
        <5>4. Head(p) = p[1]
          BY <5>2, <5>3, HeadOf
        <5> QED
          BY <5>2, <5>3, <5>4, DoCmd
      <4> QED
        BY <1>7, <4>1, <4>2, <4>3, <4>4, <4>5, <4>6
    <3> QED
      BY <1>4, <1>7, <3>1
  <2> QED
    BY <2>1, <2>2
<1>8. Cmd' = "SELECT" /\ p # <<>> => Cmd = "SLEEP" /\ p = Tail(prog) /\ test.tag = "T5T"
  <2> SUFFICES ASSUME Cmd' = "SELECT", p # <<>>
               PROVE  Cmd = "SLEEP" /\ p = Tail(prog) /\ test.tag = "T5T"
    OBVIOUS
  <2>1. p = Tail(prog)
    BY <1>3, <1>7
  <2>2. test.tag = "T5T"
    <3>1. p \in Seq(StepsOf(Alphabet(test))) /\ Head(p).cmd = "SELECT"
      BY <1>1, <1>4, <2>1, NextStep
    <3>2. "SELECT" \in Alphabet(test)
      <4>1. Head(p) \in StepsOf(Alphabet(test))
        BY <3>1, TailOf
      <4> QED
        BY <3>1, <4>1 DEF StepsOf
    <3>3. test.tag \in {"T1T", "T2T", "T3T", "T4T", "T5T"} \cup Dep
      BY <1>1 DEF TestRecords
    <3> QED
      BY <3>2, <3>3 DEF Alphabet, RestartCmds
  <2> QED
    BY <1>6, <2>1, <2>2
<1>9. Cmd' = "SLEEP" /\ p # <<>> /\ test.tag = "T5T" => Cmd = "I93" /\ p = Tail(prog)
  BY <1>3, <1>6, <1>7
<1>10. Cmd = "SLEEP" /\ test.tag = "T5T" => p = Tail(prog) /\ pc' = "run" /\ Cmd' = "SELECT"
  <2> SUFFICES ASSUME Cmd = "SLEEP", test.tag = "T5T" PROVE p = Tail(prog) /\ pc' = "run" /\ Cmd' = "SELECT"
    OBVIOUS
  <2>1. p = Tail(prog)
    BY <1>3
  <2>2. IsSuffix(prog, SleepTest)
    BY SleepSteps
  <2>3. Len(prog) = 6 /\ prog[2] = SleepTest[3]
    <3>1. Len(prog) = 6 /\ \A i \in 1..Len(prog) : prog[i] = SleepTest[i + 7 - Len(prog)]
      BY <1>1, <1>2, <2>2, SleepTestPlace
    <3> QED
      BY <3>1
  <2>4. prog[2].cmd = "SELECT" /\ p # <<>>
    <3>1. Len(p) = 5 /\ Len(<<>>) = 0
      BY <1>2, <2>1, <2>3
    <3>2. p # <<>>
      BY <3>1
    <3>3. SleepTest[3].cmd = "SELECT"
      BY SleepTestSteps, DoCmd
    <3> QED
      BY <2>3, <3>2, <3>3
  <2> QED
    BY <1>5, <2>1, <2>4
<1> QED
  BY <1>8, <1>9, <1>10

LEMMA SelectsNfa ==
  ASSUME Shape, Arrivals, SelectsAsleep, Nfa
  PROVE  SelectsAsleep'
<1>1. /\ UNCHANGED <<pc, own, Cmd>>
      /\ NewActivation \/ (session' = session /\ (Leaves \/ Processes))
  BY NfaMoves
<1>2. CASE NewActivation
  <2>1. SentByPast' /\ own \in 0..session /\ session \in Nat /\ session' = session + 1
    BY <1>1, <1>2, SentByPastTail, SessionType DEF Arrivals, NewActivation, Shape, ThreadShape
  <2>2. own' # session' /\ own' = own /\ ~(session' <= own')
    BY <1>1, <2>1
  <2>3. \A i \in 1..Len(reqs') : reqs'[i].session # session'
    BY <2>1, <2>2 DEF SentByPast
  <2> QED
    BY <2>2, <2>3 DEF SelectsAsleep
<1>3. CASE Leaves
  BY <1>3 DEF Leaves, SelectsAsleep
<1>4. CASE session' = session /\ Processes
  <2> SUFFICES ASSUME rf' = "active"
               PROVE  /\ \A i \in 1..Len(reqs') : reqs'[i].cmd = "SELECT" /\ reqs'[i].session = session =>
                           \E j \in 1..Len(reqs') : j < i /\ SleepAt(j)'
                      /\ own = session /\ (Awaits("SLEEP") \/ Step("SELECT")) =>
                           \E j \in 1..Len(reqs') : SleepAt(j)'
    BY <1>1, <1>4 DEF SelectsAsleep, SleepPending, Awaits, Step
  <2>1. rf = "active" /\ Head(reqs).cmd # "SLEEP"
    BY <1>4 DEF Processes, Commanded, Slept, Deactivated, NotSelected, Stopped, Restarted,
                TagCommands, Transceives
  <2>2. reqs # <<>> /\ reqs' = Tail(reqs) /\ Head(reqs) = reqs[1]
    BY <1>4, TailRequests DEF Processes
  <2>3. ASSUME NEW j \in 1..Len(reqs), SleepAt(j)
        PROVE  j - 1 \in 1..Len(reqs') /\ SleepAt(j - 1)'
    <3>1. j # 1
      BY <2>1, <2>2, <2>3 DEF SleepAt
    <3>2. j - 1 \in 1..Len(reqs') /\ reqs'[j - 1] = reqs[j]
      BY <2>2, <3>1, LaterReqs
    <3> QED
      BY <1>4, <2>3, <3>2 DEF SleepAt
  <2>4. ASSUME NEW i \in 1..Len(reqs'), reqs'[i].cmd = "SELECT", reqs'[i].session = session
        PROVE  \E j \in 1..Len(reqs') : j < i /\ SleepAt(j)'
    <3>1. i + 1 \in 1..Len(reqs) /\ reqs'[i] = reqs[i + 1]
      BY <2>2, TailReqs
    <3>2. PICK j \in 1..Len(reqs) : j < i + 1 /\ SleepAt(j)
      BY <2>1, <2>4, <3>1 DEF SelectsAsleep
    <3>3. j - 1 < i
      BY <3>2
    <3> QED
      BY <2>3, <3>2, <3>3
  <2> QED
    BY <2>1, <2>3, <2>4 DEF SelectsAsleep, SleepPending
<1> QED
  BY <1>1, <1>2, <1>3, <1>4

LEMMA SelectsHandler ==
  ASSUME Shape, SelectsAsleep, TestStep \/ Wait
  PROVE  SelectsAsleep'
<1>1. /\ UNCHANGED <<rf, session, own, test>> /\ pc # "pull"
      /\ Stays \/ Listens \/ Asks \/ Ends \/ \E p : Goes(p)
  BY HandlerMoves
<1>2. reqs' = reqs \/ Sent
  BY <1>1 DEF Stays, Listens, Asks, Ends, Goes
<1> SUFFICES ASSUME rf = "active"
             PROVE  /\ \A i \in 1..Len(reqs') : reqs'[i].cmd = "SELECT" /\ reqs'[i].session = session =>
                         \E j \in 1..Len(reqs') : j < i /\ SleepAt(j)'
                    /\ own = session /\ (Awaits("SLEEP")' \/ Step("SELECT")') => SleepPending'
  BY <1>1 DEF SelectsAsleep
<1>3. ASSUME NEW j \in 1..Len(reqs), SleepAt(j)
      PROVE  j \in 1..Len(reqs') /\ SleepAt(j)'
  <2>1. CASE reqs' = reqs
    BY <1>1, <1>3, <2>1 DEF SleepAt
  <2>2. CASE Sent
    <3>1. j \in 1..Len(reqs') /\ reqs'[j] = reqs[j]
      BY <1>1, <2>2, AskedLast
    <3> QED
      BY <1>1, <1>3, <3>1 DEF SleepAt
  <2> QED
    BY <1>2, <2>1, <2>2
<1>4. SleepPending => SleepPending'
  BY <1>3 DEF SleepPending
<1>5. ASSUME NEW i \in 1..Len(reqs'), reqs'[i].cmd = "SELECT", reqs'[i].session = session
      PROVE  \E j \in 1..Len(reqs') : j < i /\ SleepAt(j)'
  <2>1. CASE i \in 1..Len(reqs) /\ reqs'[i] = reqs[i]
    <3>1. PICK j \in 1..Len(reqs) : j < i /\ SleepAt(j)
      BY <1>5, <2>1 DEF SelectsAsleep
    <3> QED
      BY <1>3, <3>1
  <2>2. CASE Sent /\ i = Len(reqs') /\ i \notin 1..Len(reqs)
    <3>1. /\ reqs'[i].cmd = Cmd /\ reqs'[i].session = own /\ Len(reqs') = Len(reqs) + 1 /\ Len(reqs) \in Nat
      BY <1>1, <2>2, AskedLast
    <3>2. Cmd = "SELECT" /\ own = session /\ reqs' # reqs
      BY <1>5, <3>1
    <3>3. Step("SELECT")
      BY <1>1, <3>2 DEF Stays, Listens, Asks, Ends, Goes, Step
    <3>4. PICK j \in 1..Len(reqs) : SleepAt(j)
      BY <3>2, <3>3 DEF SelectsAsleep, SleepPending
    <3>5. j < i
      BY <2>2, <3>1
    <3> QED
      BY <1>3, <3>4, <3>5
  <2> QED
    BY <1>1, <1>2, <2>1, <2>2, AskedLast
<1>6. ASSUME own = session, Awaits("SLEEP")' \/ Step("SELECT")'
      PROVE  SleepPending'
  <2>1. Awaits("SLEEP") \/ Step("SELECT") => SleepPending'
    BY <1>4, <1>6 DEF SelectsAsleep
  <2>2. CASE Stays
    <3>1. prog' = prog /\ Cmd' = Cmd /\ (pc' = pc \/ Cmd \notin {"SLEEP", "SELECT"})
      BY <2>2 DEF Stays, Cmd, Transceives
    <3> QED
      BY <1>6, <2>1, <3>1 DEF Awaits, Step
  <2>3. CASE Listens
    <3>1. Cmd' = "CE_RECEIVE"
      BY <2>3, DoCmd DEF Listens, Cmd
    <3> QED
      BY <1>6, <3>1 DEF Awaits, Step
  <2>4. CASE Asks
    <3>1. Cmd' = Cmd /\ pc' # "run" /\ Cmd = "SLEEP"
      BY <1>6, <2>4 DEF Asks, Cmd, Awaits, Step
    <3>2. /\ reqs'[Len(reqs')].cmd = "SLEEP" /\ reqs'[Len(reqs')].session = own
          /\ Len(reqs') \in 1..Len(reqs')
      BY <1>1, <2>4, <3>1, AskedLast DEF Asks
    <3> QED
      BY <1>1, <1>6, <3>2 DEF SleepPending, SleepAt
  <2>5. CASE Ends
    BY <1>6, <2>5 DEF Ends, Awaits, Step
  <2>6. CASE \E p : Goes(p)
    <3>1. PICK p : Goes(p)
      BY <2>6
    <3>2. Step("SELECT")' /\ p # <<>>
      BY <1>6, <3>1 DEF Goes, GoOn, Awaits, Step
    <3>3. Cmd = "SLEEP"
      BY <1>1, <3>1, <3>2, SleepEntered DEF Goes, Step
    <3>4. pc = "wait"
      BY <1>1, <3>1, <3>3 DEF Goes, Shape, ThreadShape, Transceives
    <3> QED
      BY <2>1, <3>3, <3>4 DEF Awaits
  <2> QED
    BY <1>1, <2>2, <2>3, <2>4, <2>5, <2>6
<1> QED
  BY <1>5, <1>6

LEMMA SelectsStep ==
  Shape /\ Arrivals /\ SelectsAsleep /\ [Next]_vars => SelectsAsleep'
<1> SUFFICES ASSUME Shape, Arrivals, SelectsAsleep, [Next]_vars PROVE SelectsAsleep'
  OBVIOUS
<1>1. ASSUME UNCHANGED <<rf, session, reqs, own, pc, Cmd>> PROVE SelectsAsleep'
  BY <1>1 DEF SelectsAsleep, SleepPending, SleepAt, Awaits, Step
<1>2. CASE Callback
  BY <1>1, <1>2, CallbackMoves DEF Cmd
<1>3. CASE UNCHANGED vars
  BY <1>1, <1>3 DEF vars, tagVars, dta, session, Cmd
<1>4. CASE CbMsgHandleThrd
  <2>1. CASE UNCHANGED <<own, pc, Cmd>>
    BY <1>1, <1>4, <2>1, HandleMoves
  <2>2. CASE pc' = "run" /\ Cmd' \notin {"SLEEP", "SELECT"}
    <3>1. UNCHANGED <<rf, session, reqs>>
      BY <1>4, HandleMoves
    <3> QED
      BY <2>2, <3>1 DEF SelectsAsleep, SleepPending, SleepAt, Awaits, Step
  <2> QED
    BY <1>4, <2>1, <2>2, HandleMoves
<1> QED
  BY <1>2, <1>3, <1>4, SelectsNfa, SelectsHandler DEF Next, DtaThread
-----------------------------------------------------------------------------
(* No test leaves its tag active: its release is still to come, is asked   *)
(* for, or the device was seen to have gone.                               *)

Excused(t) == (t.tag = "T1T" /\ ~t.cr12) \/ t.tag \in Dep

Held ==
  rf = "active" /\ ~astray /\ own = session /\ ~Excused(test) =>
    Coming \/ InReqs({"STOP", "DEACTIVATE", "SLEEP"}) \/ devState # "ACTIVE"

LEMMA DetourReleases ==
  ASSUME NEW t \in TestRecords, ~Excused(t), NEW p \in Detours(t), p # prog
  PROVE  p # <<>> /\ \E i \in 1..Len(p) : p[i].cmd \in {"STOP", "DEACTIVATE"}
<1>1. p \in {Restart, Release, Consuming, <<Do("XCV")>> \o Restart}
  <2>1. Ending(t) \in {Restart, Release, Consuming}
    BY EndingCases
  <2> QED
    BY <2>1 DEF Detours, Excused
<1>2. Len(<<>>) = 0
  OBVIOUS
<1>3. CASE p = Restart
  <2>1. Len(p) = 5 /\ p[1].cmd = "STOP"
    BY <1>3, RestartSteps, DoCmd
  <2> QED
    BY <1>2, <2>1
<1>4. CASE p = Release
  <2>1. Len(p) = 1 /\ p[1].cmd = "DEACTIVATE"
    BY <1>4, ReleaseSteps, DoCmd
  <2> QED
    BY <1>2, <2>1
<1>5. CASE p = Consuming
  <2>1. Len(p) = 2 /\ p[2].cmd = "DEACTIVATE"
    BY <1>5, ConsumingSteps, DoCmd
  <2> QED
    BY <1>2, <2>1
<1>6. CASE p = <<Do("XCV")>> \o Restart
  <2> DEFINE S == StepsOf({"XCV"} \cup RestartCmds)
             q == <<Do("XCV")>>
  <2>1. q \in Seq(S) /\ Restart \in Seq(S) /\ Len(q) = 1 /\ Len(Restart) = 5 /\ Restart[1] = Do("STOP")
    BY OneStep, CommandSet, RestartSteps, StepsMonotonic
  <2> HIDE DEF S, q
  <2>2. /\ Len(q \o Restart) = Len(q) + Len(Restart)
        /\ \A i \in 1..Len(Restart) : (q \o Restart)[Len(q) + i] = Restart[i]
    <3>1. q \in Seq(S) /\ Restart \in Seq(S)
      BY <2>1
    <3> QED
      BY <3>1, ConcatOf
  <2>3. Len(q \o Restart) = 6 /\ (q \o Restart)[1 + 1] = Restart[1]
    <3>1. 1 \in 1..Len(Restart)
      BY <2>1
    <3> QED
      BY <2>1, <2>2, <3>1
  <2>4. p = q \o Restart
    BY <1>6 DEF q
  <2>5. Len(p) = 6 /\ p[2].cmd = "STOP"
    BY <2>1, <2>3, <2>4, DoCmd
  <2> QED
    BY <1>2, <2>5
<1> QED
  BY <1>1, <1>3, <1>4, <1>5, <1>6

LEMMA HeldNfa ==
  ASSUME Shape, Held, Nfa
  PROVE  Held'
<1>1. /\ UNCHANGED <<pc, prog, own, devState>>
      /\ NewActivation \/ (UNCHANGED <<session, test>> /\ (Leaves \/ Processes))
  BY NfaMoves
<1>2. Coming' = Coming
  BY <1>1 DEF Coming
<1>3. CASE NewActivation
  <2>1. own \in 0..session /\ session \in Nat /\ session' = session + 1
    BY <1>3, SessionType DEF NewActivation, Shape, ThreadShape
  <2>2. own' # session'
    BY <1>1, <2>1
  <2> QED
    BY <2>2 DEF Held
<1>4. CASE Leaves
  BY <1>4 DEF Leaves, Held
<1>5. CASE UNCHANGED <<session, test>> /\ Processes
  <2> SUFFICES ASSUME rf' = "active", ~astray'
               PROVE  /\ rf = "active" /\ ~astray
                      /\ InReqs({"STOP", "DEACTIVATE", "SLEEP"}) => InReqs({"STOP", "DEACTIVATE", "SLEEP"})'
    BY <1>1, <1>2, <1>5 DEF Held, Excused
  <2>1. rf = "active" /\ Head(reqs).cmd \notin {"STOP", "DEACTIVATE", "SLEEP"}
    BY <1>5 DEF Processes, Commanded, Slept, Deactivated, NotSelected, Stopped, Restarted,
                TagCommands, Transceives
  <2>2. ~astray
    BY <1>5, Zenon DEF Processes, Commanded, Slept, Deactivated, NotSelected, Stopped, Restarted
  <2> QED
    BY <1>5, <2>1, <2>2, InReqsTail DEF Processes
<1> QED
  BY <1>1, <1>3, <1>4, <1>5

LEMMA HeldCallback ==
  ASSUME Shape, Arrivals, ReportedState, Held, Callback
  PROVE  Held'
<1>1. /\ UNCHANGED <<rf, tests, session, reqs, pc, prog, own>> /\ out # <<>>
      /\ Len(out) \in Nat \ {0}
  BY CallbackMoves
<1>2. astray' = astray
  BY DEF Callback, NotifyState, PushMw, EvtCb, CbFrame, tagVars
<1>3. Coming' = Coming /\ test' = test
  BY <1>1 DEF Coming, test
<1>4. CASE devState' = devState
  BY <1>1, <1>2, <1>3, <1>4 DEF Held, Excused, InReqs
<1>5. CASE devState' = DeviceState(out[1])
  <2>1. CASE out[1].kind \in {"ACTIVATED", "SELECT_RESULT"}
    <3> SUFFICES ASSUME rf = "active", ~astray PROVE own < session
      <4>1. session \in Nat /\ own \in 0..session
        BY SessionType DEF Shape, ThreadShape
      <4> QED
        BY <1>1, <1>2, <4>1 DEF Held
    <3>1. PICK i \in 1..Len(out) : Activates(out, i)
      BY <1>1, <2>1 DEF ReportedState, Activates
    <3> QED
      BY <3>1 DEF Arrivals, Latest
  <2>2. CASE out[1].kind \notin {"ACTIVATED", "SELECT_RESULT"}
    <3>1. devState' = devState \/ devState' # "ACTIVE"
      BY <1>5, <2>2 DEF DeviceState
    <3> QED
      BY <1>4, <3>1 DEF Held
  <2> QED
    BY <2>1, <2>2
<1> QED
  BY <1>4, <1>5, CallbackMoves

(* A loopback that ends by putting its peer to sleep has only the release  *)
(* and the restart before it.                                              *)
LEMMA DepSleeps ==
  ASSUME Shape, pc # "pull", test.tag \in Dep, IsSuffix(prog, Sleeps \o Restart)
  PROVE  /\ Cmd \in {"SLEEP", "DEACTIVATE"} \cup RestartCmds
         /\ IsSuffix(Tail(prog), Sleeps \o Restart)
         /\ Cmd = "DEACTIVATE" => /\ Len(Tail(prog)) = 5 /\ Tail(prog) # <<>>
                                 /\ Tail(prog)[1].cmd = "STOP"
<1>1. test \in TestRecords /\ prog # <<>> /\ ProgFits(test, prog)
  BY Running
<1>2. /\ Cmd = prog[1].cmd /\ Len(prog) \in Nat \ {0} /\ Len(Tail(prog)) = Len(prog) - 1
      /\ \A i \in 1..Len(Tail(prog)) : Tail(prog)[i] = prog[i + 1]
  BY <1>1, NextStep
<1> DEFINE q == Sleeps \o Restart
<1>3. /\ Len(q) = 7 /\ q[1].cmd = "SLEEP" /\ q[2].cmd = "DEACTIVATE" /\ q[3].cmd = "STOP"
      /\ q[4].cmd = "CONFIG" /\ q[5].cmd = "CONFIG" /\ q[6].cmd = "START" /\ q[7].cmd = "STARTED"
  <2>1. q[3] = Restart[1] /\ q[4] = Restart[2] /\ q[5] = Restart[3] /\ q[6] = Restart[4] /\ q[7] = Restart[5]
    BY SleepsRestartSteps
  <2> QED
    BY <2>1, SleepsRestartSteps, RestartSteps, DoCmd
<1>4. IsSuffix(prog, q)
  OBVIOUS
<1> HIDE DEF q
<1>5. Len(prog) <= 7 /\ \A i \in 1..Len(prog) : prog[i] = q[i + 7 - Len(prog)]
  BY <1>3, <1>4 DEF IsSuffix
<1>6. Len(prog) \in 1..7 /\ prog[1] = q[8 - Len(prog)]
  <2>1. \A n \in Nat \ {0} : n <= 7 => n \in 1..7 /\ 1 \in 1..n /\ 1 + 7 - n = 8 - n
    OBVIOUS
  <2>2. Len(prog) \in 1..7 /\ 1 \in 1..Len(prog) /\ 1 + 7 - Len(prog) = 8 - Len(prog)
    BY <1>2, <1>5, <2>1
  <2> QED
    BY <1>5, <2>2
<1>7. Cmd \in {"SLEEP", "DEACTIVATE"} \cup RestartCmds /\ (Cmd = "DEACTIVATE" => Len(prog) = 6)
  <2>1. \A n \in 1..7 : /\ q[8 - n].cmd \in {"SLEEP", "DEACTIVATE"} \cup RestartCmds
                        /\ q[8 - n].cmd = "DEACTIVATE" => n = 6
    <3> SUFFICES ASSUME NEW n \in 1..7
                 PROVE  /\ q[8 - n].cmd \in {"SLEEP", "DEACTIVATE"} \cup RestartCmds
                        /\ q[8 - n].cmd = "DEACTIVATE" => n = 6
      OBVIOUS
    <3>1. n \in {1, 2, 3, 4, 5, 6, 7}
      OBVIOUS
    <3> QED
      BY <1>3, <3>1 DEF RestartCmds
  <2> QED
    BY <1>2, <1>6, <2>1
<1>8. IsSuffix(Tail(prog), q)
  <2>1. Len(Tail(prog)) <= 7
    BY <1>2, <1>6
  <2>2. ASSUME NEW i \in 1..Len(Tail(prog)) PROVE Tail(prog)[i] = q[i + 7 - Len(Tail(prog))]
    <3>1. i + 1 \in 1..Len(prog) /\ (i + 1) + 7 - Len(prog) = i + 7 - Len(Tail(prog))
      BY <1>2
    <3>2. Tail(prog)[i] = prog[i + 1]
      BY <1>2
    <3> QED
      BY <1>5, <3>1, <3>2
  <2> QED
    BY <1>3, <2>1, <2>2 DEF IsSuffix
<1>9. ASSUME Cmd = "DEACTIVATE"
      PROVE  Len(Tail(prog)) = 5 /\ Tail(prog) # <<>> /\ Tail(prog)[1].cmd = "STOP"
  <2>1. Len(prog) = 6 /\ Len(Tail(prog)) = 5
    <3>1. Len(prog) = 6
      BY <1>7, <1>9, Zenon
    <3> QED
      BY <1>2, <3>1
  <2>2. Tail(prog)[1] = prog[2] /\ prog[2] = q[3]
    <3>1. 1 \in 1..Len(Tail(prog)) /\ 2 \in 1..Len(prog) /\ 2 + 7 - Len(prog) = 3
      BY <2>1
    <3>2. Tail(prog)[1] = prog[1 + 1]
      BY <1>2, <3>1
    <3> QED
      BY <1>5, <3>1, <3>2
  <2>3. Len(<<>>) = 0
    OBVIOUS
  <2>4. Tail(prog) # <<>>
    <3>1. Tail(prog) = <<>> => Len(Tail(prog)) = Len(<<>>)
      BY Zenon
    <3> QED
      BY <2>1, <2>3, <3>1
  <2> QED
    BY <1>3, <2>1, <2>2, <2>4
<1> QED
  BY <1>7, <1>8, <1>9 DEF q

(* The release stays to come until it is asked for, or the device says that*)
(* there is nothing to release.                                            *)
LEMMA ComingKept ==
  ASSUME Shape, TestStep \/ Wait, Coming,
         ~Excused(test) \/ (test.tag \in Dep /\ IsSuffix(prog, Sleeps \o Restart))
  PROVE  \/ Coming'
         \/ /\ InReqs({"STOP", "DEACTIVATE"})'
            /\ \A i \in 1..Len(reqs) : Behind(i, {"STOP", "DEACTIVATE"})'
         \/ Step("DEACTIVATE") /\ devState = "DISC" /\ devState' = "DISC" /\ test.tag \notin Dep
         \/ Step("STOP") /\ devState = "IDLE" /\ devState' = "IDLE"
<1>1. /\ pc # "pull" /\ prog # <<>> /\ test \in TestRecords /\ ProgFits(test, prog)
      /\ Stays \/ Listens \/ Asks \/ Ends \/ \E p : Goes(p)
  BY HandlerMoves
<1>2. /\ Cmd = prog[1].cmd /\ Len(prog) \in Nat \ {0} /\ Len(Tail(prog)) = Len(prog) - 1
      /\ \A i \in 1..Len(Tail(prog)) : Tail(prog)[i] = prog[i + 1]
  BY <1>1, NextStep
<1>3. PICK i \in 1..Len(prog) : prog[i].cmd \in {"STOP", "DEACTIVATE"} /\ (i = 1 => pc = "run")
  BY DEF Coming
<1>4. CASE Stays
  <2>1. prog' = prog /\ (pc' = pc \/ Cmd \notin {"STOP", "DEACTIVATE"})
    BY <1>4 DEF Stays, Transceives
  <2> QED
    BY <1>2, <1>3, <2>1 DEF Coming
<1>5. CASE Listens
  BY <1>1, <1>5, SleepSteps, DepSleeps DEF Listens, Excused, RestartCmds
<1>6. CASE Asks
  <2>1. CASE Cmd \in {"STOP", "DEACTIVATE"}
    BY <1>1, <1>6, <2>1, InReqsAsked DEF Asks
  <2>2. CASE Cmd \notin {"STOP", "DEACTIVATE"}
    BY <1>2, <1>3, <1>6, <2>2 DEF Asks, Coming
  <2> QED
    BY <2>1, <2>2
<1>7. CASE Ends
  <2>1. Len(prog) = 1 /\ Cmd = "STARTED"
    BY <1>1, <1>7, RestartOrder DEF Ends
  <2>2. i = 1
    BY <1>3, <2>1
  <2> QED
    BY <1>2, <1>3, <2>1, <2>2
<1>8. CASE \E p : Goes(p)
  <2>1. PICK p : Goes(p)
    BY <1>8
  <2>2. prog' = p /\ (p # <<>> => pc' = "run") /\ devState' = devState
    BY <2>1 DEF Goes, GoOn
  <2>3. \/ p = Tail(prog)
        \/ p = <<>> /\ Cmd = "START"
        \/ p \in Detours(test) /\ Cmd \notin {"SLEEP", "DEACTIVATE"} \cup RestartCmds
    BY <1>1, <2>1, Follows DEF Goes, Follower
  <2>4. CASE p = Tail(prog) /\ i = 1
    <3>1. \/ Step("DEACTIVATE") /\ devState = "DISC"
          \/ Step("STOP") /\ devState = "IDLE"
      BY <1>2, <1>3, <2>1, <2>4 DEF Goes, Transceives, Step
    <3>2. CASE Step("DEACTIVATE") /\ test.tag \in Dep
      <4>1. Len(p) = 5 /\ p # <<>> /\ p[1].cmd = "STOP"
        BY <1>1, <2>4, <3>2, DepSleeps DEF Excused, Step
      <4> QED
        BY <2>2, <4>1 DEF Coming
    <3> QED
      BY <2>2, <3>1, <3>2
  <2>5. CASE p = Tail(prog) /\ i # 1
    <3>1. i - 1 \in 1..Len(p) /\ p[i - 1] = prog[i]
      <4>1. i - 1 \in 1..Len(p) /\ (i - 1) + 1 = i
        BY <1>2, <2>5
      <4> QED
        BY <1>2, <2>5, <4>1
    <3>2. p # <<>>
      <4>1. Len(<<>>) = 0
        OBVIOUS
      <4> QED
        BY <3>1, <4>1
    <3> QED
      BY <1>3, <2>2, <3>1, <3>2 DEF Coming
  <2>6. CASE Cmd = "START"
    <3>1. Len(prog) = 2 /\ prog[i] = Restart[i - 2 + 5]
      BY <1>1, <1>3, <2>6, RestartOrder DEF RestartCmds
    <3>2. i \in {1, 2}
      BY <3>1
    <3>3. prog[i].cmd \in {"START", "STARTED"}
      BY <3>1, <3>2, RestartSteps, DoCmd
    <3> QED
      BY <1>3, <3>3
  <2>7. CASE p \in Detours(test) /\ Cmd \notin {"SLEEP", "DEACTIVATE"} \cup RestartCmds
    <3>1. ~Excused(test)
      BY <1>1, <2>7, DepSleeps
    <3>2. CASE p = prog
      BY <1>1, <1>3, <2>2, <3>2 DEF Coming
    <3>3. CASE p # prog
      BY <1>1, <2>2, <2>7, <3>1, <3>3, DetourReleases DEF Coming
    <3> QED
      BY <3>2, <3>3
  <2> QED
    BY <2>3, <2>4, <2>5, <2>6, <2>7
<1> QED
  BY <1>1, <1>4, <1>5, <1>6, <1>7, <1>8

LEMMA HeldHandler ==
  ASSUME Shape, Held, TestStep \/ Wait
  PROVE  Held'
<1>1. /\ UNCHANGED <<rf, session, astray, own, test>> /\ pc # "pull"
      /\ Stays \/ Listens \/ Asks \/ Ends \/ \E p : Goes(p)
  BY HandlerMoves
<1>2. reqs' = reqs \/ Sent
  BY <1>1 DEF Stays, Listens, Asks, Ends, Goes
<1>3. InReqs({"STOP", "DEACTIVATE", "SLEEP"}) => InReqs({"STOP", "DEACTIVATE", "SLEEP"})'
  <2>1. CASE reqs' = reqs
    BY <2>1 DEF InReqs
  <2> QED
    BY <1>1, <1>2, <2>1, InReqsAsked
<1>4. devState' \in {devState, "DISC"}
  BY <1>1 DEF Stays, Listens, Asks, Ends, Goes
<1>5. InReqs({"STOP", "DEACTIVATE"})' => InReqs({"STOP", "DEACTIVATE", "SLEEP"})'
  BY DEF InReqs
<1>6. Coming /\ ~Excused(test) => \/ Coming' \/ InReqs({"STOP", "DEACTIVATE", "SLEEP"})'
                                \/ devState' # "ACTIVE"
  BY <1>5, ComingKept
<1> QED
  BY <1>1, <1>3, <1>4, <1>6 DEF Held, Excused

LEMMA HeldStep ==
  Shape /\ Arrivals /\ ReportedState /\ Held /\ [Next]_vars => Held'
<1> SUFFICES ASSUME Shape, Arrivals, ReportedState, Held, [Next]_vars PROVE Held'
  OBVIOUS
<1>1. ASSUME UNCHANGED <<rf, astray, session, reqs, own, pc, prog, test, devState>> PROVE Held'
  BY <1>1 DEF Held, Coming, InReqs, Excused
<1>2. CASE UNCHANGED vars
  BY <1>1, <1>2 DEF vars, tagVars, dta, mwif, session, test
<1>3. CASE CbMsgHandleThrd
  <2>1. UNCHANGED <<rf, astray, session, reqs, devState>>
    BY <1>3, HandleMoves
  <2>2. CASE UNCHANGED <<own, pc, prog, test>>
    BY <1>1, <2>1, <2>2
  <2> QED
    BY <1>3, <2>2, HandleMoves DEF Held
<1> QED
  BY <1>2, <1>3, HeldNfa, HeldCallback, HeldHandler DEF Next, DtaThread
-----------------------------------------------------------------------------
(* A tag is asleep, or about to be, for its own test only.                 *)

Drowsy == ~astray /\ (rf = "sleep" \/ (rf = "active" /\ SleepPending))

OwnSleep ==
  Drowsy => /\ own = session /\ own > 0 /\ test.tag \in Dep \cup {"T5T"}
            /\ test.tag \in Dep => IsSuffix(prog, Sleeps \o Restart)

LEMMA NewActivationRequests ==
  ASSUME Shape, Arrivals, Nfa, NewActivation
  PROVE  /\ own' = own /\ own' < session' /\ rf' = "active"
         /\ \A i \in 1..Len(reqs') : reqs'[i].session < session'
         /\ ~SleepPending'
<1>1. own' = own
  BY NfaMoves
<1>2. SentByPast' /\ own \in 0..session /\ session \in Nat /\ session' = session + 1
  BY <1>1, SentByPastTail, SessionType DEF Arrivals, NewActivation, Shape, ThreadShape
<1>3. own' < session'
  BY <1>1, <1>2
<1>4. Shape'
  BY ShapeStep DEF Next
<1>5. ASSUME NEW i \in 1..Len(reqs') PROVE reqs'[i].session < session'
  <2>1. reqs'[i].session <= own'
    BY <1>2 DEF SentByPast
  <2>2. reqs'[i].session \in Nat
    <3>1. reqs' \in Seq(Sendable')
      BY <1>4 DEF Shape, QueueShape
    <3>2. reqs'[i] \in Sendable'
      BY <3>1
    <3> QED
      BY <3>2 DEF Sendable
  <2> QED
    BY <1>1, <1>2, <2>1, <2>2
<1>6. ~SleepPending'
  <2> SUFFICES ASSUME NEW i \in 1..Len(reqs'), reqs'[i].session = session' PROVE FALSE
    BY DEF SleepPending, SleepAt
  <2>1. reqs'[i].session < session'
    BY <1>5
  <2> QED
    BY <1>2, <2>1
<1> QED
  BY <1>1, <1>3, <1>5, <1>6 DEF NewActivation

(* The tag that is put to sleep is the one whose test asked for it.        *)
LEMMA DrowsyNfa ==
  ASSUME Shape, Arrivals, Nfa, Drowsy'
  PROVE  /\ Drowsy /\ ~astray /\ ~astray' /\ UNCHANGED <<session, test, own, prog, pc, Cmd, mwq, devState>>
         /\ Processes /\ reqs # <<>> /\ reqs' = Tail(reqs) /\ Head(reqs) = reqs[1] /\ 1 \in 1..Len(reqs)
         /\ \/ rf' = "sleep" /\ rf = "sleep" /\ Head(reqs).cmd \notin {"STOP", "DEACTIVATE"}
            \/ rf' = "sleep" /\ rf = "active" /\ SleepAt(1) /\ Slept
            \/ /\ rf' = "active" /\ rf = "active" /\ Head(reqs).cmd \notin {"STOP", "DEACTIVATE", "SLEEP"}
               /\ \A i \in 1..Len(reqs') : SleepAt(i)' => SleepAt(i + 1)
<1>1. /\ UNCHANGED <<pc, prog, own, Cmd, mwq, devState>>
      /\ NewActivation \/ (UNCHANGED <<session, test>> /\ (Leaves \/ Processes))
  BY NfaMoves
<1>2. ~NewActivation
  BY NewActivationRequests DEF Drowsy
<1>3. ~Leaves
  BY DEF Leaves, Drowsy
<1>4. Processes /\ UNCHANGED <<session, test>>
  BY <1>1, <1>2, <1>3
<1>5. /\ reqs # <<>> /\ reqs' = Tail(reqs) /\ Head(reqs) = reqs[1] /\ 1 \in 1..Len(reqs)
  BY <1>4, TailRequests DEF Processes
<1>6. ~astray'
  BY DEF Drowsy
<1>7. ~astray
  BY <1>4, <1>6, Zenon DEF Processes, Commanded, Slept, Deactivated, NotSelected, Stopped, Restarted
<1>8. rf' \in {"active", "sleep"}
  BY DEF Drowsy
<1>9. \A i \in 1..Len(reqs') : SleepAt(i)' => i + 1 \in 1..Len(reqs) /\ SleepAt(i + 1)
  BY <1>4, <1>5, TailReqs DEF SleepAt
<1>10. CASE rf' = "active"
  <2>1. rf = "active" /\ Head(reqs).cmd \notin {"STOP", "DEACTIVATE", "SLEEP"}
    BY <1>4, <1>10 DEF Processes, Commanded, Slept, Deactivated, NotSelected, Stopped, Restarted,
                       TagCommands, Transceives
  <2>2. SleepPending
    <3>1. SleepPending'
      BY <1>10 DEF Drowsy
    <3>2. PICK i \in 1..Len(reqs') : SleepAt(i)'
      BY <3>1 DEF SleepPending
    <3> QED
      BY <1>9, <3>2 DEF SleepPending
  <2> QED
    BY <1>1, <1>4, <1>5, <1>6, <1>7, <1>9, <1>10, <2>1, <2>2 DEF Drowsy
<1>11. CASE rf' = "sleep"
  <2>1. \/ rf = "sleep" /\ Head(reqs).cmd \notin {"STOP", "DEACTIVATE"}
        \/ rf = "active" /\ Slept
    BY <1>4, <1>11 DEF Processes, Commanded, Slept, Deactivated, NotSelected, Stopped, Restarted,
                       TagCommands, Transceives
  <2>2. CASE rf = "sleep" /\ Head(reqs).cmd \notin {"STOP", "DEACTIVATE"}
    BY <1>1, <1>4, <1>5, <1>6, <1>7, <1>11, <2>2 DEF Drowsy
  <2>3. CASE rf = "active" /\ Slept
    <3>1. ~OfAnother /\ Head(reqs).cmd = "SLEEP"
      BY <1>6, <2>3 DEF Slept
    <3>2. SleepAt(1)
      BY <1>5, <3>1 DEF OfAnother, SleepAt
    <3>3. Drowsy
      BY <1>5, <1>7, <2>3, <3>2 DEF Drowsy, SleepPending
    <3> QED
      BY <1>1, <1>4, <1>5, <1>6, <1>7, <1>11, <2>3, <3>2, <3>3
  <2> QED
    BY <2>1, <2>2, <2>3
<1> QED
  BY <1>8, <1>10, <1>11

LEMMA OwnSleepNfa ==
  ASSUME Shape, Arrivals, OwnSleep, Nfa
  PROVE  OwnSleep'
<1> SUFFICES ASSUME Drowsy' PROVE OwnSleep'
  BY DEF OwnSleep
<1>1. Drowsy /\ UNCHANGED <<session, test, own, prog>>
  BY DrowsyNfa
<1> QED
  BY <1>1 DEF OwnSleep

LEMMA SleepSent ==
  ASSUME Shape, TestStep \/ Wait
  PROVE  \A i \in 1..Len(reqs') : SleepAt(i)' =>
           \/ i \in 1..Len(reqs) /\ SleepAt(i)
           \/ Asks /\ Cmd = "SLEEP" /\ own = session /\ i = Len(reqs')
<1>1. /\ UNCHANGED <<session, own>> /\ pc # "pull"
      /\ Stays \/ Listens \/ Asks \/ Ends \/ \E p : Goes(p)
  BY HandlerMoves
<1> SUFFICES ASSUME NEW i \in 1..Len(reqs'), SleepAt(i)'
             PROVE  \/ i \in 1..Len(reqs) /\ SleepAt(i)
                    \/ Asks /\ Cmd = "SLEEP" /\ own = session /\ i = Len(reqs')
  OBVIOUS
<1>2. CASE reqs' = reqs
  BY <1>1, <1>2 DEF SleepAt
<1>3. CASE Sent /\ (Asks \/ Cmd = "RAW")
  <2>1. /\ i \in 1..Len(reqs) => reqs'[i] = reqs[i]
        /\ i \in 1..Len(reqs) \/ i = Len(reqs')
        /\ reqs'[Len(reqs')].cmd = Cmd /\ reqs'[Len(reqs')].session = own
    BY <1>1, <1>3, AskedLast
  <2> QED
    BY <1>1, <1>3, <2>1 DEF SleepAt
<1> QED
  BY <1>1, <1>2, <1>3 DEF Stays, Listens, Asks, Ends, Goes

LEMMA OwnSleepHandler ==
  ASSUME Shape, OwnSleep, TestStep \/ Wait
  PROVE  OwnSleep'
<1>1. /\ UNCHANGED <<rf, session, astray, own, test>> /\ pc # "pull" /\ own > 0
      /\ test \in TestRecords /\ prog # <<>> /\ ProgFits(test, prog)
      /\ Stays \/ Listens \/ Asks \/ Ends \/ \E p : Goes(p)
  BY HandlerMoves
<1> SUFFICES ASSUME Drowsy' PROVE OwnSleep'
  BY DEF OwnSleep
<1>2. Drowsy \/ (Asks /\ Cmd = "SLEEP" /\ own = session)
  BY <1>1, SleepSent DEF Drowsy, SleepPending
<1>3. CASE Asks /\ Cmd = "SLEEP" /\ own = session
  <2>1. test.tag \in Dep \cup {"T5T"} /\ (test.tag \in Dep => prog = Sleeps \o Restart)
    BY <1>1, <1>3, SleepSteps
  <2>2. IsSuffix(Sleeps \o Restart, Sleeps \o Restart)
    <3> DEFINE q == Sleeps \o Restart
    <3>1. Len(q) = 7
      BY SleepsRestartSteps
    <3> HIDE DEF q
    <3>2. IsSuffix(q, q)
      BY <3>1 DEF IsSuffix
    <3> QED
      BY <3>2 DEF q
  <2>3. prog' = prog
    BY <1>3 DEF Asks
  <2> QED
    BY <1>1, <1>3, <2>1, <2>2, <2>3 DEF OwnSleep
<1>4. CASE Drowsy
  <2>1. /\ own = session /\ test.tag \in Dep \cup {"T5T"}
        /\ test.tag \in Dep => IsSuffix(prog, Sleeps \o Restart)
    BY <1>4 DEF OwnSleep
  <2> SUFFICES ASSUME test.tag \in Dep PROVE IsSuffix(prog', Sleeps \o Restart)
    BY <1>1, <2>1 DEF OwnSleep
  <2>2. Cmd \in {"SLEEP", "DEACTIVATE"} \cup RestartCmds /\ IsSuffix(Tail(prog), Sleeps \o Restart)
    BY <1>1, <2>1, DepSleeps
  <2>3. IsSuffix(<<>>, Sleeps \o Restart)
    <3>1. Len(<<>>) = 0 /\ Len(Sleeps \o Restart) = 7
      BY SleepsRestartSteps
    <3> QED
      BY <3>1 DEF IsSuffix
  <2>4. prog' \in {prog, Tail(prog), <<>>}
    <3>1. CASE \E p : Goes(p)
      <4>1. PICK p : Goes(p)
        BY <3>1
      <4>2. p \in {Tail(prog), <<>>}
        BY <1>1, <2>2, <4>1, Follows DEF Goes, Follower
      <4> QED
        BY <4>1, <4>2 DEF Goes, GoOn
    <3> QED
      BY <1>1, <2>2, <3>1 DEF Stays, Listens, Asks, Ends, RestartCmds
  <2> QED
    BY <2>1, <2>2, <2>3, <2>4
<1> QED
  BY <1>2, <1>3, <1>4

LEMMA OwnSleepStep ==
  Shape /\ Arrivals /\ OwnSleep /\ [Next]_vars => OwnSleep'
<1> SUFFICES ASSUME Shape, Arrivals, OwnSleep, [Next]_vars PROVE OwnSleep'
  OBVIOUS
<1>1. ASSUME UNCHANGED <<rf, astray, session, reqs, own, prog, test>> PROVE OwnSleep'
  BY <1>1 DEF OwnSleep, Drowsy, SleepPending, SleepAt
<1>2. CASE UNCHANGED vars
  BY <1>1, <1>2 DEF vars, tagVars, dta, session, test
<1>3. CASE Callback
  <2>1. UNCHANGED <<rf, tests, session, reqs, prog, own>>
    BY <1>3, CallbackMoves
  <2>2. astray' = astray
    BY <1>3 DEF Callback, NotifyState, PushMw, EvtCb, CbFrame, tagVars
  <2> QED
    BY <1>1, <2>1, <2>2 DEF test
<1>4. CASE CbMsgHandleThrd
  <2>1. UNCHANGED <<rf, tests, astray, session, reqs>>
    BY <1>4, HandleMoves
  <2>2. CASE UNCHANGED <<own, prog, test>>
    BY <1>1, <2>1, <2>2
  <2>3. CASE own < own' /\ own' \in 1..session
    <3>1. own # session
      <4>1. own \in 0..session /\ session \in Nat
        BY SessionType DEF Shape, ThreadShape
      <4> QED
        BY <2>3, <4>1
    <3>2. Drowsy' = Drowsy
      BY <2>1 DEF Drowsy, SleepPending, SleepAt
    <3> QED
      BY <3>1, <3>2 DEF OwnSleep
  <2> QED
    BY <1>4, <2>2, <2>3, HandleMoves
<1> QED
  BY <1>2, <1>3, <1>4, OwnSleepNfa, OwnSleepHandler DEF Next, DtaThread
-----------------------------------------------------------------------------
(* The race of phMwIf_EnableDiscovery: a tag is active, or asleep, and     *)
(* eDeviceState says that there is none.                                   *)

Noted == \A i \in 1..Len(out) : Activates(out, i) => stage = "dtaq"
Race == ~late /\ rf \in {"active", "sleep"} /\ devState = "DISC" /\ Noted

IsD(e) == e.kind = "DEACTIVATED"
NoD(q) == \A i \in 1..Len(q) : ~IsD(q[i])

SleepPhase ==
  \/ /\ rf = "active" /\ reqs # <<>> /\ SleepAt(Len(reqs)) /\ NoD(mwq) /\ NoD(out)
     /\ \A i \in 1..(Len(reqs) - 1) : ~SleepAt(i)
  \/ /\ rf = "sleep" /\ reqs = <<>> /\ stage \in {"new", "mwq"}
     /\ out # <<>> /\ IsD(out[1]) /\ NoD(mwq)
  \/ /\ rf = "sleep" /\ reqs = <<>> /\ stage \in {"dtaq", "idle"} /\ ~NoD(mwq)
     /\ \A i, j \in 1..Len(mwq) : IsD(mwq[i]) /\ IsD(mwq[j]) => i = j
SelectPhase ==
  /\ rf = "sleep" /\ NoD(mwq) /\ (stage \in {"new", "mwq"} => NoD(out))
  /\ \/ pc = "run" /\ reqs = <<>>
     \/ pc = "wait" /\ Len(reqs) = 1 /\ reqs[1].cmd = "SELECT"
     \/ pc = "wait" /\ reqs = <<>> /\ stage = "new" /\ out # <<>> /\ out[1].kind = "SELECT_RESULT"

(* What the queue holds, of the tags before and of this one.               *)
RaceQueue ==
  /\ \A i \in 1..Len(mwq) : mwq[i].kind \notin {"SELECT_RESULT", "INTF_ERROR"}
  /\ \A i \in 1..Len(out) : out[i].kind = "SELECT_RESULT" => stage = "new"
RaceOrder ==
  /\ own < session => \A i \in 1..Len(mwq) : IsD(mwq[i]) => mwq[i].detail # "SLEEP"
  /\ \A i, j \in 1..Len(mwq) :
       i < j /\ mwq[i].kind = "I93_CMD_CPLT" /\ IsD(mwq[j]) => mwq[j].detail = "SLEEP"
RaceSleep ==
  /\ SleepPending \/ rf = "sleep" \/ (\E i \in 1..Len(mwq) : IsD(mwq[i]) /\ mwq[i].detail = "SLEEP")
       => Awaits("SLEEP") \/ At("SELECT")
  /\ Step("SLEEP") => rf = "active" /\ NoD(mwq)
  /\ Awaits("SLEEP") => SleepPhase
  /\ At("SELECT") => SelectPhase

Racing ==
  Race => /\ RaceQueue
          /\ ~astray /\ tests[session].tag = "T5T" => RaceOrder /\ (own = session => RaceSleep)

LEMMA WaitOnly ==
  ASSUME Shape, TestStep \/ Wait, pc = "wait"
  PROVE  Wait
BY DEF TestStep, Disconnected, DeactivatedAlready, StopIdle, EnableDiscovery, ConsumeDeactivated,
       ReceiveData, Send, SendRawFrame, Transceive, TransceiveSent, Step

(* The queue loses events at its front only.                               *)
LEMMA QueueShrinks ==
  ASSUME Shape, DtaThread
  PROVE  /\ Len(mwq) \in Nat /\ Len(mwq') \in Nat
         /\ \E d \in Nat : \A i \in 1..Len(mwq') : i + d \in 1..Len(mwq) /\ mwq'[i] = mwq[i + d]
<1>1. mwq \in Seq(Past) /\ Len(mwq) \in Nat
  BY DEF Shape, QueueShape
<1>2. CASE mwq' = mwq
  <2>1. \A i \in 1..Len(mwq') : i + 0 \in 1..Len(mwq) /\ mwq'[i] = mwq[i + 0]
    BY <1>1, <1>2
  <2> QED
    BY <1>1, <1>2, <2>1
<1>3. CASE mwq' = <<>>
  <2>1. Len(mwq') = 0
    BY <1>3
  <2>2. \A i \in 1..Len(mwq') : i + 0 \in 1..Len(mwq) /\ mwq'[i] = mwq[i + 0]
    BY <2>1
  <2> QED
    BY <1>1, <2>1, <2>2
<1>4. CASE mwq # <<>> /\ mwq' = Tail(mwq)
  <2>1. /\ Len(mwq) \in Nat \ {0} /\ Len(mwq') = Len(mwq) - 1
        /\ \A i \in 1..Len(mwq') : i + 1 \in 1..Len(mwq) /\ mwq'[i] = mwq[i + 1]
    BY <1>1, <1>4, TailOf
  <2>2. Len(mwq') \in Nat
    BY <2>1
  <2>3. 1 \in Nat
    OBVIOUS
  <2> QED
    BY <2>1, <2>2, <2>3, Zenon
<1> QED
  BY <1>2, <1>3, <1>4, ThreadKeeps

(* A race begins only where phMwIf_EnableDiscovery ends.                   *)
LEMMA RaceBegins ==
  ASSUME Shape, Arrivals, ReportedState, [Next]_vars, Race'
  PROVE  /\ Race \/ (pc = "run" /\ EnableDiscovery)
         /\ ~late /\ UNCHANGED <<tests, session>> /\ ~(Nfa /\ NewActivation)
         /\ rf \in {"active", "sleep"} /\ (rf' # rf => Nfa)
<1>1. ~late' /\ rf' \in {"active", "sleep"} /\ devState' = "DISC" /\ Noted'
  BY DEF Race
<1>0. UNCHANGED session => ~NewActivation
  <2>1. session \in Nat
    BY SessionType DEF Shape
  <2> QED
    BY <2>1 DEF NewActivation
<1>2. CASE UNCHANGED vars
  <2>1. UNCHANGED <<tests, session, rf, late, devState, out, stage>>
    BY <1>2 DEF vars, tagVars, cbVars, mwif, dta, session
  <2> QED
    BY <1>0, <1>1, <2>1 DEF Race, Noted, Activates
<1>3. CASE Nfa
  <2>1. UNCHANGED <<devState, late>> /\ out = <<>>
        /\ (NewActivation \/ (UNCHANGED <<tests, session>> /\ (Leaves \/ Processes)))
    BY <1>3, NfaMoves
  <2>2. ~NewActivation
    BY <1>1 DEF NewActivation, Noted
  <2>3. rf \in {"active", "sleep"}
    BY <1>1, <2>1, <2>2 DEF Leaves, Processes, Commanded, Slept, Deactivated, NotSelected, Stopped, Restarted
  <2>4. Noted
    BY <2>1 DEF Noted
  <2> QED
    BY <1>1, <1>3, <2>1, <2>2, <2>3, <2>4 DEF Race
<1>4. CASE Callback
  <2>1. /\ UNCHANGED <<rf, tests, session, late>> /\ Len(out) \in Nat \ {0}
        /\ \/ /\ stage = "new" /\ UNCHANGED out
              /\ devState' = DeviceState(out[1])
              /\ stage' = (IF out[1].kind = "ACTIVATED" THEN "dtaq" ELSE "mwq")
           \/ /\ stage = "mwq" /\ UNCHANGED devState
              /\ IF out[1].kind = "DEACTIVATED"
                   THEN out' = out /\ stage' = "dtaq"
                   ELSE out' = Tail(out) /\ stage' \in {"idle", "new"} /\ out[1].kind # "ACTIVATED"
           \/ stage = "dtaq" /\ UNCHANGED devState
    BY <1>4, CallbackMoves
  <2>2. rf \in {"active", "sleep"} /\ ~late
    BY <1>1, <2>1
  <2>3. CASE stage = "new" /\ UNCHANGED out /\ devState' = DeviceState(out[1])
             /\ stage' = (IF out[1].kind = "ACTIVATED" THEN "dtaq" ELSE "mwq")
    <3>1. out[1].kind \notin {"ACTIVATED", "SELECT_RESULT"}
      BY <1>1, <2>3 DEF DeviceState
    <3>2. 1 \in 1..Len(out)
      BY <2>1
    <3>3. devState = "DISC"
      <4>1. ~(out[1].kind = "DEACTIVATED" /\ out[1].detail \in {"IDLE", "DISCOVERY"})
        BY <2>2, <3>2 DEF ReportedState
      <4> QED
        BY <1>1, <2>3, <3>1, <4>1 DEF DeviceState
    <3>4. Noted
      BY <1>1, <2>3, <3>1 DEF Noted, Activates
    <3> QED
      BY <1>0, <1>1, <2>1, <2>2, <3>3, <3>4 DEF Race
  <2>4. CASE stage = "mwq" /\ UNCHANGED devState
    <3>1. Noted
      <4> SUFFICES ASSUME NEW i \in 1..Len(out), Activates(out, i) PROVE FALSE
        BY DEF Noted
      <4>1. rf = "active" /\ out[1].kind # "DEACTIVATED"
        <5>1. 1 \in 1..Len(out)
          BY <2>1
        <5> QED
          BY <2>2, <5>1 DEF ReportedState, Activates
      <4>2. out' = Tail(out) /\ stage' \in {"idle", "new"} /\ out[1].kind # "ACTIVATED"
        BY <2>1, <2>4, <4>1
      <4>3. out \in Seq(Past) /\ out # <<>>
        <5>1. Len(<<>>) = 0
          OBVIOUS
        <5> QED
          BY <2>1, <5>1 DEF Shape, CallbackShape
      <4>4. Len(Tail(out)) = Len(out) - 1 /\ \A j \in 1..Len(Tail(out)) : Tail(out)[j] = out[j + 1]
        BY <4>3, TailOf
      <4>5. i # 1
        BY <4>2 DEF Activates
      <4>6. i - 1 \in 1..Len(out') /\ out'[i - 1] = out[i]
        <5>1. i - 1 \in 1..(Len(out) - 1) /\ (i - 1) + 1 = i
          BY <2>1, <4>5
        <5> QED
          BY <4>2, <4>4, <5>1
      <4> QED
        BY <1>1, <4>2, <4>6 DEF Noted, Activates
    <3> QED
      BY <1>0, <1>1, <2>1, <2>2, <2>4, <3>1 DEF Race
  <2>5. CASE stage = "dtaq" /\ UNCHANGED devState
    BY <1>0, <1>1, <2>1, <2>2, <2>5 DEF Race, Noted
  <2> QED
    BY <2>1, <2>3, <2>4, <2>5
<1>5. CASE DtaThread
  <2>1. UNCHANGED <<rf, tests, session, out, stage>>
    BY <1>5, ThreadKeeps DEF tagVars
  <2>2. Noted
    BY <1>1, <2>1 DEF Noted, Activates
  <2>3. ~late
    <3>1. CASE Wait
      <4>1. late \in BOOLEAN
        BY DEF Shape, ThreadShape
      <4> QED
        BY <1>1, <3>1, <4>1, WaitFacts
    <3>2. CASE ~Wait
      BY <1>1, <1>5, <3>2 DEF DtaThread, CbMsgHandleThrd, HandleActivated, HandleDeactivated,
                TestStep, Disconnected, DeactivatedAlready, StopIdle, EnableDiscovery,
                ConsumeDeactivated, ReceiveData, Send, SendRawFrame, Transceive, TransceiveSent,
                StepFrame, dta
    <3> QED
      BY <3>1, <3>2
  <2>4. devState' = devState \/ (pc = "run" /\ EnableDiscovery)
    BY <1>5 DEF DtaThread, CbMsgHandleThrd, HandleActivated, HandleDeactivated,
              TestStep, Disconnected, DeactivatedAlready, StopIdle, EnableDiscovery, Step,
              ConsumeDeactivated, ReceiveData, Send, SendRawFrame, Transceive, TransceiveSent,
              Wait, WaitGot, WaitDrop, WaitAbort, WaitTimeout, WaitFrame, mwif
  <2> QED
    BY <1>0, <1>1, <2>1, <2>2, <2>3, <2>4 DEF Race
<1> QED
  BY <1>2, <1>3, <1>4, <1>5 DEF Next

LEMMA RacingBegins ==
  ASSUME Shape, InPhase, EnableDiscovery, Race', ~late, UNCHANGED <<tests, session>>,
         rf \in {"active", "sleep"}, rf' = rf
  PROVE  Racing'
<1>1. At("STARTED") /\ UNCHANGED <<own, mwq, out>>
  BY DEF EnableDiscovery, Step, At, StepFrame, DtaFrame, cbVars
<1>2. StartedPhase
  BY <1>1 DEF InPhase, Phases
<1>3. /\ own < session
      /\ \A i \in 1..Len(mwq) : After(mwq[i], own)
      /\ \A i \in 1..Len(out) : After(out[i], own)
  BY <1>2 DEF StartedPhase, Afresh
<1>4. own \in 0..session /\ session \in Nat
  BY SessionType DEF Shape, ThreadShape
<1>5. RaceQueue'
  BY <1>1, <1>2 DEF RaceQueue, StartedPhase, Afresh, After
<1>6. RaceOrder'
  <2>1. \A i \in 1..Len(mwq) : /\ mwq[i].kind # "I93_CMD_CPLT"
                               /\ IsD(mwq[i]) => mwq[i].detail # "SLEEP"
    BY <1>2 DEF StartedPhase, After, IsD
  <2> QED
    BY <1>1, <2>1 DEF RaceOrder, IsD
<1>7. own' # session'
  BY <1>1, <1>3, <1>4
<1> QED
  BY <1>5, <1>6, <1>7 DEF Racing

LEMMA RacingNfa ==
  ASSUME Shape, Arrivals, ReportedState, Racing, Race, Race', Nfa
  PROVE  Racing'
<1>1. /\ out = <<>> /\ (stage' = "new" \/ out' = <<>>) /\ UNCHANGED <<mwq, pc, prog, own, Cmd>>
      /\ UNCHANGED <<tests, session>> /\ Processes
  <2>1. rf' \in {"active", "sleep"}
    BY DEF Race
  <2>2. ~NewActivation
    BY RaceBegins DEF Next
  <2> QED
    BY <2>1, <2>2, NfaMoves DEF Leaves
<1>2. rf \in {"active", "sleep"} /\ rf' \in {"active", "sleep"}
  BY DEF Race
<1>3. /\ reqs # <<>> /\ reqs' = Tail(reqs) /\ Head(reqs) = reqs[1] /\ 1 \in 1..Len(reqs)
      /\ Len(reqs) \in Nat \ {0} /\ Len(reqs') = Len(reqs) - 1
      /\ Len(reqs) = 1 => reqs' = <<>>
      /\ \A i \in 1..Len(reqs') : i + 1 \in 1..Len(reqs) /\ reqs'[i] = reqs[i + 1]
  BY <1>1, TailRequests DEF Processes
<1>4. RaceQueue'
  <2>1. Len(<<>>) = 0
    OBVIOUS
  <2> QED
    BY <1>1, <2>1 DEF RaceQueue, Racing
<1> SUFFICES ASSUME ~astray', tests[session].tag = "T5T"
             PROVE  RaceOrder' /\ (own = session => RaceSleep')
  BY <1>1, <1>4 DEF Racing
<1>5. ~astray
  BY <1>1, Zenon DEF Processes, Commanded, Slept, Deactivated, NotSelected, Stopped, Restarted
<1>6. RaceOrder /\ (own = session => RaceSleep)
  BY <1>5 DEF Racing
<1>7. RaceOrder'
  BY <1>1, <1>6 DEF RaceOrder, IsD
<1> SUFFICES ASSUME own = session PROVE RaceSleep'
  BY <1>7
<1>8. RaceSleep
  BY <1>6
<1>9. /\ Awaits("SLEEP")' <=> Awaits("SLEEP")
      /\ At("SELECT")' <=> At("SELECT")
      /\ Step("SLEEP")' <=> Step("SLEEP")
      /\ NoD(mwq)' <=> NoD(mwq)
  BY <1>1 DEF Awaits, At, Step, NoD, IsD
<1>10. SleepPending' \/ rf' = "sleep" => SleepPending \/ rf = "sleep"
  BY <1>2, DrowsyNfa DEF Drowsy
<1>11. SleepPending' \/ rf' = "sleep" \/ (\E i \in 1..Len(mwq') : IsD(mwq'[i]) /\ mwq'[i].detail = "SLEEP")
         => Awaits("SLEEP")' \/ At("SELECT")'
  BY <1>1, <1>8, <1>9, <1>10 DEF RaceSleep
<1>12. Step("SLEEP")' => rf' = "active" /\ NoD(mwq)'
  <2>1. Step("SLEEP") => ~Awaits("SLEEP") /\ ~At("SELECT")
    BY DEF Step, Awaits, At
  <2> QED
    BY <1>2, <1>8, <1>9, <1>11, <2>1 DEF RaceSleep
<1>13. Awaits("SLEEP")' => SleepPhase'
  <2> SUFFICES ASSUME Awaits("SLEEP") PROVE SleepPhase'
    BY <1>9
  <2>1. /\ rf = "active" /\ SleepAt(Len(reqs)) /\ NoD(mwq)
        /\ \A i \in 1..(Len(reqs) - 1) : ~SleepAt(i)
    BY <1>3, <1>8 DEF RaceSleep, SleepPhase
  <2>2. CASE Len(reqs) = 1
    <3>1. Head(reqs).cmd = "SLEEP" /\ reqs' = <<>>
      BY <1>3, <2>1, <2>2 DEF SleepAt
    <3>2. Slept
      BY <1>1, <3>1 DEF Processes, Commanded, Slept, Deactivated, NotSelected, Stopped, Restarted,
                        TagCommands, Transceives
    <3>3. rf' = "sleep" /\ out' # <<>> /\ out'[1].kind = "DEACTIVATED" /\ stage' = "new"
      BY <1>1, <2>1, <3>2 DEF Slept, Reports1
    <3> QED
      BY <1>9, <2>1, <3>1, <3>3 DEF SleepPhase, IsD
  <2>3. CASE Len(reqs) # 1
    <3>1. Len(reqs') \in Nat \ {0} /\ Len(reqs') + 1 = Len(reqs) /\ 1 \in 1..(Len(reqs) - 1)
          /\ Len(reqs') \in 1..Len(reqs')
      BY <1>3, <2>3
    <3>2. reqs'[Len(reqs')] = reqs[Len(reqs)]
      BY <1>3, <3>1
    <3>3. SleepAt(Len(reqs))'
      BY <1>1, <2>1, <3>2 DEF SleepAt
    <3>4. Drowsy'
      BY <1>2, <3>1, <3>3 DEF Drowsy, SleepPending
    <3>5. ~SleepAt(1)
      BY <2>1, <3>1
    <3>6. rf' = "active" /\ Head(reqs).cmd \notin {"STOP", "DEACTIVATE", "SLEEP"}
      BY <2>1, <3>4, <3>5, DrowsyNfa
    <3>7. NoD(out')
      <4>1. Commanded \/ NotSelected \/ Restarted
        BY <1>1, <3>6 DEF Processes, Slept, Deactivated, Stopped
      <4> QED
        BY <3>6, <4>1 DEF Commanded, NotSelected, Restarted, Reports1, NoD, IsD
    <3>8. \A i \in 1..(Len(reqs') - 1) : ~SleepAt(i)'
      <4> SUFFICES ASSUME NEW i \in 1..(Len(reqs') - 1) PROVE ~SleepAt(i)'
        OBVIOUS
      <4>1. i \in 1..Len(reqs') /\ i + 1 \in 1..(Len(reqs) - 1)
        BY <1>3, <3>1
      <4>2. reqs'[i] = reqs[i + 1] /\ ~SleepAt(i + 1)
        BY <1>3, <2>1, <4>1
      <4> QED
        BY <1>1, <4>2 DEF SleepAt
    <3>9. reqs' # <<>>
      <4>1. Len(<<>>) = 0
        OBVIOUS
      <4> QED
        BY <3>1, <4>1
    <3> QED
      BY <1>1, <2>1, <3>3, <3>6, <3>7, <3>8, <3>9 DEF SleepPhase
  <2> QED
    BY <2>2, <2>3
<1>14. At("SELECT")' => SelectPhase'
  <2> SUFFICES ASSUME At("SELECT") PROVE SelectPhase'
    BY <1>9
  <2>1. rf = "sleep" /\ pc = "wait" /\ Len(reqs) = 1 /\ reqs[1].cmd = "SELECT" /\ NoD(mwq)
    BY <1>3, <1>8 DEF RaceSleep, SelectPhase
  <2>2. NotSelected
    BY <1>1, <1>3, <2>1 DEF Processes, Commanded, Slept, Deactivated, NotSelected, Stopped, Restarted,
                            TagCommands, Transceives
  <2>3. Len(out') = 1 /\ out'[1].kind = "SELECT_RESULT" /\ out' # <<>> /\ rf' = "sleep" /\ stage' = "new"
    BY <1>1, <2>1, <2>2 DEF NotSelected, Reports1
  <2>4. NoD(out')
    BY <2>3 DEF NoD, IsD
  <2>5. pc' = "wait" /\ reqs' = <<>> /\ NoD(mwq')
    BY <1>1, <1>3, <2>1
  <2> QED
    BY <2>3, <2>4, <2>5 DEF SelectPhase
<1> QED
  BY <1>11, <1>12, <1>13, <1>14 DEF RaceSleep

(* What the callback takes from its reports in a race.                     *)
LEMMA RaceReports ==
  ASSUME Shape, Arrivals, ReportedState, Race, Race', Callback
  PROVE  /\ UNCHANGED <<rf, tests, session, astray, reqs, pc, prog, own, Cmd>> /\ 1 \in 1..Len(out)
         /\ \/ /\ stage = "new" /\ UNCHANGED <<out, mwq>> /\ out[1].kind # "SELECT_RESULT"
               /\ \A i \in 1..Len(out) : out[i].kind # "SELECT_RESULT"
               /\ stage' = (IF out[1].kind = "ACTIVATED" THEN "dtaq" ELSE "mwq")
            \/ /\ stage = "mwq" /\ mwq' = Append(mwq, out[1])
               /\ out[1].kind # "INTF_ERROR"
               /\ IF IsD(out[1]) THEN out' = out /\ stage' = "dtaq"
                                 ELSE out' = Tail(out) /\ stage' \in {"idle", "new"}
            \/ /\ stage = "dtaq" /\ UNCHANGED mwq /\ out' = Tail(out) /\ stage' \in {"idle", "new"}
               /\ rf = "sleep" => out' = <<>> /\ stage' = "idle"
         /\ \A i \in 1..Len(out') : \/ out' = out
                                    \/ i + 1 \in 1..Len(out) /\ i + 1 # 1 /\ out'[i] = out[i + 1]
         /\ IsD(out[1]) => out[1].detail = "SLEEP" /\ rf = "sleep"
<1>1. /\ UNCHANGED <<rf, tests, session, reqs, pc, prog, own>>
      /\ out # <<>> /\ Len(out) \in Nat \ {0}
      /\ \/ /\ stage = "new" /\ UNCHANGED <<out, mwq>>
            /\ devState' = DeviceState(out[1])
            /\ stage' = (IF out[1].kind = "ACTIVATED" THEN "dtaq" ELSE "mwq")
         \/ /\ stage = "mwq" /\ mwq' = Append(mwq, out[1])
            /\ IF out[1].kind = "DEACTIVATED"
                 THEN out' = out /\ stage' = "dtaq"
                 ELSE out' = Tail(out) /\ stage' \in {"idle", "new"}
         \/ /\ stage = "dtaq" /\ UNCHANGED mwq /\ out' = Tail(out) /\ stage' \in {"idle", "new"}
            /\ out[1].kind \in {"ACTIVATED", "DEACTIVATED"}
  BY CallbackMoves
<1>2. astray' = astray
  BY DEF Callback, NotifyState, PushMw, EvtCb, CbFrame, tagVars
<1>3. Cmd' = Cmd /\ 1 \in 1..Len(out)
  BY <1>1 DEF Cmd
<1>4. rf \in {"active", "sleep"} /\ devState' = "DISC"
  BY DEF Race
<1>5. IsD(out[1]) => out[1].detail = "SLEEP" /\ rf = "sleep" /\ Len(out) = 1
  BY <1>3, <1>4 DEF ReportedState, IsD
<1>6. out[1].kind # "INTF_ERROR" /\ (rf = "sleep" => out[1].kind # "ACTIVATED")
  BY <1>3, <1>4 DEF ReportedState
<1>7. out \in Seq(Past) /\ (stage' = "idle" <=> out' = <<>>)
  <2>1. Shape'
    BY ShapeStep DEF Next
  <2> QED
    BY <2>1 DEF Shape, CallbackShape
<1>8. Len(Tail(out)) = Len(out) - 1 /\ \A i \in 1..Len(Tail(out)) : Tail(out)[i] = out[i + 1]
  BY <1>1, <1>7, TailOf
<1>9. \A i \in 1..Len(Tail(out)) : i + 1 \in 1..Len(out) /\ i + 1 # 1
  BY <1>1, <1>8
<1>10. \A i \in 1..Len(out') : \/ out' = out
                               \/ i + 1 \in 1..Len(out) /\ i + 1 # 1 /\ out'[i] = out[i + 1]
  BY <1>1, <1>8, <1>9
<1>11. CASE stage = "new" /\ UNCHANGED <<out, mwq>> /\ devState' = DeviceState(out[1])
            /\ stage' = (IF out[1].kind = "ACTIVATED" THEN "dtaq" ELSE "mwq")
  <2>1. out[1].kind # "SELECT_RESULT"
    BY <1>4, <1>11 DEF DeviceState
  <2>2. \A i \in 1..Len(out) : out[i].kind # "SELECT_RESULT"
    BY <2>1 DEF ReportedState
  <2> QED
    BY <1>1, <1>2, <1>3, <1>5, <1>10, <1>11, <2>1, <2>2
<1>12. CASE stage = "mwq"
  BY <1>1, <1>2, <1>3, <1>5, <1>6, <1>10, <1>12 DEF IsD
<1>13. CASE stage = "dtaq" /\ out[1].kind \in {"ACTIVATED", "DEACTIVATED"} /\ out' = Tail(out)
            /\ UNCHANGED mwq /\ stage' \in {"idle", "new"}
  <2>1. rf = "sleep" => Len(out) = 1
    BY <1>5, <1>6, <1>13 DEF IsD
  <2>2. rf = "sleep" => out' = <<>>
    <3>1. Len(out) = 1 => Tail(out) = <<>>
      <4>1. Len(out) = 1 => Len(Tail(out)) = 0
        BY <1>8
      <4>2. Tail(out) \in Seq(Past)
        BY <1>1, <1>7, TailOf
      <4> QED
        BY <4>1, <4>2, EmptySeq
    <3> QED
      BY <1>13, <2>1, <3>1
  <2> QED
    BY <1>1, <1>2, <1>3, <1>5, <1>7, <1>10, <1>13, <2>2
<1> QED
  BY <1>1, <1>11, <1>12, <1>13

LEMMA RacingCallback ==
  ASSUME Shape, Arrivals, ReportedState, OwnSleep, Racing, Race, Race', Callback
  PROVE  Racing'
<1>1. /\ UNCHANGED <<rf, tests, session, astray, reqs, pc, prog, own, Cmd>> /\ 1 \in 1..Len(out)
      /\ \A i \in 1..Len(out') : \/ out' = out
                                 \/ i + 1 \in 1..Len(out) /\ i + 1 # 1 /\ out'[i] = out[i + 1]
      /\ IsD(out[1]) => out[1].detail = "SLEEP" /\ rf = "sleep"
      /\ stage \in {"new", "mwq", "dtaq"}
  BY RaceReports
<1>2. /\ stage = "new" => /\ UNCHANGED <<out, mwq>>
                          /\ \A i \in 1..Len(out) : out[i].kind # "SELECT_RESULT"
                          /\ stage' = (IF out[1].kind = "ACTIVATED" THEN "dtaq" ELSE "mwq")
      /\ stage = "mwq" => /\ mwq' = Append(mwq, out[1]) /\ out[1].kind # "INTF_ERROR"
                          /\ IF IsD(out[1]) THEN out' = out /\ stage' = "dtaq"
                                            ELSE out' = Tail(out) /\ stage' \in {"idle", "new"}
      /\ stage = "dtaq" => /\ UNCHANGED mwq /\ out' = Tail(out) /\ stage' \in {"idle", "new"}
                           /\ rf = "sleep" => out' = <<>> /\ stage' = "idle"
  BY RaceReports
<1>3. stage = "mwq" => /\ Len(mwq) \in Nat /\ Len(mwq') = Len(mwq) + 1 /\ mwq'[Len(mwq) + 1] = out[1]
                       /\ \A i \in 1..Len(mwq) : mwq'[i] = mwq[i]
                       /\ \A i \in 1..Len(mwq') : i \in 1..Len(mwq) \/ i = Len(mwq) + 1
  <2> SUFFICES ASSUME stage = "mwq"
               PROVE  /\ Len(mwq) \in Nat /\ Len(mwq') = Len(mwq) + 1 /\ mwq'[Len(mwq) + 1] = out[1]
                      /\ \A i \in 1..Len(mwq) : mwq'[i] = mwq[i]
                      /\ \A i \in 1..Len(mwq') : i \in 1..Len(mwq) \/ i = Len(mwq) + 1
    OBVIOUS
  <2>1. mwq \in Seq(Past) /\ out[1] \in Past
    BY <1>1 DEF Shape, QueueShape, CallbackShape
  <2>2. /\ Len(mwq) \in Nat /\ Len(mwq') = Len(mwq) + 1 /\ mwq'[Len(mwq) + 1] = out[1]
        /\ \A i \in 1..Len(mwq) : mwq'[i] = mwq[i]
    BY <1>2, <2>1, AppendOf
  <2>3. \A i \in 1..Len(mwq') : i \in 1..Len(mwq) \/ i = Len(mwq) + 1
    BY <2>2
  <2> QED
    BY <2>2, <2>3
<1>4. NoD(out) => NoD(out')
  BY <1>1 DEF NoD, IsD
<1>5. NoD(mwq) /\ (stage = "mwq" => ~IsD(out[1])) => NoD(mwq')
  <2> SUFFICES ASSUME NoD(mwq), stage = "mwq" => ~IsD(out[1]) PROVE NoD(mwq')
    OBVIOUS
  <2>1. CASE stage = "mwq"
    BY <1>3, <2>1 DEF NoD, IsD
  <2>2. CASE stage # "mwq"
    <3>1. mwq' = mwq
      BY <1>1, <1>2, <2>2
    <3> QED
      BY <3>1
  <2> QED
    BY <2>1, <2>2
<1>6. RaceQueue
  BY DEF Racing
<1>7. RaceQueue'
  <2>1. \A i \in 1..Len(out') : out'[i].kind # "SELECT_RESULT"
    <3>1. CASE stage = "new"
      BY <1>2, <3>1
    <3>2. CASE stage = "mwq"
      BY <1>1, <1>6, <3>2 DEF RaceQueue
    <3>3. CASE stage = "dtaq"
      BY <1>1, <1>6, <3>3 DEF RaceQueue
    <3> QED
      BY <1>1, <3>1, <3>2, <3>3
  <2>2. \A i \in 1..Len(mwq') : mwq'[i].kind \notin {"SELECT_RESULT", "INTF_ERROR"}
    <3>1. CASE stage = "mwq"
      BY <1>1, <1>2, <1>3, <1>6, <3>1 DEF RaceQueue
    <3>2. CASE stage # "mwq"
      BY <1>1, <1>2, <1>6, <3>2 DEF RaceQueue
    <3> QED
      BY <3>1, <3>2
  <2> QED
    BY <2>1, <2>2 DEF RaceQueue
<1> SUFFICES ASSUME ~astray, tests[session].tag = "T5T"
             PROVE  RaceOrder' /\ (own = session => RaceSleep')
  BY <1>1, <1>7 DEF Racing
<1>8. RaceOrder /\ (own = session => RaceSleep)
  BY DEF Racing
<1>9. rf \in {"active", "sleep"}
  BY DEF Race
<1>10. RaceOrder'
  <2>1. CASE stage = "mwq"
    <3>1. IsD(out[1]) => own = session
      BY <1>1 DEF OwnSleep, Drowsy
    <3>2. own \in 0..session /\ session \in Nat
      BY SessionType DEF Shape, ThreadShape
    <3>3. own < session => \A i \in 1..Len(mwq') : IsD(mwq'[i]) => mwq'[i].detail # "SLEEP"
      <4>1. own < session => ~IsD(out[1])
        BY <3>1, <3>2
      <4> QED
        BY <1>3, <1>8, <2>1, <4>1 DEF RaceOrder
    <3>4. ASSUME NEW i \in 1..Len(mwq'), NEW j \in 1..Len(mwq'), i < j,
                 mwq'[i].kind = "I93_CMD_CPLT", IsD(mwq'[j])
          PROVE  mwq'[j].detail = "SLEEP"
      <4>1. CASE j = Len(mwq) + 1
        BY <1>1, <1>3, <2>1, <3>4, <4>1
      <4>2. CASE j \in 1..Len(mwq)
        <5>1. i \in 1..Len(mwq)
          BY <1>3, <2>1, <3>4, <4>2
        <5> QED
          BY <1>3, <1>8, <2>1, <3>4, <4>2, <5>1 DEF RaceOrder
      <4> QED
        BY <1>3, <2>1, <4>1, <4>2
    <3> QED
      BY <1>1, <3>3, <3>4 DEF RaceOrder, IsD
  <2>2. CASE stage # "mwq"
    BY <1>1, <1>2, <1>8, <2>2 DEF RaceOrder, IsD
  <2> QED
    BY <2>1, <2>2
<1> SUFFICES ASSUME own = session PROVE RaceSleep'
  BY <1>10
<1>11. RaceSleep
  BY <1>8
<1>12. /\ Awaits("SLEEP")' <=> Awaits("SLEEP")
       /\ At("SELECT")' <=> At("SELECT")
       /\ Step("SLEEP")' <=> Step("SLEEP")
       /\ SleepPending' <=> SleepPending
       /\ \A i \in 1..Len(reqs) : SleepAt(i)' <=> SleepAt(i)
  BY <1>1 DEF Awaits, At, Step, SleepPending, SleepAt
<1>13. ASSUME SleepPending' \/ rf' = "sleep" \/ (\E i \in 1..Len(mwq') : IsD(mwq'[i]) /\ mwq'[i].detail = "SLEEP")
       PROVE  Awaits("SLEEP")' \/ At("SELECT")'
  <2>1. CASE SleepPending \/ rf = "sleep"
    BY <1>11, <1>12, <2>1 DEF RaceSleep
  <2>2. CASE \E i \in 1..Len(mwq') : IsD(mwq'[i]) /\ mwq'[i].detail = "SLEEP"
    <3>1. PICK i \in 1..Len(mwq') : IsD(mwq'[i]) /\ mwq'[i].detail = "SLEEP"
      BY <2>2
    <3>2. CASE i \in 1..Len(mwq) /\ mwq'[i] = mwq[i]
      BY <1>11, <1>12, <3>1, <3>2 DEF RaceSleep
    <3>3. CASE stage = "mwq" /\ mwq'[i] = out[1]
      BY <1>1, <2>1, <3>1, <3>3
    <3> QED
      BY <1>1, <1>2, <1>3, <3>1, <3>2, <3>3
  <2> QED
    BY <1>1, <1>12, <1>13, <2>1, <2>2
<1>14. Step("SLEEP")' => rf' = "active" /\ NoD(mwq')
  BY <1>1, <1>5, <1>11, <1>12 DEF RaceSleep
<1>15. Awaits("SLEEP") => SleepPhase'
  <2> SUFFICES ASSUME Awaits("SLEEP") PROVE SleepPhase'
    OBVIOUS
  <2>1. SleepPhase
    BY <1>11 DEF RaceSleep
  <2>2. CASE rf = "active"
    <3>1. /\ reqs # <<>> /\ SleepAt(Len(reqs)) /\ NoD(mwq) /\ NoD(out)
          /\ \A i \in 1..(Len(reqs) - 1) : ~SleepAt(i)
      BY <2>1, <2>2 DEF SleepPhase
    <3>2. NoD(mwq') /\ NoD(out')
      BY <1>1, <1>4, <1>5, <2>2, <3>1
    <3>3. SleepAt(Len(reqs))' /\ \A i \in 1..(Len(reqs) - 1) : ~SleepAt(i)'
      BY <1>1, <3>1 DEF SleepAt
    <3> QED
      BY <1>1, <2>2, <3>1, <3>2, <3>3 DEF SleepPhase
  <2>3. CASE rf = "sleep" /\ stage = "new"
    <3>1. IsD(out[1]) /\ NoD(mwq) /\ reqs = <<>> /\ out # <<>>
      BY <2>1, <2>3 DEF SleepPhase
    <3>2. stage' = "mwq" /\ UNCHANGED <<out, mwq>>
      BY <1>2, <2>3, <3>1 DEF IsD
    <3> QED
      BY <1>1, <2>3, <3>1, <3>2 DEF SleepPhase
  <2>4. CASE rf = "sleep" /\ stage = "mwq"
    <3>1. IsD(out[1]) /\ NoD(mwq) /\ reqs = <<>>
      BY <2>1, <2>4 DEF SleepPhase
    <3>2. stage' = "dtaq"
      BY <1>2, <2>4, <3>1
    <3>3. Len(mwq) + 1 \in 1..Len(mwq') /\ IsD(mwq'[Len(mwq) + 1])
      BY <1>3, <2>4, <3>1
    <3>4. \A i \in 1..Len(mwq') : IsD(mwq'[i]) => i = Len(mwq) + 1
      BY <1>3, <2>4, <3>1 DEF NoD, IsD
    <3>5. /\ ~NoD(mwq')
          /\ \A i, j \in 1..Len(mwq') : IsD(mwq'[i]) /\ IsD(mwq'[j]) => i = j
      BY <3>3, <3>4 DEF NoD
    <3> QED
      BY <1>1, <2>4, <3>1, <3>2, <3>5 DEF SleepPhase
  <2>5. CASE rf = "sleep" /\ stage = "dtaq"
    <3>1. /\ reqs = <<>> /\ ~NoD(mwq)
          /\ \A i, j \in 1..Len(mwq) : IsD(mwq[i]) /\ IsD(mwq[j]) => i = j
      BY <2>1, <2>5 DEF SleepPhase
    <3>2. stage' = "idle" /\ mwq' = mwq
      BY <1>2, <2>5
    <3> QED
      BY <1>1, <2>5, <3>1, <3>2 DEF SleepPhase
  <2> QED
    BY <1>1, <1>9, <2>2, <2>3, <2>4, <2>5
<1>16. At("SELECT") => SelectPhase'
  <2> SUFFICES ASSUME At("SELECT") PROVE SelectPhase'
    OBVIOUS
  <2>1. SelectPhase
    BY <1>11 DEF RaceSleep
  <2>2. rf = "sleep" /\ NoD(mwq) /\ (stage \in {"new", "mwq"} => NoD(out))
    BY <2>1 DEF SelectPhase
  <2>3. \/ pc = "run" /\ reqs = <<>>
        \/ pc = "wait" /\ Len(reqs) = 1 /\ reqs[1].cmd = "SELECT"
    <3>1. ~(stage = "new" /\ out # <<>> /\ out[1].kind = "SELECT_RESULT")
      BY <1>1, <1>2
    <3> QED
      BY <2>1, <3>1 DEF SelectPhase
  <2>4. NoD(mwq')
    BY <1>1, <1>5, <2>2 DEF NoD
  <2>5. stage' \in {"new", "mwq"} => NoD(out')
    BY <1>1, <1>2, <1>4, <2>2
  <2> QED
    BY <1>1, <2>2, <2>3, <2>4, <2>5 DEF SelectPhase
<1> QED
  BY <1>12, <1>13, <1>14, <1>15, <1>16 DEF RaceSleep

LEMMA RacingHandle ==
  ASSUME Shape, Arrivals, OwnSleep, Racing, Race, CbMsgHandleThrd
  PROVE  Racing'
<1>1. UNCHANGED <<rf, tests, session, astray, out, stage, reqs, mwq>> /\ pc = "pull"
  BY HandleMoves
<1>2. RaceQueue'
  BY <1>1 DEF Racing, RaceQueue
<1> SUFFICES ASSUME ~astray, tests[session].tag = "T5T"
             PROVE  RaceOrder' /\ (own' = session => RaceSleep')
  BY <1>1, <1>2 DEF Racing
<1>3. RaceOrder /\ (own = session => RaceSleep)
  BY DEF Racing
<1>4. CASE UNCHANGED <<own, prog, pc, Cmd>>
  <2>1. RaceOrder'
    BY <1>1, <1>3, <1>4 DEF RaceOrder, IsD
  <2>2. RaceSleep' <=> RaceSleep
    BY <1>1, <1>4 DEF RaceSleep, SleepPhase, SelectPhase, SleepPending, SleepAt, Awaits, At, Step, NoD, IsD
  <2> QED
    BY <1>3, <1>4, <2>1, <2>2
<1>5. CASE own < own' /\ own' \in 1..session /\ Cmd' \notin {"SLEEP", "SELECT"}
  <2>1. own < session /\ own # session
    <3>1. own \in 0..session /\ session \in Nat
      BY SessionType DEF Shape, ThreadShape
    <3> QED
      BY <1>5, <3>1
  <2>2. ~Drowsy
    BY <2>1 DEF OwnSleep
  <2>3. ~SleepPending /\ rf # "sleep"
    BY <2>2 DEF Drowsy, Race
  <2>4. \A i \in 1..Len(mwq) : IsD(mwq[i]) => mwq[i].detail # "SLEEP"
    BY <1>3, <2>1 DEF RaceOrder
  <2>5. RaceOrder'
    BY <1>1, <1>3, <2>4 DEF RaceOrder, IsD
  <2>6. RaceSleep'
    BY <1>1, <1>5, <2>3, <2>4 DEF RaceSleep, SleepPending, SleepAt, Awaits, At, Step, IsD
  <2> QED
    BY <2>5, <2>6
<1> QED
  BY <1>4, <1>5, HandleMoves

(* In a race the wait for a selection cannot end, and the wait for the tag *)
(* to fall asleep ends when it has.                                        *)
LEMMA SelectWaits ==
  ASSUME Shape, TestStep \/ Wait, RaceQueue, SelectPhase, Cmd = "SELECT", ~late', NEW p, Goes(p)
  PROVE  FALSE
<1>1. pc = "wait"
  <2>1. pc \in {"run", "sent", "wait"} /\ (pc = "sent" => Cmd \in Transceives)
    BY HandlerMoves DEF Shape, ThreadShape
  <2> QED
    BY <2>1 DEF Goes, Transceives
<1>2. Wait
  BY <1>1, WaitOnly
<1>3. NoD(mwq) /\ (reqs # <<>> \/ out # <<>>)
  <2>1. Len(<<>>) = 0
    OBVIOUS
  <2> QED
    BY <1>1, <2>1 DEF SelectPhase
<1>4. GoOn(p)
  BY DEF Goes
<1>5. CASE mwq # <<>>
  <2>1. Len(mwq) \in Nat \ {0} /\ 1 \in 1..Len(mwq)
    BY <1>2, <1>5, WaitFacts
  <2>2. mwq[1].kind \notin {"SELECT_RESULT", "INTF_ERROR", "DEACTIVATED"}
    BY <1>3, <2>1 DEF RaceQueue, NoD, IsD
  <2>3. Answers[Cmd] = "SELECT_RESULT"
    BY DEF Answers
  <2>4. UNCHANGED <<pc, prog>>
    BY <1>2, <1>5, <2>2, <2>3, WaitFacts
  <2> QED
    BY <1>1, <1>4, <2>4 DEF GoOn
<1>6. CASE mwq = <<>>
  <2>1. late'
    BY <1>2, <1>3, <1>6, WaitFacts
  <2> QED
    BY <2>1
<1> QED
  BY <1>5, <1>6

LEMMA SleepWaits ==
  ASSUME Shape, TestStep \/ Wait, RaceQueue, SleepPhase, Cmd = "SLEEP", ~late', NEW p, Goes(p)
  PROVE  /\ rf = "sleep" /\ reqs = <<>> /\ stage \in {"dtaq", "idle"} /\ NoD(mwq')
         /\ reqs' = reqs
<1>1. pc = "wait"
  <2>1. pc \in {"run", "sent", "wait"} /\ (pc = "sent" => Cmd \in Transceives)
    BY HandlerMoves DEF Shape, ThreadShape
  <2> QED
    BY <2>1 DEF Goes, Transceives
<1>2. Wait
  BY <1>1, WaitOnly
<1>3. GoOn(p) /\ reqs' = reqs
  BY DEF Goes
<1>4. Answers[Cmd] = "DEACTIVATED"
  BY DEF Answers
<1>5. CASE mwq # <<>>
  <2>1. /\ Len(mwq) \in Nat \ {0} /\ 1 \in 1..Len(mwq)
        /\ \A i \in 1..Len(mwq') : i + 1 \in 1..Len(mwq) /\ i + 1 # 1 /\ mwq'[i] = mwq[i + 1]
    BY <1>2, <1>5, WaitFacts
  <2>2. mwq[1].kind # "INTF_ERROR"
    BY <2>1 DEF RaceQueue
  <2>3. IsD(mwq[1])
    <3> SUFFICES ASSUME mwq[1].kind # "DEACTIVATED" PROVE FALSE
      BY DEF IsD
    <3>1. UNCHANGED <<pc, prog>>
      BY <1>2, <1>4, <1>5, <2>2, WaitFacts
    <3> QED
      BY <1>1, <1>3, <3>1 DEF GoOn
  <2>4. /\ rf = "sleep" /\ reqs = <<>> /\ stage \in {"dtaq", "idle"}
        /\ \A i, j \in 1..Len(mwq) : IsD(mwq[i]) /\ IsD(mwq[j]) => i = j
    BY <2>1, <2>3 DEF SleepPhase, NoD
  <2>5. NoD(mwq')
    BY <2>1, <2>3, <2>4 DEF NoD, IsD
  <2> QED
    BY <1>3, <2>4, <2>5
<1>6. CASE mwq = <<>>
  <2>1. reqs = <<>> /\ out = <<>>
    <3>1. late' = (late \/ reqs # <<>> \/ out # <<>>)
      BY <1>2, <1>6, WaitFacts
    <3> QED
      BY <3>1
  <2>2. NoD(mwq)
    <3>1. Len(mwq) = 0
      BY <1>6
    <3> QED
      BY <3>1 DEF NoD
  <2> QED
    BY <2>1, <2>2 DEF SleepPhase
<1> QED
  BY <1>5, <1>6

(* The test goes on to put its tag to sleep when its first inventory was   *)
(* answered.                                                               *)
LEMMA I93Waits ==
  ASSUME Shape, TestStep \/ Wait, RaceOrder, test.tag = "T5T", NEW p, Goes(p), p # <<>>, Cmd' = "SLEEP",
         \A i \in 1..Len(mwq) : IsD(mwq[i]) => mwq[i].detail # "SLEEP"
  PROVE  NoD(mwq')
<1>1. /\ pc # "pull" /\ test \in TestRecords /\ Cmd # "STARTED" /\ Follower(p) /\ GoOn(p)
      /\ prog' = p
  BY HandlerMoves DEF Goes, GoOn
<1>2. Cmd = "I93" /\ p = Tail(prog)
  BY <1>1, SleepEntered
<1>3. pc = "wait"
  <2>1. pc \in {"run", "sent", "wait"} /\ (pc = "sent" => Cmd \in Transceives)
    BY <1>1 DEF Shape, ThreadShape
  <2> QED
    BY <1>2, <2>1 DEF Goes, Transceives
<1>4. Wait
  BY <1>3, WaitOnly
<1>5. Answers[Cmd] = "I93_CMD_CPLT"
  BY <1>2 DEF Answers
<1>6. ~\E q \in OnFailures(test, Cmd) : GoOn(q)
  <2> SUFFICES ASSUME NEW q \in OnFailures(test, Cmd), GoOn(q) PROVE FALSE
    OBVIOUS
  <2>1. prog' = q
    BY DEF GoOn
  <2>2. q = Ending(test)
    BY <1>2 DEF OnFailures, OnFailure, Dep
  <2>3. q \in {Restart, Consuming}
    BY <1>1, <2>2, EndingCases
  <2>4. Head(q).cmd \in {"STOP", "CONSUME"}
    <3>1. CASE q = Restart
      <4>1. Restart \in Seq(StepsOf(RestartCmds)) /\ Len(Restart) # 0 /\ Restart[1].cmd = "STOP"
        BY RestartSteps, DoCmd
      <4> QED
        BY <3>1, <4>1, HeadOf
    <3>2. CASE q = Consuming
      <4>1. Consuming \in Seq(StepsOf({"CONSUME", "DEACTIVATE"})) /\ Len(Consuming) # 0 /\ Consuming[1].cmd = "CONSUME"
        BY ConsumingSteps, DoCmd
      <4> QED
        BY <3>2, <4>1, HeadOf
    <3> QED
      BY <2>3, <3>1, <3>2
  <2> QED
    BY <2>1, <2>4 DEF Cmd
<1>7. mwq # <<>> /\ mwq[1].kind = "I93_CMD_CPLT"
  <2>1. ~UNCHANGED <<pc, prog>>
    BY <1>1, <1>3 DEF GoOn
  <2> QED
    BY <1>4, <1>5, <1>6, <2>1, WaitFacts
<1>8. /\ Len(mwq) \in Nat \ {0} /\ 1 \in 1..Len(mwq)
      /\ \A i \in 1..Len(mwq') : i + 1 \in 1..Len(mwq) /\ 1 < i + 1 /\ mwq'[i] = mwq[i + 1]
  BY <1>4, <1>7, WaitFacts
<1> SUFFICES ASSUME NEW i \in 1..Len(mwq'), IsD(mwq'[i]) PROVE FALSE
  BY DEF NoD
<1>9. i + 1 \in 1..Len(mwq) /\ 1 < i + 1 /\ IsD(mwq[i + 1])
  BY <1>8 DEF IsD
<1>10. mwq[i + 1].detail = "SLEEP"
  BY <1>7, <1>8, <1>9 DEF RaceOrder
<1> QED
  BY <1>9, <1>10

LEMMA RacingHandler ==
  ASSUME Shape, Arrivals, ReportedState, OwnSleep, Racing, Race, Race', TestStep \/ Wait
  PROVE  Racing'
<1>1. /\ UNCHANGED <<rf, tests, session, astray, out, stage, own, test>>
      /\ pc # "pull" /\ own > 0 /\ test \in TestRecords
      /\ Stays \/ Listens \/ Asks \/ Ends \/ \E p : Goes(p)
  BY HandlerMoves
<1>2. Len(mwq) \in Nat /\ Len(mwq') \in Nat
  BY QueueShrinks DEF DtaThread
<1>3. PICK d \in Nat : \A i \in 1..Len(mwq') : i + d \in 1..Len(mwq) /\ mwq'[i] = mwq[i + d]
  BY QueueShrinks DEF DtaThread
<1>4. ~late' /\ rf \in {"active", "sleep"}
  BY DEF Race
<1>5. RaceQueue /\ RaceQueue'
  BY <1>1, <1>3 DEF Racing, RaceQueue
<1>6. NoD(mwq) => NoD(mwq')
  BY <1>3 DEF NoD, IsD
<1> SUFFICES ASSUME ~astray, tests[session].tag = "T5T"
             PROVE  RaceOrder' /\ (own = session => RaceSleep')
  BY <1>1, <1>5 DEF Racing
<1>7. RaceOrder /\ (own = session => RaceSleep)
  BY DEF Racing
<1>8. RaceOrder'
  <2>1. own < session => \A i \in 1..Len(mwq') : IsD(mwq'[i]) => mwq'[i].detail # "SLEEP"
    BY <1>3, <1>7 DEF RaceOrder
  <2>2. ASSUME NEW i \in 1..Len(mwq'), NEW j \in 1..Len(mwq'), i < j,
               mwq'[i].kind = "I93_CMD_CPLT", IsD(mwq'[j])
        PROVE  mwq'[j].detail = "SLEEP"
    <3>1. i + d \in 1..Len(mwq) /\ j + d \in 1..Len(mwq) /\ i + d < j + d
      BY <1>2, <1>3, <2>2
    <3> QED
      BY <1>3, <1>7, <2>2, <3>1 DEF RaceOrder
  <2> QED
    BY <1>1, <2>1, <2>2 DEF RaceOrder, IsD
<1> SUFFICES ASSUME own = session PROVE RaceSleep'
  BY <1>8
<1>9. RaceSleep /\ test.tag = "T5T"
  BY <1>7 DEF test
<1>10. SleepPending \/ rf = "sleep" \/ (\E i \in 1..Len(mwq) : IsD(mwq[i]) /\ mwq[i].detail = "SLEEP")
         => Awaits("SLEEP") \/ At("SELECT")
  BY <1>9 DEF RaceSleep
<1>11. ASSUME Step("SLEEP") PROVE ~SleepPending /\ rf = "active" /\ NoD(mwq)
  BY <1>9, <1>11 DEF RaceSleep, Step, Awaits, At
<1>12. CASE Stays
  <2>1. /\ pc' \in {"run", "sent", "wait"} /\ Cmd' = Cmd /\ reqs' = reqs /\ prog' = prog
        /\ Cmd \in {"SLEEP", "SELECT"} => pc' = pc
    <3>1. pc' \in {"run", "sent", "wait"}
      BY <1>12, ShapeStep DEF Stays, Shape, ThreadShape, Next, DtaThread
    <3> QED
      BY <1>12, <3>1 DEF Stays, Cmd, Transceives
  <2>2. /\ Awaits("SLEEP")' <=> Awaits("SLEEP")
        /\ At("SELECT")' <=> At("SELECT")
        /\ Step("SLEEP")' <=> Step("SLEEP")
    BY <1>1, <2>1 DEF Awaits, At, Step
  <2>3. /\ SleepPending' <=> SleepPending
        /\ \A i \in 1..Len(reqs) : SleepAt(i)' <=> SleepAt(i)
    BY <1>1, <2>1 DEF SleepPending, SleepAt
  <2>4. (\E i \in 1..Len(mwq') : IsD(mwq'[i]) /\ mwq'[i].detail = "SLEEP")
          => \E i \in 1..Len(mwq) : IsD(mwq[i]) /\ mwq[i].detail = "SLEEP"
    BY <1>3
  <2>5. Awaits("SLEEP") => SleepPhase'
    <3> SUFFICES ASSUME Awaits("SLEEP") PROVE SleepPhase'
      OBVIOUS
    <3>1. SleepPhase
      BY <1>9 DEF RaceSleep
    <3>2. CASE rf = "active"
      <4>1. /\ reqs # <<>> /\ SleepAt(Len(reqs)) /\ NoD(mwq) /\ NoD(out)
            /\ \A i \in 1..(Len(reqs) - 1) : ~SleepAt(i)
        BY <3>1, <3>2 DEF SleepPhase
      <4>2. SleepAt(Len(reqs))' /\ \A i \in 1..(Len(reqs) - 1) : ~SleepAt(i)'
        BY <1>1, <2>1, <4>1 DEF SleepAt
      <4> QED
        BY <1>1, <1>6, <2>1, <3>2, <4>1, <4>2 DEF SleepPhase
    <3>3. CASE rf = "sleep" /\ NoD(mwq)
      BY <1>1, <1>6, <2>1, <3>1, <3>3 DEF SleepPhase
    <3>4. CASE rf = "sleep" /\ ~NoD(mwq)
      <4>1. /\ reqs = <<>> /\ stage \in {"dtaq", "idle"}
            /\ \A i, j \in 1..Len(mwq) : IsD(mwq[i]) /\ IsD(mwq[j]) => i = j
        BY <3>1, <3>4 DEF SleepPhase
      <4>2. \A i, j \in 1..Len(mwq') : IsD(mwq'[i]) /\ IsD(mwq'[j]) => i = j
        <5> SUFFICES ASSUME NEW i \in 1..Len(mwq'), NEW j \in 1..Len(mwq'), IsD(mwq'[i]), IsD(mwq'[j])
                     PROVE  i = j
          OBVIOUS
        <5>1. i + d = j + d
          BY <1>3, <4>1
        <5> QED
          BY <5>1
      <4>3. ~NoD(mwq')
        <5>1. Wait /\ Answers[Cmd] = "DEACTIVATED" /\ UNCHANGED <<pc, prog>>
          BY <2>1, WaitOnly DEF Awaits, Answers
        <5>2. ~\E p : GoOn(p)
          BY <2>1, <5>1 DEF GoOn, Awaits
        <5>3. PICK i \in 1..Len(mwq) : IsD(mwq[i])
          BY <3>4 DEF NoD
        <5>4. /\ mwq # <<>> /\ Len(mwq') = Len(mwq) - 1
              /\ \A k \in 1..Len(mwq') : k + 1 \in 1..Len(mwq) /\ mwq'[k] = mwq[k + 1]
              /\ mwq[1].kind # "DEACTIVATED"
          BY <5>1, <5>2, WaitFacts DEF Answered
        <5>5. i # 1
          BY <5>3, <5>4 DEF IsD
        <5>6. i - 1 \in 1..Len(mwq') /\ (i - 1) + 1 = i
          BY <1>2, <5>3, <5>4, <5>5
        <5>7. IsD(mwq'[i - 1])
          BY <5>3, <5>4, <5>6
        <5> QED
          BY <5>6, <5>7 DEF NoD
      <4> QED
        BY <1>1, <2>1, <3>4, <4>1, <4>2, <4>3 DEF SleepPhase
    <3> QED
      BY <1>4, <3>2, <3>3, <3>4
  <2>6. At("SELECT") => SelectPhase'
    <3> SUFFICES ASSUME At("SELECT") PROVE SelectPhase'
      OBVIOUS
    <3>1. SelectPhase /\ pc' = pc
      BY <1>9, <2>1 DEF RaceSleep, At
    <3> QED
      BY <1>1, <1>6, <2>1, <3>1 DEF SelectPhase
  <2> QED
    BY <1>1, <1>6, <1>10, <1>11, <2>2, <2>3, <2>4, <2>5, <2>6 DEF RaceSleep
<1>13. CASE Listens
  BY <1>1, <1>9, <1>13, SleepSteps DEF Listens, Dep
<1>14. CASE Asks
  <2>1. /\ pc = "run" /\ pc' # "run" /\ Cmd' = Cmd /\ prog' = prog /\ Sent
        /\ Cmd \in {"SLEEP", "SELECT"} => pc' = "wait"
    BY <1>14 DEF Asks, Cmd, Transceives
  <2>2. /\ Len(reqs) \in Nat /\ Len(reqs') = Len(reqs) + 1
        /\ \A i \in 1..Len(reqs) : reqs'[i] = reqs[i]
        /\ \A i \in 1..Len(reqs') : i \in 1..Len(reqs) \/ i = Len(reqs')
        /\ reqs'[Len(reqs')].cmd = Cmd /\ reqs'[Len(reqs')].session = own
        /\ Len(reqs') \in 1..Len(reqs')
    BY <1>1, <2>1, AskedLast
  <2>3. Cmd # "SLEEP" => (SleepPending' => SleepPending)
    BY <1>1, <2>2 DEF SleepPending, SleepAt
  <2>4. SleepPending' \/ rf' = "sleep" \/ (\E i \in 1..Len(mwq') : IsD(mwq'[i]) /\ mwq'[i].detail = "SLEEP")
          => Awaits("SLEEP")' \/ At("SELECT")'
    <3>1. CASE Cmd = "SLEEP"
      BY <2>1, <3>1 DEF Awaits
    <3>2. CASE Cmd = "SELECT"
      BY <2>1, <3>2 DEF At
    <3>3. CASE Cmd \notin {"SLEEP", "SELECT"}
      <4>1. ~Awaits("SLEEP") /\ ~At("SELECT")
        BY <3>3 DEF Awaits, At
      <4> QED
        BY <1>1, <1>3, <1>10, <2>3, <3>3, <4>1
    <3> QED
      BY <3>1, <3>2, <3>3
  <2>5. ~Step("SLEEP")'
    BY <2>1 DEF Step
  <2>6. Awaits("SLEEP")' => SleepPhase'
    <3> SUFFICES ASSUME Cmd = "SLEEP" PROVE SleepPhase'
      BY <2>1 DEF Awaits
    <3>1. ~SleepPending /\ rf = "active" /\ NoD(mwq)
      BY <1>11, <2>1 DEF Step
    <3>2. NoD(out)
      BY <3>1 DEF ReportedState, NoD, IsD
    <3>3. reqs' # <<>>
      <4>1. Len(<<>>) = 0
        OBVIOUS
      <4> QED
        BY <2>2, <4>1
    <3>4. reqs'[Len(reqs')].cmd = "SLEEP" /\ reqs'[Len(reqs')].session = session'
      BY <1>1, <2>2
    <3>5. \A i \in 1..(Len(reqs') - 1) : ~(reqs'[i].cmd = "SLEEP" /\ reqs'[i].session = session')
      BY <1>1, <2>2, <3>1 DEF SleepPending, SleepAt
    <3> QED
      BY <1>1, <1>6, <3>1, <3>2, <3>3, <3>4, <3>5 DEF SleepPhase, SleepAt
  <2>7. At("SELECT")' => SelectPhase'
    <3> SUFFICES ASSUME Cmd = "SELECT" PROVE SelectPhase'
      BY <2>1 DEF At
    <3>1. SelectPhase /\ pc = "run"
      BY <1>1, <1>9, <2>1 DEF RaceSleep, At
    <3>2. reqs = <<>> /\ Len(<<>>) = 0
      BY <3>1 DEF SelectPhase
    <3>3. Len(reqs') = 1 /\ reqs'[1].cmd = "SELECT" /\ pc' = "wait"
      BY <2>1, <2>2, <3>2
    <3> QED
      BY <1>1, <1>6, <3>1, <3>3 DEF SelectPhase
  <2> QED
    BY <2>4, <2>5, <2>6, <2>7 DEF RaceSleep
<1>15. CASE Ends
  <2>1. Cmd = "STARTED" /\ pc' = "pull" /\ reqs' = reqs
    BY <1>15 DEF Ends
  <2>2. ~Awaits("SLEEP") /\ ~At("SELECT")
    BY <2>1 DEF Awaits, At
  <2>3. ~SleepPending' /\ rf # "sleep"
    BY <1>1, <1>10, <2>1, <2>2 DEF SleepPending, SleepAt
  <2> QED
    BY <1>1, <1>3, <1>10, <2>1, <2>2, <2>3 DEF RaceSleep, Step, Awaits, At
<1>16. CASE \E p : Goes(p)
  <2>1. PICK p : Goes(p)
    BY <1>16
  <2>2. /\ Follower(p) /\ GoOn(p) /\ Cmd # "STARTED" /\ prog' = p /\ pc' \in {"run", "pull"}
        /\ pc' = "run" <=> p # <<>>
    BY <2>1 DEF Goes, GoOn
  <2>3. ~At("SELECT")
    BY <1>4, <1>5, <1>9, <2>1, SelectWaits DEF RaceSleep, At
  <2>4. SleepPending' => SleepPending
    <3>1. reqs' = reqs \/ (Cmd = "RAW" /\ Sent)
      BY <2>1 DEF Goes
    <3>2. CASE reqs' = reqs
      BY <1>1, <3>2 DEF SleepPending, SleepAt
    <3>3. CASE Cmd = "RAW" /\ Sent
      BY <1>1, <3>3, AskedLast DEF SleepPending, SleepAt
    <3> QED
      BY <3>1, <3>2, <3>3
  <2>5. Awaits("SLEEP") => pc' = "run" /\ Cmd' = "SELECT"
    BY <1>1, <1>9, <2>2, SleepEntered DEF Awaits
  <2>6. SleepPending' \/ rf' = "sleep" \/ (\E i \in 1..Len(mwq') : IsD(mwq'[i]) /\ mwq'[i].detail = "SLEEP")
          => Awaits("SLEEP")' \/ At("SELECT")'
    <3> SUFFICES ASSUME ~Awaits("SLEEP")
                 PROVE  ~(SleepPending' \/ rf' = "sleep"
                            \/ (\E i \in 1..Len(mwq') : IsD(mwq'[i]) /\ mwq'[i].detail = "SLEEP"))
      BY <2>5 DEF At
    <3> QED
      BY <1>1, <1>3, <1>10, <2>3, <2>4
  <2>7. Step("SLEEP")' => rf' = "active" /\ NoD(mwq')
    <3> SUFFICES ASSUME Step("SLEEP")' PROVE rf = "active" /\ NoD(mwq')
      BY <1>1
    <3>1. p # <<>> /\ Cmd' = "SLEEP"
      BY <2>2 DEF Step
    <3>2. Cmd = "I93"
      BY <1>1, <1>9, <2>2, <3>1, SleepEntered
    <3>3. ~Awaits("SLEEP") /\ ~At("SELECT")
      BY <3>2 DEF Awaits, At
    <3> QED
      BY <1>4, <1>7, <1>9, <1>10, <2>1, <3>1, <3>3, I93Waits
  <2>8. ~Awaits("SLEEP")'
    BY <2>2 DEF Awaits
  <2>9. At("SELECT")' => SelectPhase'
    <3> SUFFICES ASSUME At("SELECT")' PROVE SelectPhase'
      OBVIOUS
    <3>1. p # <<>> /\ Cmd' = "SELECT" /\ pc' = "run"
      BY <2>2 DEF At
    <3>2. Cmd = "SLEEP"
      BY <1>1, <2>2, <3>1, SleepEntered
    <3>3. pc = "wait"
      <4>1. pc \in {"run", "sent", "wait"} /\ (pc = "sent" => Cmd \in Transceives)
        BY <1>1 DEF Shape, ThreadShape
      <4> QED
        BY <2>1, <3>2, <4>1 DEF Goes, Transceives
    <3>4. SleepPhase
      BY <1>9, <3>2, <3>3 DEF RaceSleep, Awaits
    <3>5. rf = "sleep" /\ reqs = <<>> /\ stage \in {"dtaq", "idle"} /\ NoD(mwq') /\ reqs' = reqs
      BY <1>4, <1>5, <2>1, <3>2, <3>4, SleepWaits
    <3> QED
      BY <1>1, <3>1, <3>5 DEF SelectPhase
  <2> QED
    BY <2>6, <2>7, <2>8, <2>9 DEF RaceSleep
<1> QED
  BY <1>1, <1>12, <1>13, <1>14, <1>15, <1>16

LEMMA RacingStep ==
  Shape /\ Arrivals /\ InPhase /\ ReportedState /\ OwnSleep /\ Racing /\ [Next]_vars => Racing'
<1> SUFFICES ASSUME Shape, Arrivals, InPhase, ReportedState, OwnSleep, Racing, [Next]_vars, Race'
             PROVE  Racing'
  BY DEF Racing
<1>1. /\ Race \/ (pc = "run" /\ EnableDiscovery)
      /\ ~late /\ UNCHANGED <<tests, session>> /\ rf \in {"active", "sleep"} /\ (rf' # rf => Nfa)
  BY RaceBegins
<1>2. CASE EnableDiscovery
  <2>1. rf' = rf
    BY <1>2, ThreadKeeps DEF DtaThread, TestStep, tagVars
  <2> QED
    BY <1>1, <1>2, <2>1, RacingBegins
<1>3. CASE Race /\ UNCHANGED vars
  <2>1. /\ RaceQueue' <=> RaceQueue
        /\ RaceOrder' <=> RaceOrder
        /\ RaceSleep' <=> RaceSleep
    BY <1>3 DEF vars, tagVars, cbVars, mwif, dta, session, RaceQueue, RaceOrder, RaceSleep, SleepPhase,
                SelectPhase, SleepPending, SleepAt, Awaits, At, Step, Cmd, NoD, IsD
  <2> QED
    BY <1>3, <2>1 DEF Racing, vars, tagVars, dta, session
<1>4. CASE Race /\ CbMsgHandleThrd
  BY <1>4, RacingHandle
<1> QED
  BY <1>1, <1>2, <1>3, <1>4, RacingNfa, RacingCallback, RacingHandler DEF Next, DtaThread

-----------------------------------------------------------------------------
(* A tag that is asleep, or will be, is still to be released.              *)

Wakes ==
  ~late /\ ~astray =>
    /\ rf = "sleep" => Coming \/ InReqs({"STOP", "DEACTIVATE"})
    /\ rf = "active" => \A i \in 1..Len(reqs) : SleepAt(i) => Coming \/ Behind(i, {"STOP", "DEACTIVATE"})

LEMMA WakesNfa ==
  ASSUME Shape, Arrivals, Wakes, Nfa
  PROVE  Wakes'
<1>1. late' = late /\ Coming' = Coming
  <2>1. UNCHANGED <<late, pc, prog>>
    BY NfaMoves
  <2> QED
    BY <2>1 DEF Coming
<1>2. ~Drowsy' /\ ~astray' => rf' # "sleep" /\ (rf' = "active" => \A i \in 1..Len(reqs') : ~SleepAt(i)')
  BY DEF Drowsy, SleepPending
<1>3. CASE ~Drowsy'
  BY <1>2, <1>3 DEF Wakes
<1>4. CASE Drowsy'
  <2> DEFINE cs == {"STOP", "DEACTIVATE"}
  <2>1. /\ reqs # <<>> /\ reqs' = Tail(reqs) /\ 1 \in 1..Len(reqs) /\ ~astray
        /\ \/ rf' = "sleep" /\ rf = "sleep" /\ Head(reqs).cmd \notin cs
           \/ rf' = "sleep" /\ rf = "active" /\ SleepAt(1)
           \/ rf' = "active" /\ rf = "active" /\ \A i \in 1..Len(reqs') : SleepAt(i)' => SleepAt(i + 1)
    BY <1>4, DrowsyNfa
  <2>2. /\ InReqs(cs) /\ Head(reqs).cmd \notin cs => InReqs(cs)'
        /\ Behind(1, cs) => InReqs(cs)'
        /\ \A i \in 1..Len(reqs') : Behind(i + 1, cs) => Behind(i, cs)'
    BY <2>1, InReqsTail
  <2>3. \A i \in 1..Len(reqs') : i + 1 \in 1..Len(reqs)
    BY <2>1, TailReqs
  <2> SUFFICES ASSUME ~late
               PROVE  /\ rf' = "sleep" => Coming \/ InReqs(cs)'
                      /\ rf' = "active" => \A i \in 1..Len(reqs') : SleepAt(i)' => Coming \/ Behind(i, cs)'
    BY <1>1 DEF Wakes
  <2>4. /\ rf = "sleep" => Coming \/ InReqs(cs)
        /\ rf = "active" => \A i \in 1..Len(reqs) : SleepAt(i) => Coming \/ Behind(i, cs)
    BY <2>1 DEF Wakes
  <2> HIDE DEF cs
  <2> QED
    BY <2>1, <2>2, <2>3, <2>4
<1> QED
  BY <1>3, <1>4

(* In a race a test that is past its sleep has woken its tag.              *)
LEMMA NoRaceAsleep ==
  ASSUME Shape, Arrivals, InPhase, OwnSleep, Racing, Drowsy, ~late,
         pc = "run", Cmd \in {"STOP", "DEACTIVATE"}
  PROVE  /\ Cmd = "STOP" => devState # "IDLE"
         /\ Cmd = "DEACTIVATE" /\ test.tag \notin Dep => devState # "DISC"
<1>1. own = session /\ test.tag \in Dep \cup {"T5T"} /\ ~astray /\ rf \in {"active", "sleep"}
  BY DEF OwnSleep, Drowsy
<1>2. ASSUME Cmd = "STOP", devState = "IDLE" PROVE FALSE
  BY <1>2 DEF InPhase, Phases, Restarting, Awaits, At
<1>3. ASSUME Cmd = "DEACTIVATE", test.tag \notin Dep, devState = "DISC" PROVE FALSE
  <2>1. Noted
    <3>1. ~(own < session)
      <4>1. session \in Nat
        BY SessionType DEF Shape
      <4> QED
        BY <1>1, <4>1
    <3> QED
      BY <3>1 DEF Noted, Arrivals, Latest
  <2>2. Race
    BY <1>1, <1>3, <2>1 DEF Race
  <2>3. RaceSleep
    BY <1>1, <1>3, <2>2 DEF Racing, test
  <2>4. SleepPending \/ rf = "sleep"
    BY DEF Drowsy
  <2> QED
    BY <1>3, <2>3, <2>4 DEF RaceSleep, Awaits, At
<1> QED
  BY <1>2, <1>3

LEMMA WakesHandler ==
  ASSUME Shape, Arrivals, InPhase, OwnSleep, Racing, Wakes, TestStep \/ Wait
  PROVE  Wakes'
<1> DEFINE cs == {"STOP", "DEACTIVATE"}
<1>1. /\ UNCHANGED <<rf, tests, session, astray, own, test>>
      /\ pc # "pull" /\ own > 0 /\ test \in TestRecords /\ prog # <<>> /\ ProgFits(test, prog)
      /\ Stays \/ Listens \/ Asks \/ Ends \/ \E p : Goes(p)
  BY HandlerMoves
<1> SUFFICES ASSUME ~late', ~astray
             PROVE  /\ rf = "sleep" => Coming' \/ InReqs(cs)'
                    /\ rf = "active" => \A i \in 1..Len(reqs') : SleepAt(i)' => Coming' \/ Behind(i, cs)'
  BY <1>1 DEF Wakes
<1>2. ~late
  <2>1. CASE Wait
    <3>1. late \in BOOLEAN
      BY DEF Shape, ThreadShape
    <3> QED
      BY <2>1, <3>1, WaitFacts
  <2>2. CASE TestStep
    BY <2>2 DEF TestStep, Disconnected, DeactivatedAlready, StopIdle, EnableDiscovery,
              ConsumeDeactivated, ReceiveData, Send, SendRawFrame, Transceive, TransceiveSent, StepFrame
  <2> QED
    BY <2>1, <2>2
<1>3. /\ rf = "sleep" => Coming \/ InReqs(cs)
      /\ rf = "active" => \A i \in 1..Len(reqs) : SleepAt(i) => Coming \/ Behind(i, cs)
  BY <1>2 DEF Wakes
<1>4. /\ InReqs(cs) => InReqs(cs)'
      /\ \A i \in 1..Len(reqs) : Behind(i, cs) => Behind(i, cs)'
  <2>1. reqs' = reqs \/ Sent
    BY <1>1 DEF Stays, Listens, Asks, Ends, Goes
  <2>2. CASE reqs' = reqs
    BY <2>2 DEF InReqs, Behind
  <2>3. CASE Sent
    BY <1>1, <2>3, InReqsAsked
  <2> QED
    BY <2>1, <2>2, <2>3
<1>5. Drowsy /\ Coming => Coming' \/ (InReqs(cs)' /\ \A i \in 1..Len(reqs) : Behind(i, cs)')
  <2> SUFFICES ASSUME Drowsy, Coming
               PROVE  Coming' \/ (InReqs(cs)' /\ \A i \in 1..Len(reqs) : Behind(i, cs)')
    OBVIOUS
  <2>1. test.tag = "T5T" \/ (test.tag \in Dep /\ IsSuffix(prog, Sleeps \o Restart))
    BY DEF OwnSleep
  <2>2. ~Excused(test) \/ (test.tag \in Dep /\ IsSuffix(prog, Sleeps \o Restart))
    BY <2>1 DEF Excused, Dep
  <2>3. ~(Step("DEACTIVATE") /\ devState = "DISC" /\ test.tag \notin Dep)
    BY <1>2, NoRaceAsleep DEF Step
  <2>4. ~(Step("STOP") /\ devState = "IDLE")
    BY <1>2, NoRaceAsleep DEF Step
  <2> QED
    BY <2>2, <2>3, <2>4, ComingKept
<1>6. Asks /\ Cmd = "SLEEP" /\ own = session => Coming'
  <2> SUFFICES ASSUME Asks, Cmd = "SLEEP" PROVE Coming'
    OBVIOUS
  <2>1. prog' = prog
    BY DEF Asks
  <2>2. CASE test.tag = "T5T"
    <3>1. IsSuffix(prog, SleepTest) /\ Cmd = prog[1].cmd
      BY <1>1, <2>2, SleepSteps
    <3>2. prog \in Seq(StepRec)
      <4>1. prog \in Seq(StepsOf(Alphabet(test)))
        BY <1>1 DEF ProgFits
      <4> QED
        BY <4>1 DEF StepsOf
    <3>3. Len(prog) = 6 /\ prog[Len(prog)].cmd = "DEACTIVATE"
      BY <1>1, <3>1, <3>2, SleepTestPlace
    <3>4. 6 \in 1..Len(prog') /\ 6 # 1 /\ prog'[6].cmd = "DEACTIVATE"
      BY <2>1, <3>3
    <3> QED
      BY <3>4 DEF Coming
  <2>3. CASE test.tag \in Dep
    <3>1. prog = Sleeps \o Restart
      BY <1>1, <2>3, SleepSteps
    <3>2. Len(prog) = 7 /\ prog[2].cmd = "DEACTIVATE"
      BY <3>1, SleepsRestartSteps, DoCmd
    <3>3. 2 \in 1..Len(prog') /\ 2 # 1 /\ prog'[2].cmd = "DEACTIVATE"
      BY <2>1, <3>2
    <3> QED
      BY <3>3 DEF Coming
  <2> QED
    BY <1>1, <2>2, <2>3, SleepSteps
<1>7. ASSUME rf = "sleep" PROVE Coming' \/ InReqs(cs)'
  <2>1. Drowsy
    BY <1>7 DEF Drowsy
  <2> QED
    BY <1>3, <1>4, <1>5, <1>7, <2>1
<1>8. ASSUME rf = "active", NEW i \in 1..Len(reqs'), SleepAt(i)'
      PROVE  Coming' \/ Behind(i, cs)'
  <2>1. CASE i \in 1..Len(reqs) /\ SleepAt(i)
    <3>1. Drowsy
      BY <1>8, <2>1 DEF Drowsy, SleepPending
    <3> QED
      BY <1>3, <1>4, <1>5, <1>8, <2>1, <3>1
  <2>2. CASE Asks /\ Cmd = "SLEEP" /\ own = session
    BY <1>6, <2>2
  <2> QED
    BY <1>8, <2>1, <2>2, SleepSent
<1> QED
  BY <1>7, <1>8

LEMMA WakesStep ==
  Shape /\ Arrivals /\ InPhase /\ OwnSleep /\ Racing /\ Wakes /\ [Next]_vars => Wakes'
<1> SUFFICES ASSUME Shape, Arrivals, InPhase, OwnSleep, Racing, Wakes, [Next]_vars PROVE Wakes'
  OBVIOUS
<1>1. ASSUME UNCHANGED <<late, astray, rf, session, reqs, pc, prog>> PROVE Wakes'
  BY <1>1 DEF Wakes, Coming, InReqs, Behind, SleepAt
<1>2. CASE UNCHANGED vars
  BY <1>1, <1>2 DEF vars, tagVars, dta, session
<1>3. CASE Callback
  <2>1. UNCHANGED <<rf, session, reqs, pc, prog, late>>
    BY <1>3, CallbackMoves
  <2>2. astray' = astray
    BY <1>3 DEF Callback, NotifyState, PushMw, EvtCb, CbFrame, tagVars
  <2> QED
    BY <1>1, <2>1, <2>2
<1>4. CASE CbMsgHandleThrd
  <2>1. UNCHANGED <<rf, session, astray, reqs, late>>
    BY <1>4, HandleMoves
  <2>2. CASE UNCHANGED <<pc, prog>>
    BY <1>1, <2>1, <2>2
  <2>3. CASE Coming'
    BY <2>1, <2>3 DEF Wakes
  <2> QED
    BY <1>4, <2>2, <2>3, HandleMoves
<1> QED
  BY <1>2, <1>3, <1>4, WakesNfa, WakesHandler DEF Next, DtaThread

(* What leads every tag to its release: what keeps a restart clean, the    *)
(* start that follows every stop, the controller's state while its reports *)
(* are on their way, the selections that come behind a sleep, the release  *)
(* that is still to come or asked for, and the phases of the sleep of a tag*)
(* that came in the race of phMwIf_EnableDiscovery.                        *)
ReleaseInvariant ==
  /\ RestartInvariant /\ OffRestarts /\ ReportedState /\ SelectsAsleep
  /\ Held /\ OwnSleep /\ Racing /\ Wakes

LEMMA ReleaseInvariantInit == Init => ReleaseInvariant
<1> SUFFICES ASSUME Init PROVE ReleaseInvariant
  OBVIOUS
<1>1. Shape /\ Arrivals /\ InPhase /\ OffRestarts /\ ReportedState /\ SelectsAsleep
  BY ShapeInit, ArrivalsInit, PhasesInit, OffRestartsInit, ReportedInit
<1>2. rf = "disc"
  BY DEF Init
<1>3. Held /\ OwnSleep /\ Racing /\ Wakes
  BY <1>2 DEF Held, OwnSleep, Drowsy, Racing, Race, Wakes
<1> QED
  BY <1>1, <1>3 DEF ReleaseInvariant, RestartInvariant

LEMMA ReleaseInvariantAlways == Spec => []ReleaseInvariant
<1>1. ReleaseInvariant /\ [Next]_vars => ReleaseInvariant'
  BY ShapeStep, ArrivalsStep, PhasesStep, OffRestartsStep, ReportedStep, SelectsStep, HeldStep,
     OwnSleepStep, RacingStep, WakesStep DEF ReleaseInvariant, RestartInvariant
<1> QED
  BY ReleaseInvariantInit, <1>1, PTL DEF Spec

LEMMA ReleasedWhenQuiet == ReleaseInvariant => ReleasedAfterTest
<1> SUFFICES ASSUME ReleaseInvariant, Quiet, rf # "disc"
             PROVE  \/ rf = "active" /\ devState # "ACTIVE"
                    \/ rf # "off" /\ (astray \/ (test.tag = "T1T" /\ ~test.cr12))
                    \/ rf = "active" /\ test.tag \in Dep
                    \/ rf = "sleep" /\ late
  BY DEF ReleasedAfterTest
<1>1. /\ Shape /\ Arrivals /\ OffRestarts /\ ReportedState /\ Held /\ Wakes
  BY DEF ReleaseInvariant, RestartInvariant
<1>2. Len(<<>>) = 0
  OBVIOUS
<1>3. out = <<>> /\ reqs = <<>> /\ dtaq = <<>> /\ pc = "pull" /\ prog = <<>>
  BY <1>1 DEF Quiet, NfaIdle, Shape, ThreadShape
<1>4. \A cs : ~InReqs(cs)
  BY <1>2, <1>3 DEF InReqs
<1>5. ~Coming
  BY <1>2, <1>3 DEF Coming
<1>6. rf # "off"
  BY <1>1, <1>3, <1>4 DEF OffRestarts, Starting, Awaits, At, Step
<1>7. rf \in {"active", "sleep"} /\ own = session
  <2>1. rf \in {"active", "sleep"}
    BY <1>1, <1>6 DEF Shape, TagShape
  <2>2. ~(own < session)
    BY <1>1, <1>2, <1>3 DEF Arrivals, Latest
  <2>3. own \in 0..session /\ session \in Nat
    BY <1>1, SessionType DEF Shape, ThreadShape
  <2> QED
    BY <2>1, <2>2, <2>3
<1>8. rf = "active" /\ ~astray /\ ~Excused(test) => devState # "ACTIVE"
  BY <1>1, <1>4, <1>5, <1>7 DEF Held
<1>9. rf = "sleep" /\ ~astray => late
  BY <1>1, <1>4, <1>5 DEF Wakes
<1> QED
  BY <1>6, <1>7, <1>8, <1>9 DEF Excused

(* When every event is handled no test leaves the discovery stopped, nor   *)
(* its tag activated or asleep, whatever the tag did and however its waits *)
(* ended; but for the exceptions the property names.                       *)
THEOREM TestsRelease == Spec => []ReleasedAfterTest
BY ReleaseInvariantAlways, ReleasedWhenQuiet, PTL
=============================================================================
