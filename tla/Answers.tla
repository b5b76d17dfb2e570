-------------------------------- MODULE Answers --------------------------------
(***************************************************************************)
(* What is asked, what is accepted for it and what is made of it: the      *)
(* question a function asks (src/jev_extension.cpp:947-959),               *)
(* ValidateQuestions (:155-195), ValidateAnswer (:826-875) and the result  *)
(* Evaluate builds of an accepted answer (:1123-1155), whose reads have no *)
(* handler around them: one that fails is an error the code does not name. *)
(*                                                                         *)
(* A JSON value is a record with one field, its kind.  Numbers are counted *)
(* in Units of a Unit-th, and where a comparison of doubles falls on the   *)
(* bound, rounding may decide it either way (up).  A text is a string that *)
(* is only compared.                                                       *)
(***************************************************************************)
EXTENDS Integers, FiniteSetsExt, SequencesExt

CONSTANTS
  Calls,          \* what users ask: [name, args], args the fields of the question
  Truths,         \* by size: the distributions, as sequences
  Samples,        \* by size: those of them a faulty provider starts from
  Unit,           \* 100
  Fine,           \* a truth is counted in Fine-ths of a Unit
  SumTolerance, ScoreTolerance,   \* 0.02 and 0.05 in Units
  MaxChoices, MaxLevels,          \* 255 and 10
  LevelKeys,      \* "0", "1", ...: the keys of a score's levels
  Junk,           \* values in wrong places
  MaxFaults       \* bounds the model, not the code

WellFormed(j) ==
  /\ "obj" \in DOMAIN j => IsFiniteSet(DOMAIN j.obj)
  /\ "arr" \in DOMAIN j => DOMAIN j.arr = 1 .. Len(j.arr)

ASSUME AnswersAssumption ==
  /\ \A call \in Calls : \A f \in DOMAIN call.args : WellFormed(call.args[f])
  /\ \A j \in Junk : WellFormed(j)
  /\ {Unit, SumTolerance, ScoreTolerance} \subseteq Nat /\ Fine \in Nat \ {0}
  /\ MaxLevels \in Nat /\ MaxLevels <= Len(LevelKeys)
  /\ LevelKeys \in Seq(STRING)
  /\ \A i, j \in DOMAIN LevelKeys : LevelKeys[i] = LevelKeys[j] => i = j

(* By how much, in 2*Fine-ths of a Unit, a rounded number may be off: a     *)
(* half Unit when it is rounded to the nearest, less than one to either     *)
(* neighbour.                                                               *)
Off == [nearest |-> Fine, neighbour |-> 2 * Fine - 1, faulty |-> Fine]

(* The truths are distributions, of every size rounding may not spoil; and *)
(* a rounded mean is within its tolerance if a rounded sum is within its:  *)
(* each of n numbers counts at most n - 1 times in the mean, which is      *)
(* itself rounded once.                                                    *)
ASSUME TruthsAssumption ==
  /\ 1 .. 2 * SumTolerance - 1 \subseteq DOMAIN Truths
  /\ \A n \in DOMAIN Truths : \A t \in Truths[n] :
       t \in [1 .. n -> Nat] /\ SumFunction(t) = Unit * Fine
  /\ \A p \in DOMAIN Off, n \in 2 .. MaxLevels :
       n * Off[p] < 2 * Fine * SumTolerance => (n * (n - 1) + 1) * Off[p] < 2 * Fine * ScoreTolerance

VARIABLES phase, name, question, answer, result,
          provider,   \* rounds to the nearest, to a neighbour, or errs as the user may
          faults

answerVars == <<phase, name, question, answer, result, provider, faults>>

Is(kind, j) == kind \in DOMAIN j
Has(o, field, kind) == field \in DOMAIN o /\ Is(kind, o[field])

Without(o, f) == [g \in DOMAIN o \ {f} |-> o[g]]
With(o, f, j) == [g \in DOMAIN o \cup {f} |-> IF g = f THEN j ELSE o[g]]

Description(j) == Is("str", j) \/ Is("obj", j) \/ Is("arr", j)

-----------------------------------------------------------------------------
(* Questions *)

ValidCriteria(q) ==
  CASE q.type.str = "choice" ->
         /\ Has(q, "criteria", "obj") /\ Cardinality(DOMAIN q.criteria.obj) \in 1 .. MaxChoices
         /\ \A k \in DOMAIN q.criteria.obj :
              k # "" /\ (Is("null", q.criteria.obj[k]) \/ Description(q.criteria.obj[k]))
    [] q.type.str = "score" ->
         /\ Has(q, "criteria", "arr") /\ Len(q.criteria.arr) \in 2 .. MaxLevels
         /\ \A i \in DOMAIN q.criteria.arr : Description(q.criteria.arr[i])
    [] q.type.str = "noul" ->
         "criteria" \in DOMAIN q =>
           /\ Is("obj", q.criteria)
           /\ \A k \in DOMAIN q.criteria.obj :
                k \in {"true", "false"} /\ Description(q.criteria.obj[k])
    [] OTHER -> FALSE

ValidQuestion(q) ==
  /\ Has(q, "type", "str")
  /\ "instructions" \in DOMAIN q /\ Description(q.instructions)
  /\ DOMAIN q \subseteq {"type", "instructions", "criteria"}
  /\ ValidCriteria(q)

(* All functions but jev_eval name the type themselves.                    *)
TypeAsked ==
  [f \in {"jev", "jev_noul", "jev_choice", "jev_score"} |->
     CASE f = "jev_choice" -> "choice" [] f = "jev_score" -> "score" [] OTHER -> "noul"]

Asked(call) ==
  IF call.name = "jev_eval" THEN call.args
  ELSE With(call.args, "type", [str |-> TypeAsked[call.name]])

ValidateQuestions ==
  /\ phase = "question"
  /\ phase' = IF ValidQuestion(question) THEN "asked" ELSE "refused"
  /\ UNCHANGED <<name, question, answer, result, provider, faults>>

-----------------------------------------------------------------------------
(* Answers *)

Type(q) == q.type.str
Keys(q) == IF Type(q) = "choice" THEN DOMAIN q.criteria.obj
           ELSE { LevelKeys[i] : i \in DOMAIN q.criteria.arr }

Number(j) == Is("num", j)
Probability(j) == Number(j) /\ j.num \in 0 .. Unit

Near(x, y, tolerance, up) ==
  LET d == IF x < y THEN y - x ELSE x - y IN d < tolerance \/ (up /\ d = tolerance)

Total(p) == SumFunction([k \in DOMAIN p |-> p[k].num])
Mean(p)  == SumFunction([i \in DOMAIN LevelKeys |->
                           IF LevelKeys[i] \in DOMAIN p THEN (i - 1) * p[LevelKeys[i]].num ELSE 0])

(* mutant: a distribution may leave out criteria *)
SomeKeys(p, q) == DOMAIN p # {}

AllKeys(p, q) == Cardinality(DOMAIN p) = Cardinality(Keys(q))

(* mutant: a sum that falls short of one is refused *)
SumNotShort(p, up) == Total(p) \in Unit .. Unit + SumTolerance

SumsToOne(p, up) == Near(Total(p), Unit, SumTolerance, up)

ValidDistribution(p, q, up) ==
  /\ AllKeys(p, q)
  /\ \A k \in DOMAIN p : Probability(p[k]) /\ k \in Keys(q)
  /\ SumsToOne(p, up)

(* mutant: any score of the scale will do *)
OnTheScale(a, up) == TRUE

ScoreNear(a, up) == Near(a.score.num, Mean(a.probabilities.obj), ScoreTolerance, up)

(* mutant: the legend is not compared *)
AnyLegend(a, q) == TRUE

ValidLegend(a, q) ==
  /\ Has(a, "legend", "obj")
  /\ Cardinality(DOMAIN a.legend.obj) = Len(q.criteria.arr)
  /\ \A i \in DOMAIN q.criteria.arr :
       /\ LevelKeys[i] \in DOMAIN a.legend.obj
       /\ a.legend.obj[LevelKeys[i]] = q.criteria.arr[i]

ValidAnswer(a, q, up) ==
  /\ Has(a, "type", "str") /\ a.type = q.type
  /\ IF Type(q) = "noul" THEN "noul" \in DOMAIN a /\ Probability(a.noul)
     ELSE /\ "confidence" \in DOMAIN a /\ Probability(a.confidence)
          /\ Has(a, "probabilities", "obj") /\ ValidDistribution(a.probabilities.obj, q, up)
          /\ IF Type(q) = "choice"
               THEN Has(a, "choice", "str") /\ a.choice.str \in Keys(q)
               ELSE /\ "score" \in DOMAIN a /\ Number(a.score)
                    /\ a.score.num \in 0 .. (Len(q.criteria.arr) - 1) * Unit
                    /\ ScoreNear(a, up)
                    /\ ValidLegend(a, q)

ValidateAnswer ==
  /\ phase = "answered"
  /\ \E up \in BOOLEAN : phase' = IF ValidAnswer(answer, question, up) THEN "accepted" ELSE "refused"
  /\ UNCHANGED <<name, question, answer, result, provider, faults>>

-----------------------------------------------------------------------------
(* Results *)

(* The fields a function's result is made of, with the type it needs.      *)
Reads ==
  CASE name \in {"jev", "jev_noul"} -> {<<"noul", "num">>}
    [] name = "jev_choice" -> {<<"choice", "str">>, <<"confidence", "num">>, <<"probabilities", "obj">>}
    [] name = "jev_score"  -> {<<"score", "num">>, <<"confidence", "num">>, <<"probabilities", "obj">>,
                               <<"legend", "obj">>}
    [] OTHER -> {}

CanRead(r) ==
  /\ Has(answer, r[1], r[2])
  /\ r[1] = "probabilities" => \A k \in DOMAIN answer.probabilities.obj : Number(answer.probabilities.obj[k])

Build ==
  /\ phase = "accepted"
  /\ IF \A r \in Reads : CanRead(r)
       THEN phase' = "built" /\ result' = [f \in { r[1] : r \in Reads } |-> answer[f]]
       ELSE phase' = "threw" /\ UNCHANGED result
  /\ UNCHANGED <<name, question, answer, provider, faults>>

-----------------------------------------------------------------------------
(* The user and the provider *)

(* An object with one field missing, wrong or too many, or one inside it.  *)
Spoilt1(o) ==
  { Without(o, f) : f \in DOMAIN o }
  \cup UNION { { With(o, f, j) : j \in Junk } : f \in DOMAIN o \cup {"", "other"} }
Spoilt(o) ==
  Spoilt1(o) \cup UNION { { With(o, f, [obj |-> s]) : s \in Spoilt1(o[f].obj) }
                            : f \in { f \in DOMAIN o : Is("obj", o[f]) } }

SpoilQuestion ==
  /\ phase = "question" /\ provider = "faulty" /\ faults < MaxFaults
  /\ question' \in Spoilt(question)
  /\ name # "jev_eval" => DOMAIN question' = DOMAIN question /\ question'.type = question.type
  /\ faults' = faults + 1
  /\ UNCHANGED <<phase, name, answer, result, provider>>

(* x Units are a rounding of t Fine-ths, which lies off by no more.         *)
Rounds(x, t, off) == 2 * Fine * x \in 2 * t - off .. 2 * t + off

Expected(t) == SumFunction([i \in DOMAIN t |-> (i - 1) * t[i]])

Order(q) == IF Type(q) = "choice" THEN SetToSeq(Keys(q))
            ELSE SubSeq(LevelKeys, 1, Len(q.criteria.arr))
Place(ks, k) == CHOOSE i \in DOMAIN ks : ks[i] = k

Legend(q) == LET ks == Order(q) IN [k \in ToSet(ks) |-> q.criteria.arr[Place(ks, k)]]

(* p is a distribution rounded to Units, and s its mean.                   *)
Distribution(q, p) ==
  LET ks == Order(q)
  IN  [type |-> q.type, confidence |-> [num |-> Unit],
       probabilities |-> [obj |-> [k \in ToSet(ks) |-> [num |-> p[Place(ks, k)]]]]]

Rounded(q, p, s) ==
  CASE Type(q) = "choice" -> With(Distribution(q, p), "choice", [str |-> Order(q)[1]])
    [] Type(q) = "score" ->
         With(With(Distribution(q, p), "score", [num |-> s]), "legend", [obj |-> Legend(q)])
    [] OTHER -> [type |-> q.type, noul |-> [num |-> p[1]]]

Options(q) == IF Type(q) = "noul" THEN 2 ELSE Cardinality(Keys(q))

(* Each number goes down or up, its mean's as number 0.                    *)
Answer ==
  /\ phase = "asked"
  /\ \E t \in (IF provider = "faulty" THEN Samples ELSE Truths)[Options(question)] :
     \E up \in [0 .. Options(question) -> {0, 1}] :
       LET p == [i \in DOMAIN t |-> t[i] \div Fine + up[i]]
           s == Expected(t) \div Fine + up[0]
       IN  /\ \A i \in DOMAIN t : Rounds(p[i], t[i], Off[provider])
           /\ Rounds(s, Expected(t), Off[provider])
           /\ answer' = Rounded(question, p, s)
  /\ phase' = "answered"
  /\ UNCHANGED <<name, question, result, provider, faults>>

SpoilAnswer ==
  /\ phase = "answered" /\ provider = "faulty" /\ faults < MaxFaults
  /\ answer' \in Spoilt(answer)
  /\ faults' = faults + 1
  /\ UNCHANGED <<phase, name, question, result, provider>>

Init ==
  /\ phase = "question"
  /\ \E call \in Calls : name = call.name /\ question = Asked(call)
  /\ answer = <<>> /\ result = <<>> /\ provider \in DOMAIN Off /\ faults = 0

Next == SpoilQuestion \/ ValidateQuestions \/ Answer \/ SpoilAnswer \/ ValidateAnswer \/ Build

Spec == Init /\ [][Next]_answerVars
-----------------------------------------------------------------------------
(* Properties *)

(***************************************************************************)
(* Whatever the provider says, an answer that was accepted has every field *)
(* the result is made of, with its type (ValidateAnswer and the reads of   *)
(* Evaluate, jev_extension.cpp:826-875, 1129-1151).                        *)
(***************************************************************************)
ReadsSucceed == phase # "threw"

(***************************************************************************)
(* An accepted judgment is whole: every criterion has a probability and    *)
(* nothing else has, the choice is one of them, the legend names every     *)
(* level; although the code compares only sizes and looks keys up          *)
(* (jev_extension.cpp:836-873).                                            *)
(***************************************************************************)
WholeJudgment ==
  phase \in {"accepted", "built"} /\ Type(question) # "noul" =>
    /\ Has(answer, "probabilities", "obj") /\ DOMAIN answer.probabilities.obj = Keys(question)
    /\ Type(question) = "choice" => Has(answer, "choice", "str") /\ answer.choice.str \in Keys(question)
    /\ Type(question) = "score" => Has(answer, "legend", "obj") /\ DOMAIN answer.legend.obj = Keys(question)

(***************************************************************************)
(* README.md:135: a score is the expected rubric index.  The code compares *)
(* it with a sum that is not normalised (jev_extension.cpp:850, 864-865):  *)
(* of the index expected under the normalised distribution it misses no    *)
(* more than both tolerances together allow, the top level times the one   *)
(* of the sum.                                                             *)
(***************************************************************************)
ScoreIsExpected ==
  phase \in {"accepted", "built"} /\ Type(question) = "score" =>
    LET p     == answer.probabilities.obj
        top   == Len(question.criteria.arr) - 1
        error == answer.score.num * Total(p) - Mean(p) * Unit
        bound == Unit * (ScoreTolerance + top * SumTolerance)
    IN  error \in -bound .. bound

(***************************************************************************)
(* The tolerances leave room for a provider that rounds its numbers to     *)
(* Units, each by itself (jev_extension.cpp:856, 865): when it rounds each *)
(* to the nearest, the half Units as it likes, no answer to a valid        *)
(* question of up to three criteria is refused, and when it may cut one    *)
(* off and raise another, none to a question of two; whether the rounded   *)
(* sum falls short of one, as of three thirds, or passes it.               *)
(***************************************************************************)
HonestAccepted ==
  /\ provider # "faulty" /\ ValidQuestion(question)
  /\ Options(question) * Off[provider] < 2 * Fine * SumTolerance
  => phase # "refused"
================================================================================
