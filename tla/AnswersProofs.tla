----------------------------- MODULE AnswersProofs -----------------------------
(***************************************************************************)
(* For every question that can be asked and every answer that can be made  *)
(* of an honest one by spoiling it: what ValidateAnswer accepts is whole,  *)
(* can be read, and scores what it should; and an honest one is accepted.  *)
(***************************************************************************)
EXTENDS Answers, SumTheorems, FiniteSetTheorems, FunctionTheorems, TLAPS

Phases == {"question", "asked", "answered", "accepted", "built", "refused", "threw"}

(* A function that names the type has asked for it. *)
TypeInv == name \in DOMAIN TypeAsked => question.type = [str |-> TypeAsked[name]]

QuestionInv ==
  /\ \A f \in DOMAIN question : WellFormed(question[f])
  /\ phase \notin {"question", "refused"} => ValidQuestion(question)

AnswerInv ==
  /\ Has(answer, "legend", "obj") => IsFiniteSet(DOMAIN answer.legend.obj)
  /\ phase \in {"accepted", "built", "threw"} => \E up \in BOOLEAN : ValidAnswer(answer, question, up)

AnswersInv == phase \in Phases \ {"threw"} /\ TypeInv /\ QuestionInv /\ AnswerInv

-----------------------------------------------------------------------------
(* Objects and their defects *)

LEMMA WithFields ==
  ASSUME NEW o, NEW f, NEW j
  PROVE  /\ DOMAIN With(o, f, j) = DOMAIN o \cup {f}
         /\ With(o, f, j)[f] = j
         /\ \A g \in DOMAIN o \ {f} : With(o, f, j)[g] = o[g]
BY DEF With

LEMMA WithoutFields ==
  ASSUME NEW o, NEW f
  PROVE  /\ DOMAIN Without(o, f) = DOMAIN o \ {f}
         /\ \A g \in DOMAIN o \ {f} : Without(o, f)[g] = o[g]
BY DEF Without

LEMMA OneDefect ==
  ASSUME NEW o, NEW s \in Spoilt1(o)
  PROVE  \/ \E f \in DOMAIN o : s = Without(o, f)
         \/ \E f \in DOMAIN o \cup {"", "other"}, j \in Junk : s = With(o, f, j)
BY Zenon DEF Spoilt1

(* One defect adds a field at most. *)
LEMMA SpoiltFinite ==
  ASSUME NEW o, IsFiniteSet(DOMAIN o), NEW s \in Spoilt1(o)
  PROVE  IsFiniteSet(DOMAIN s)
<1>1. ASSUME NEW f \in DOMAIN o, s = Without(o, f) PROVE IsFiniteSet(DOMAIN s)
  <2>1. DOMAIN s \in SUBSET DOMAIN o
    BY <1>1, WithoutFields
  <2> QED
    BY <2>1, FS_Subset
<1>2. ASSUME NEW f, NEW j, s = With(o, f, j) PROVE IsFiniteSet(DOMAIN s)
  <2>1. DOMAIN s = DOMAIN o \cup {f}
    BY <1>2, WithFields
  <2> QED
    BY <2>1, FS_AddElement
<1>3. \/ \E f \in DOMAIN o : s = Without(o, f)
      \/ \E f \in DOMAIN o \cup {"", "other"}, j \in Junk : s = With(o, f, j)
  BY OneDefect
<1> QED
  BY <1>1, <1>2, <1>3

(* A field of a spoilt object is one it had, junk, or a spoilt object. *)
LEMMA SpoiltField ==
  ASSUME NEW o, NEW s \in Spoilt(o), NEW g \in DOMAIN s
  PROVE  \/ g \in DOMAIN o /\ s[g] = o[g]
         \/ s[g] \in Junk
         \/ /\ g \in DOMAIN o /\ Is("obj", o[g])
            /\ \E t \in Spoilt1(o[g].obj) : s[g] = [obj |-> t]
<1>1. ASSUME NEW f \in DOMAIN o, s = Without(o, f) PROVE g \in DOMAIN o /\ s[g] = o[g]
  BY <1>1, WithoutFields
<1>2. ASSUME NEW f, NEW j, s = With(o, f, j) PROVE (g \in DOMAIN o /\ s[g] = o[g]) \/ (g = f /\ s[g] = j)
  <2>1. /\ DOMAIN With(o, f, j) = DOMAIN o \cup {f}
        /\ With(o, f, j)[f] = j
        /\ \A h \in DOMAIN o \ {f} : With(o, f, j)[h] = o[h]
    BY DEF With
  <2> QED
    BY <1>2, <2>1
<1>3. \/ \E f \in DOMAIN o : s = Without(o, f)
      \/ \E f \in DOMAIN o \cup {"", "other"}, j \in Junk : s = With(o, f, j)
      \/ \E f \in DOMAIN o : Is("obj", o[f]) /\ \E t \in Spoilt1(o[f].obj) : s = With(o, f, [obj |-> t])
  <2>1. CASE s \in Spoilt1(o)
    BY <2>1, OneDefect
  <2>2. CASE s \notin Spoilt1(o)
    <3>1. PICK S \in { { With(o, f, [obj |-> t]) : t \in Spoilt1(o[f].obj) }
                          : f \in { f \in DOMAIN o : Is("obj", o[f]) } } : s \in S
      BY <2>2, Zenon DEF Spoilt
    <3>2. PICK f \in DOMAIN o : Is("obj", o[f]) /\ S = { With(o, f, [obj |-> t]) : t \in Spoilt1(o[f].obj) }
      BY <3>1, Zenon
    <3>3. \E t \in Spoilt1(o[f].obj) : s = With(o, f, [obj |-> t])
      BY <3>1, <3>2, Zenon
    <3> QED
      BY <3>2, <3>3
  <2> QED
    BY <2>1, <2>2
<1>4. CASE \E f \in DOMAIN o : s = Without(o, f)
  BY <1>4, <1>1
<1>5. CASE \E f \in DOMAIN o \cup {"", "other"}, j \in Junk : s = With(o, f, j)
  BY <1>5, <1>2
<1>6. CASE \E f \in DOMAIN o : Is("obj", o[f]) /\ \E t \in Spoilt1(o[f].obj) : s = With(o, f, [obj |-> t])
  <2> PICK f \in DOMAIN o : Is("obj", o[f]) /\ \E t \in Spoilt1(o[f].obj) : s = With(o, f, [obj |-> t])
    BY <1>6
  <2> PICK t \in Spoilt1(o[f].obj) : s = With(o, f, [obj |-> t])
    OBVIOUS
  <2> QED
    BY <1>2
<1> QED
  BY <1>3, <1>4, <1>5, <1>6

(* What is spoilt stays well formed. *)
LEMMA SpoiltWellFormed ==
  ASSUME NEW o, NEW s \in Spoilt(o), NEW g \in DOMAIN s,
         g \in DOMAIN o => WellFormed(o[g])
  PROVE  WellFormed(s[g])
<1>1. CASE s[g] \in Junk
  BY <1>1, AnswersAssumption
<1>2. ASSUME g \in DOMAIN o, Is("obj", o[g]), NEW t \in Spoilt1(o[g].obj), s[g] = [obj |-> t]
      PROVE  WellFormed(s[g])
  <2>1. IsFiniteSet(DOMAIN t)
    BY <1>2, SpoiltFinite DEF WellFormed, Is
  <2> QED
    BY <1>2, <2>1 DEF WellFormed
<1> QED
  BY <1>1, <1>2, SpoiltField

-----------------------------------------------------------------------------
(* Judgments that are accepted *)

LEMMA FirstCount == ASSUME NEW m \in Nat PROVE IsFiniteSet(1 .. m) /\ Cardinality(1 .. m) = m
BY FS_Interval

(* The levels of a score have as many keys. *)
LEMMA FirstLevels ==
  ASSUME NEW n \in Nat, n <= Len(LevelKeys)
  PROVE  LET S == { LevelKeys[i] : i \in 1 .. n } IN IsFiniteSet(S) /\ Cardinality(S) = n
<1> DEFINE S   == { LevelKeys[i] : i \in 1 .. n }
           key == [i \in 1 .. n |-> LevelKeys[i]]
<1>1. \A i, j \in 1 .. n : LevelKeys[i] = LevelKeys[j] => i = j
  BY AnswersAssumption
<1>2. key \in [1 .. n -> S] /\ \A i \in 1 .. n : key[i] = LevelKeys[i]
  OBVIOUS
<1>3. \A k \in S : \E i \in 1 .. n : key[i] = k
  BY <1>2
<1> HIDE DEF key
<1>4. \A i, j \in 1 .. n : key[i] = key[j] => i = j
  BY <1>1, <1>2
<1> HIDE DEF S
<1>5. ExistsBijection(1 .. n, S)
  BY <1>2, <1>3, <1>4, Fun_IsBij, Zenon DEF ExistsBijection
<1>6. IsFiniteSet(S) /\ Cardinality(S) = n
  BY <1>5, FirstCount, FS_Bijection
<1> QED
  BY <1>6 DEF S

(* The criteria of a valid question are finitely many; of a score, as many *)
(* keys as levels.                                                         *)
LEMMA FiniteKeys ==
  ASSUME NEW q, \A f \in DOMAIN q : WellFormed(q[f]), ValidQuestion(q), Type(q) # "noul"
  PROVE  /\ Type(q) \in {"choice", "score"} /\ IsFiniteSet(Keys(q))
         /\ Type(q) = "score" => /\ DOMAIN q.criteria.arr = 1 .. Len(q.criteria.arr)
                                 /\ Cardinality(Keys(q)) = Len(q.criteria.arr)
<1>1. CASE Type(q) = "choice"
  BY <1>1 DEF ValidQuestion, ValidCriteria, Type, Keys, Has, Is, WellFormed
<1>2. CASE Type(q) = "score"
  <2> DEFINE n == Len(q.criteria.arr)
  <2>1. DOMAIN q.criteria.arr = 1 .. n /\ n \in 2 .. MaxLevels
    BY <1>2 DEF ValidQuestion, ValidCriteria, Type, Has, Is, WellFormed
  <2>2. n \in Nat /\ n <= Len(LevelKeys)
    BY <2>1, AnswersAssumption
  <2>3. Keys(q) = { LevelKeys[i] : i \in 1 .. n }
    BY <1>2, <2>1 DEF Keys
  <2>4. IsFiniteSet(Keys(q)) /\ Cardinality(Keys(q)) = n
    BY <2>2, <2>3, FirstLevels
  <2> QED
    BY <1>2, <2>1, <2>4
<1> QED
  BY <1>1, <1>2 DEF ValidQuestion, ValidCriteria, Type

(* As many keys as there are criteria, and each of them one: all of them.  *)
(* A legend of as many entries as levels that has every level: no other.   *)
LEMMA Whole ==
  ASSUME NEW a, NEW q, NEW up,
         \A f \in DOMAIN q : WellFormed(q[f]), ValidQuestion(q), Type(q) # "noul",
         Has(a, "legend", "obj") => IsFiniteSet(DOMAIN a.legend.obj),
         ValidAnswer(a, q, up)
  PROVE  /\ Has(a, "probabilities", "obj") /\ DOMAIN a.probabilities.obj = Keys(q)
         /\ Type(q) = "choice" => Has(a, "choice", "str") /\ a.choice.str \in Keys(q)
         /\ Type(q) = "score" => Has(a, "legend", "obj") /\ DOMAIN a.legend.obj = Keys(q)
<1>1. Has(a, "probabilities", "obj") /\ ValidDistribution(a.probabilities.obj, q, up)
  BY DEF ValidAnswer
<1>2. DOMAIN a.probabilities.obj = Keys(q)
  <2>1. /\ DOMAIN a.probabilities.obj \in SUBSET Keys(q)
        /\ Cardinality(DOMAIN a.probabilities.obj) = Cardinality(Keys(q))
    BY <1>1 DEF ValidDistribution, AllKeys
  <2> QED
    BY <2>1, FiniteKeys, FS_Subset
<1>3. ASSUME Type(q) = "score" PROVE Has(a, "legend", "obj") /\ DOMAIN a.legend.obj = Keys(q)
  <2>1. ValidLegend(a, q)
    BY <1>3 DEF ValidAnswer
  <2>2. /\ Has(a, "legend", "obj") /\ Cardinality(DOMAIN a.legend.obj) = Len(q.criteria.arr)
        /\ \A i \in DOMAIN q.criteria.arr : LevelKeys[i] \in DOMAIN a.legend.obj
    BY <2>1 DEF ValidLegend
  <2>3. Keys(q) \in SUBSET DOMAIN a.legend.obj
    BY <1>3, <2>2 DEF Keys
  <2> QED
    BY <1>3, <2>2, <2>3, FiniteKeys, FS_Subset
<1>4. Type(q) = "choice" => Has(a, "choice", "str") /\ a.choice.str \in Keys(q)
  BY DEF ValidAnswer
<1> QED
  BY <1>1, <1>2, <1>3, <1>4

(* The type a function reads by is the one it asked for. *)
LEMMA Readable ==
  ASSUME TypeInv, NEW up, ValidAnswer(answer, question, up), NEW r \in Reads
  PROVE  CanRead(r)
<1>1. CASE name \in {"jev", "jev_noul"}
  <2>1. Type(question) = "noul" /\ r = <<"noul", "num">>
    BY <1>1 DEF TypeInv, TypeAsked, Type, Reads
  <2> QED
    BY <2>1 DEF ValidAnswer, Probability, Number, CanRead, Has, Is
<1>2. CASE name \in {"jev_choice", "jev_score"}
  <2>1. /\ Type(question) = IF name = "jev_choice" THEN "choice" ELSE "score"
        /\ name = "jev_choice" => r \in {<<"choice", "str">>, <<"confidence", "num">>, <<"probabilities", "obj">>}
        /\ name = "jev_score" => r \in {<<"score", "num">>, <<"confidence", "num">>, <<"probabilities", "obj">>,
                                        <<"legend", "obj">>}
    BY <1>2 DEF TypeInv, TypeAsked, Type, Reads
  <2>2. /\ Has(answer, "confidence", "num") /\ Has(answer, "probabilities", "obj")
        /\ \A k \in DOMAIN answer.probabilities.obj : Number(answer.probabilities.obj[k])
        /\ name = "jev_choice" => Has(answer, "choice", "str")
        /\ name = "jev_score" => Has(answer, "score", "num") /\ Has(answer, "legend", "obj")
    BY <1>2, <2>1 DEF ValidAnswer, ValidDistribution, ValidLegend, Probability, Number, Has, Is
  <2> QED
    BY <1>2, <2>1, <2>2 DEF CanRead
<1> QED
  BY <1>1, <1>2 DEF Reads

-----------------------------------------------------------------------------
(* The invariant *)

LEMMA InitInv == Init => AnswersInv
<1> SUFFICES ASSUME Init PROVE AnswersInv
  OBVIOUS
<1>1. PICK call \in Calls : name = call.name /\ question = Asked(call)
  BY DEF Init
<1>2. DOMAIN answer = {} /\ phase = "question"
  BY DEF Init
<1>3. CASE name = "jev_eval"
  BY <1>1, <1>2, <1>3, AnswersAssumption
     DEF Asked, AnswersInv, TypeInv, TypeAsked, QuestionInv, AnswerInv, Phases, Has
<1>4. CASE name # "jev_eval"
  <2>1. question = With(call.args, "type", [str |-> TypeAsked[name]])
    BY <1>1, <1>4 DEF Asked
  <2>2. /\ question.type = [str |-> TypeAsked[name]]
        /\ DOMAIN question = DOMAIN call.args \cup {"type"}
        /\ \A f \in DOMAIN call.args \ {"type"} : question[f] = call.args[f]
    BY <2>1 DEF With
  <2>3. WellFormed([str |-> TypeAsked[name]])
    BY DEF WellFormed
  <2>4. \A f \in DOMAIN question : WellFormed(question[f])
    BY <2>2, <2>3, AnswersAssumption
  <2> QED
    BY <1>2, <2>2, <2>4 DEF AnswersInv, TypeInv, QuestionInv, AnswerInv, Phases, Has
<1> QED
  BY <1>3, <1>4

(* An answer that was rounded from a distribution has a finite legend. *)
LEMMA RoundedLegend ==
  ASSUME NEW q, NEW p, NEW s, \A f \in DOMAIN q : WellFormed(q[f]), ValidQuestion(q),
         Has(Rounded(q, p, s), "legend", "obj")
  PROVE  IsFiniteSet(DOMAIN Rounded(q, p, s).legend.obj)
<1>1. CASE Type(q) = "score"
  <2> DEFINE n == Len(q.criteria.arr)
  <2>1. \E b : Rounded(q, p, s) = With(b, "legend", [obj |-> Legend(q)])
    BY <1>1, Zenon DEF Rounded
  <2>2. Rounded(q, p, s)["legend"] = [obj |-> Legend(q)]
    BY <2>1 DEF With
  <2>3. n \in 2 .. MaxLevels /\ LevelKeys \in Seq(STRING) /\ n \in Nat /\ n <= Len(LevelKeys)
    BY <1>1, AnswersAssumption DEF ValidQuestion, ValidCriteria, Type
  <2>4. Order(q) = SubSeq(LevelKeys, 1, n)
    BY <1>1 DEF Order
  <2>5. DOMAIN Order(q) = 1 .. n /\ \A i \in 1 .. n : Order(q)[i] = LevelKeys[i]
    BY <2>3, <2>4
  <2>6. DOMAIN Legend(q) = ToSet(Order(q))
    BY DEF Legend
  <2>7. ToSet(Order(q)) = { LevelKeys[i] : i \in 1 .. n }
    BY <2>5 DEF ToSet
  <2> QED
    <3>1. IsFiniteSet(ToSet(Order(q)))
      BY <2>3, <2>7, FirstLevels, Zenon
    <3>2. Rounded(q, p, s).legend.obj = Legend(q)
      BY <2>2
    <3> QED
      BY <3>1, <3>2, <2>6
<1>2. CASE Type(q) # "score"
  <2>1. "legend" \notin DOMAIN Rounded(q, p, s)
    <3>1. DOMAIN Distribution(q, p) = {"type", "confidence", "probabilities"}
      BY DEF Distribution
    <3>2. CASE Type(q) = "choice"
      <4>1. \E j : Rounded(q, p, s) = With(Distribution(q, p), "choice", j)
        BY <3>2, Zenon DEF Rounded
      <4> QED
        BY <3>1, <4>1 DEF With
    <3>3. CASE Type(q) # "choice"
      <4>1. \E j : Rounded(q, p, s) = [type |-> q.type, noul |-> j]
        BY <1>2, <3>3, Zenon DEF Rounded
      <4> QED
        BY <4>1
    <3> QED
      BY <3>2, <3>3
  <2> QED
    BY <2>1 DEF Has
<1> QED
  BY <1>1, <1>2

LEMMA StepInv == ASSUME AnswersInv, [Next]_answerVars PROVE AnswersInv'
<1>1. CASE SpoilQuestion
  <2>1. \A f \in DOMAIN question' : WellFormed(question'[f])
    BY <1>1, SpoiltWellFormed DEF SpoilQuestion, AnswersInv, QuestionInv
  <2>2. name \in DOMAIN TypeAsked => question'.type = question.type
    BY <1>1 DEF SpoilQuestion, TypeAsked
  <2> QED
    BY <1>1, <2>1, <2>2 DEF SpoilQuestion, AnswersInv, TypeInv, QuestionInv, AnswerInv
<1>2. CASE ValidateQuestions
  BY <1>2 DEF ValidateQuestions, AnswersInv, TypeInv, QuestionInv, AnswerInv, Phases
<1>3. CASE Answer
  <2>1. Has(answer', "legend", "obj") => IsFiniteSet(DOMAIN answer'.legend.obj)
    BY <1>3, RoundedLegend DEF Answer, AnswersInv, QuestionInv
  <2> QED
    BY <1>3, <2>1 DEF Answer, AnswersInv, TypeInv, QuestionInv, AnswerInv, Phases
<1>4. CASE SpoilAnswer
  <2>1. ASSUME Has(answer', "legend", "obj") PROVE IsFiniteSet(DOMAIN answer'.legend.obj)
    <3>1. answer' \in Spoilt(answer) /\ "legend" \in DOMAIN answer' /\ "obj" \in DOMAIN answer'["legend"]
      BY <1>4, <2>1 DEF SpoilAnswer, Has, Is
    <3>2. CASE "legend" \in DOMAIN answer /\ answer'["legend"] = answer["legend"]
      BY <3>1, <3>2 DEF AnswersInv, AnswerInv, Has, Is
    <3>3. CASE answer'["legend"] \in Junk
      BY <3>1, <3>3, AnswersAssumption DEF WellFormed
    <3>4. ASSUME "legend" \in DOMAIN answer, Is("obj", answer["legend"]),
                 NEW t \in Spoilt1(answer["legend"].obj), answer'["legend"] = [obj |-> t]
          PROVE  IsFiniteSet(DOMAIN answer'.legend.obj)
      <4>1. IsFiniteSet(DOMAIN answer.legend.obj)
        BY <3>4 DEF AnswersInv, AnswerInv, Has
      <4>2. IsFiniteSet(DOMAIN t)
        BY <3>4, <4>1, SpoiltFinite
      <4> QED
        BY <3>4, <4>2
    <3> QED
      BY <3>1, <3>2, <3>3, <3>4, SpoiltField
  <2> QED
    BY <1>4, <2>1 DEF SpoilAnswer, AnswersInv, TypeInv, QuestionInv, AnswerInv, Phases
<1>5. CASE ValidateAnswer
  BY <1>5 DEF ValidateAnswer, AnswersInv, TypeInv, QuestionInv, AnswerInv, Phases
<1>6. CASE Build
  <2>1. \A r \in Reads : CanRead(r)
    BY <1>6, Readable DEF Build, AnswersInv, AnswerInv
  <2> QED
    BY <1>6, <2>1 DEF Build, AnswersInv, TypeInv, QuestionInv, AnswerInv, Phases
<1>7. CASE UNCHANGED answerVars
  BY <1>7 DEF answerVars, AnswersInv, TypeInv, QuestionInv, AnswerInv
<1> QED
  BY <1>1, <1>2, <1>3, <1>4, <1>5, <1>6, <1>7 DEF Next

LEMMA AlwaysAnswersInv == Spec => []AnswersInv
BY InitInv, StepInv, PTL DEF Spec

-----------------------------------------------------------------------------
(* No accepted answer fails a read (jev_extension.cpp:1129-1151).          *)
THEOREM AcceptedIsReadable == Spec => []ReadsSucceed
<1>1. AnswersInv => ReadsSucceed
  BY DEF AnswersInv, ReadsSucceed
<1> QED
  BY <1>1, AlwaysAnswersInv, PTL

(* What is accepted judges every criterion, and nothing else               *)
(* (jev_extension.cpp:836-873).                                            *)
THEOREM AcceptedIsWhole == Spec => []WholeJudgment
<1>1. AnswersInv => WholeJudgment
  BY Whole DEF AnswersInv, QuestionInv, AnswerInv, WholeJudgment
<1> QED
  BY <1>1, AlwaysAnswersInv, PTL

-----------------------------------------------------------------------------
(* The score. *)

(* The bound of a product of two differences. *)
LEMMA Between ==
  ASSUME NEW a \in Int, NEW n \in Nat, -n <= a, a <= n, NEW b \in Nat, NEW c \in Nat, b <= c
  PROVE  -(c * n) <= b * a /\ b * a <= c * n
<1>1. b * n \in Nat /\ c * n \in Nat /\ b * a \in Int
  OBVIOUS
<1>2. b * n <= c * n
  OBVIOUS
<1>3. b * a <= b * n
  OBVIOUS
<1>4. b * (-n) <= b * a /\ b * (-n) = -(b * n)
  OBVIOUS
<1> QED BY <1>1, <1>2, <1>3, <1>4

(* score * total - mean * unit is (score - mean) * unit and score times    *)
(* (total - unit).                                                         *)
LEMMA ErrorBound ==
  ASSUME NEW score \in Nat, NEW total \in Int, NEW mean \in Int, NEW unit \in Nat,
         NEW d \in Nat, NEW e \in Nat, NEW top \in Nat,
         score <= top * unit, -d <= total - unit, total - unit <= d, -e <= score - mean, score - mean <= e
  PROVE  score * total - mean * unit \in -(unit * (e + top * d)) .. unit * (e + top * d)
<1>1. PICK x, y, tu : x = total - unit /\ y = score - mean /\ tu = top * unit
  OBVIOUS
<1>2. x \in Int /\ y \in Int /\ tu \in Nat
  BY <1>1
<1>3. -(tu * d) <= score * x /\ score * x <= tu * d
  BY <1>1, <1>2, Between
<1>4. -(unit * e) <= unit * y /\ unit * y <= unit * e
  BY <1>1, <1>2, Between
<1>5. score * total - mean * unit = score * x + unit * y
  <2>1. total = unit + x /\ mean = score - y
    BY <1>1, <1>2
  <2>2. score * (unit + x) - (score - y) * unit = score * x + unit * y
    BY <1>2
  <2> QED BY <2>1, <2>2
<1>6. unit * (e + top * d) = unit * e + tu * d
  BY <1>1
<1>7. {score * x, unit * y, unit * e, tu * d} \subseteq Int
  BY <1>2
<1> QED BY <1>3, <1>4, <1>5, <1>6, <1>7

(* Whichever way a comparison at the bound is rounded. *)
LEMMA NearBy ==
  ASSUME NEW x \in Int, NEW y \in Int, NEW t \in Nat, NEW up, Near(x, y, t, up)
  PROVE  -t <= x - y /\ x - y <= t
  BY DEF Near

(* An accepted score's distance from its distribution's mean               *)
(* (jev_extension.cpp:850-865).                                            *)
LEMMA ExpectedScore ==
  ASSUME NEW a, NEW q, NEW up,
         \A f \in DOMAIN q : WellFormed(q[f]), ValidQuestion(q), Type(q) = "score",
         Has(a, "legend", "obj") => IsFiniteSet(DOMAIN a.legend.obj),
         ValidAnswer(a, q, up)
  PROVE  LET p     == a.probabilities.obj
             top   == Len(q.criteria.arr) - 1
             bound == Unit * (ScoreTolerance + top * SumTolerance)
         IN  a.score.num * Total(p) - Mean(p) * Unit \in -bound .. bound
<1>1. PICK p, n, s : p = a.probabilities.obj /\ n = Len(q.criteria.arr) - 1 /\ s = a.score.num
  OBVIOUS
<1>2. ValidDistribution(p, q, up) /\ ScoreNear(a, up) /\ s \in 0 .. n * Unit
  BY <1>1 DEF ValidAnswer
<1>3. IsFiniteSet(DOMAIN p) /\ n \in Nat
  <2>1. DOMAIN p = Keys(q) /\ IsFiniteSet(Keys(q))
    BY <1>1, Whole, FiniteKeys
  <2>2. Len(q.criteria.arr) \in 2 .. MaxLevels /\ MaxLevels \in Nat
    BY AnswersAssumption DEF ValidQuestion, ValidCriteria, Type
  <2> QED BY <1>1, <2>1, <2>2
<1>4. Unit \in Nat /\ SumTolerance \in Nat /\ ScoreTolerance \in Nat
  BY AnswersAssumption
<1>5. \A k \in DOMAIN p : p[k].num \in Nat
  BY <1>2, <1>4 DEF ValidDistribution, Probability
<1>6. Total(p) \in Nat
  <2> DEFINE w == [k \in DOMAIN p |-> p[k].num]
  <2>1. w \in [DOMAIN p -> Nat]
    BY <1>5
  <2> HIDE DEF w
  <2>2. SumFunction(w) \in Nat
    BY <1>3, <2>1, SumOf
  <2> QED BY <2>2 DEF Total, w
<1>7. Mean(p) \in Nat
  <2> DEFINE w == [i \in DOMAIN LevelKeys |->
                     IF LevelKeys[i] \in DOMAIN p THEN (i - 1) * p[LevelKeys[i]].num ELSE 0]
  <2>1. PICK m : m = Len(LevelKeys)
    OBVIOUS
  <2>2. m \in Nat /\ DOMAIN LevelKeys = 1 .. m
    BY <2>1, AnswersAssumption
  <2>3. ASSUME NEW i \in 1 .. m, LevelKeys[i] \in DOMAIN p PROVE (i - 1) * p[LevelKeys[i]].num \in Nat
    <3>1. PICK x, y : x = i - 1 /\ y = p[LevelKeys[i]].num
      OBVIOUS
    <3>2. x \in Nat /\ y \in Nat
      BY <1>5, <2>2, <2>3, <3>1
    <3>3. x * y \in Nat
      BY <3>2
    <3> QED BY <3>1, <3>3
  <2>4. w \in [1 .. m -> Nat]
    BY <2>2, <2>3
  <2>5. IsFiniteSet(1 .. m)
    BY <2>2, FS_Interval
  <2> HIDE DEF w
  <2>6. SumFunction(w) \in Nat
    BY <2>4, <2>5, SumOf
  <2> QED BY <2>6 DEF Mean, w
<1>8. -SumTolerance <= Total(p) - Unit /\ Total(p) - Unit <= SumTolerance
  <2>1. Near(Total(p), Unit, SumTolerance, up)
    BY <1>2 DEF ValidDistribution, SumsToOne
  <2> QED BY <1>4, <1>6, <2>1, NearBy
<1>9. -ScoreTolerance <= s - Mean(p) /\ s - Mean(p) <= ScoreTolerance /\ s \in Nat /\ s <= n * Unit
  <2>1. Near(s, Mean(p), ScoreTolerance, up)
    BY <1>1, <1>2 DEF ScoreNear
  <2>2. n * Unit \in Nat
    BY <1>3, <1>4
  <2>3. s \in Nat /\ s <= n * Unit
    BY <1>2, <2>2
  <2> QED BY <1>4, <1>7, <2>1, <2>3, NearBy
<1>10. s * Total(p) - Mean(p) * Unit
         \in -(Unit * (ScoreTolerance + n * SumTolerance)) .. Unit * (ScoreTolerance + n * SumTolerance)
  <2>1. PICK t, m, u, d, e : t = Total(p) /\ m = Mean(p) /\ u = Unit /\ d = SumTolerance /\ e = ScoreTolerance
    OBVIOUS
  <2>2. {s, n, u, d, e} \subseteq Nat /\ t \in Int /\ m \in Int
    BY <1>3, <1>4, <1>6, <1>7, <1>9, <2>1
  <2>3. -d <= t - u /\ t - u <= d
    BY <1>8, <2>1
  <2>4. -e <= s - m /\ s - m <= e /\ s <= n * u
    BY <1>9, <2>1
  <2>5. s * t - m * u \in -(u * (e + n * d)) .. u * (e + n * d)
    BY <2>2, <2>3, <2>4, ErrorBound
  <2> QED BY <2>1, <2>5
<1> QED BY <1>1, <1>10

(***************************************************************************)
(* Of the index expected under its normalised distribution an accepted     *)
(* score misses no more than both tolerances together allow, for every     *)
(* number of levels and every tolerance (README.md:135,                    *)
(* jev_extension.cpp:850, 864-865).                                        *)
(***************************************************************************)
THEOREM ScoreExpected == Spec => []ScoreIsExpected
<1>1. AnswersInv => ScoreIsExpected
  BY ExpectedScore DEF AnswersInv, QuestionInv, AnswerInv, ScoreIsExpected
<1> QED BY <1>1, AlwaysAnswersInv, PTL

-----------------------------------------------------------------------------
(***************************************************************************)
(* Honest answers.  A rounded number is off by no more than off 2*Fine-ths *)
(* of a Unit, so the sum of n of them by no more than n * off: with        *)
(* n * off < 2 * Fine * SumTolerance it stays strictly within the          *)
(* tolerance, above one or below.  The term of a level is off by no more   *)
(* than its index times as much, so the mean of the rounded distribution   *)
(* and the rounded mean stay closer than (n * (n - 1) + 1) * off.          *)
(***************************************************************************)

(* A distribution over n criteria, in Fine-ths of a Unit (TruthsAssumption). *)
IsTruth(t, n) == t \in [1 .. n -> Nat] /\ SumFunction(t) = Unit * Fine

(* What is off by less than 2 * Fine: less than a Unit. *)
IsOff(off) == off \in Nat /\ Fine <= off /\ off < 2 * Fine

LEMMA Offs == \A who \in DOMAIN Off : IsOff(Off[who])
<1>1. Fine \in Nat \ {0}
  BY AnswersAssumption
<1> QED BY <1>1 DEF Off, IsOff

(* A number that is rounded passes no bound of whole Units. *)
LEMMA RoundsWithin ==
  ASSUME NEW x \in Int, NEW t \in Nat, NEW u \in Nat, t <= u * Fine, NEW off, IsOff(off), Rounds(x, t, off)
  PROVE  x \in 0 .. u
<1>1. PICK f : f = Fine /\ f \in Nat \ {0}
  BY AnswersAssumption
<1>2. off \in Nat /\ off < 2 * f /\ 2 * t - off <= 2 * f * x /\ 2 * f * x <= 2 * t + off /\ t <= u * f
  BY <1>1 DEF IsOff, Rounds
<1>3. PICK y, z : y = f * x /\ z = u * f
  OBVIOUS
<1>4. y \in Int /\ z \in Nat /\ 2 * f * x = 2 * y
  BY <1>1, <1>3
<1>5. y > -f /\ y < z + f
  BY <1>1, <1>2, <1>3, <1>4
<1>6. x >= 0
  <2>1. SUFFICES ASSUME x <= -1 PROVE FALSE
    OBVIOUS
  <2>2. f * x <= f * (-1) /\ f * (-1) = -f
    BY <1>1, <2>1
  <2> QED BY <1>1, <1>3, <1>4, <1>5, <2>2
<1>7. x <= u
  <2>1. SUFFICES ASSUME x >= u + 1 PROVE FALSE
    OBVIOUS
  <2>2. f * x >= f * (u + 1) /\ f * (u + 1) = u * f + f
    BY <1>1, <2>1
  <2> QED BY <1>1, <1>3, <1>4, <1>5, <2>2
<1> QED BY <1>6, <1>7

(* An order of the criteria: each has one place. *)
IsOrder(ks, K, n) ==
  /\ ks \in [1 .. n -> K]
  /\ \A i, j \in 1 .. n : ks[i] = ks[j] => i = j
  /\ \A k \in K : \E i \in 1 .. n : ks[i] = k

LEMMA Ordered ==
  ASSUME NEW q, \A f \in DOMAIN q : WellFormed(q[f]), ValidQuestion(q), Type(q) # "noul"
  PROVE  /\ Options(q) \in Nat \ {0}
         /\ IsOrder(Order(q), Keys(q), Options(q))
         /\ Type(q) = "score" => /\ Options(q) = Len(q.criteria.arr)
                                 /\ Options(q) \in 2 .. MaxLevels /\ Options(q) <= Len(LevelKeys)
                                 /\ DOMAIN q.criteria.arr = 1 .. Options(q)
                                 /\ Keys(q) = { LevelKeys[i] : i \in 1 .. Options(q) }
                                 /\ \A i \in 1 .. Options(q) : Order(q)[i] = LevelKeys[i]
<1>1. IsFiniteSet(Keys(q)) /\ Options(q) = Cardinality(Keys(q))
  BY FiniteKeys DEF Options
<1>2. CASE Type(q) = "choice"
  <2> DEFINE K == Keys(q)
             n == Cardinality(K)
  <2>1. n \in Nat \ {0}
    <3>1. n \in 1 .. MaxChoices
      BY <1>2 DEF ValidQuestion, ValidCriteria, Type, Keys
    <3>2. n \in Nat
      BY <1>1, FS_CardinalityType
    <3> QED BY <3>1, <3>2
  <2>2. PICK f : f \in Bijection(1 .. n, K)
    BY <1>1, FS_CardinalityType DEF ExistsBijection
  <2>3. f \in [1 .. n -> K] /\ IsInjective(f)
    BY <2>2 DEF Bijection, Injection
  <2> DEFINE ks == SetToSeq(K)
  <2>4. ks \in [1 .. n -> K] /\ IsInjective(ks)
    BY <2>3, Zenon DEF SetToSeq
  <2>5. Order(q) = ks
    BY <1>2 DEF Order
  <2> HIDE DEF ks, K
  <2>6. \A i, j \in 1 .. n : ks[i] = ks[j] => i = j
    BY <2>4 DEF IsInjective
  <2>7. \A k \in K : \E i \in 1 .. n : ks[i] = k
    <3>1. ks \in Injection(1 .. n, K)
      BY <2>4 DEF Injection
    <3>2. Cardinality(1 .. n) = n
      BY <2>1, FirstCount
    <3>3. ks \in Surjection(1 .. n, K)
      BY <1>1, <3>1, <3>2, FS_Injection DEF K
    <3> QED BY <3>3 DEF Surjection
  <2>8. IsOrder(ks, K, n)
    BY <2>4, <2>6, <2>7 DEF IsOrder
  <2> QED BY <1>1, <1>2, <2>1, <2>5, <2>8 DEF K
<1>3. CASE Type(q) = "score"
  <2>1. PICK n : n = Len(q.criteria.arr)
    OBVIOUS
  <2>2. n \in 2 .. MaxLevels /\ MaxLevels \in Nat /\ MaxLevels <= Len(LevelKeys) /\ LevelKeys \in Seq(STRING)
    BY <1>3, <2>1, AnswersAssumption DEF ValidQuestion, ValidCriteria, Type
  <2>3. n \in Nat \ {0} /\ n <= Len(LevelKeys)
    BY <2>2
  <2>4. Options(q) = n /\ DOMAIN q.criteria.arr = 1 .. n
    BY <1>1, <1>3, <2>1, FiniteKeys
  <2>5. Keys(q) = { LevelKeys[i] : i \in 1 .. n }
    BY <1>3, <2>4 DEF Keys
  <2>6. Order(q) = SubSeq(LevelKeys, 1, n)
    BY <1>3, <2>1 DEF Order
  <2>7. Order(q) \in Seq(STRING) /\ Len(Order(q)) = n /\ \A i \in 1 .. n : Order(q)[i] = LevelKeys[i]
    BY <2>2, <2>3, <2>6
  <2>8. DOMAIN Order(q) = 1 .. n /\ Order(q) = [i \in 1 .. n |-> LevelKeys[i]]
    BY <2>7
  <2>9. \A i, j \in 1 .. n : LevelKeys[i] = LevelKeys[j] => i = j
    BY <2>3, AnswersAssumption
  <2>10. IsOrder(Order(q), Keys(q), n)
    BY <2>5, <2>7, <2>8, <2>9 DEF IsOrder
  <2> QED BY <2>1, <2>2, <2>3, <2>4, <2>5, <2>7, <2>10
<1> QED BY <1>2, <1>3, FiniteKeys

(* Place finds the place. *)
LEMMA PlaceOf ==
  ASSUME NEW ks, NEW K, NEW n \in Nat, IsOrder(ks, K, n)
  PROVE  /\ ToSet(ks) = K
         /\ \A i \in 1 .. n : ks[i] \in K /\ Place(ks, ks[i]) = i
         /\ \A k \in K : Place(ks, k) \in 1 .. n /\ ks[Place(ks, k)] = k
<1>1. DOMAIN ks = 1 .. n
  BY DEF IsOrder
<1>2. ASSUME NEW k \in K PROVE Place(ks, k) \in 1 .. n /\ ks[Place(ks, k)] = k
  <2>1. \E i \in DOMAIN ks : ks[i] = k
    BY <1>1 DEF IsOrder
  <2> QED BY <1>1, <2>1 DEF Place
<1>3. ASSUME NEW i \in 1 .. n PROVE ks[i] \in K /\ Place(ks, ks[i]) = i
  <2>1. ks[i] \in K
    BY DEF IsOrder
  <2>2. Place(ks, ks[i]) \in 1 .. n /\ ks[Place(ks, ks[i])] = ks[i]
    BY <1>2, <2>1
  <2> QED BY <2>1, <2>2 DEF IsOrder
<1>4. ToSet(ks) = K
  BY <1>1, <1>2, <1>3 DEF ToSet
<1> QED BY <1>2, <1>3, <1>4

(* p is a truth t over n criteria, each number rounded.                   *)
IsRounded(p, t, n, off) ==
  IsTruth(t, n) /\ IsOff(off) /\ p \in [1 .. n -> Int] /\ \A i \in 1 .. n : Rounds(p[i], t[i], off)

LEMMA RoundedSum ==
  ASSUME NEW n \in Nat, NEW off, NEW t, NEW p, IsRounded(p, t, n, off)
  PROVE  /\ p \in [1 .. n -> 0 .. Unit] /\ SumFunction(p) \in Nat
         /\ 2 * (Unit * Fine) <= (2 * Fine) * SumFunction(p) + off * n
         /\ (2 * Fine) * SumFunction(p) <= 2 * (Unit * Fine) + off * n
<1>0. /\ IsFiniteSet(1 .. n) /\ Cardinality(1 .. n) = n /\ Unit \in Nat /\ Fine \in Nat \ {0}
      /\ Unit * Fine \in Nat /\ 2 * Fine \in Nat
  BY FirstCount, AnswersAssumption
<1>1. /\ t \in [1 .. n -> Nat] /\ SumFunction(t) = Unit * Fine /\ p \in [1 .. n -> Int]
      /\ off \in Nat /\ IsOff(off) /\ \A i \in 1 .. n : Rounds(p[i], t[i], off)
  BY DEF IsTruth, IsRounded, IsOff
<1>2. ASSUME NEW i \in 1 .. n PROVE p[i] \in 0 .. Unit
  <2>1. t[i] <= Unit * Fine
    BY <1>0, <1>1, SumTerm
  <2>2. p[i] \in Int /\ t[i] \in Nat /\ Rounds(p[i], t[i], off)
    BY <1>1
  <2> QED BY <1>0, <1>1, <2>1, <2>2, RoundsWithin
<1>3. p \in [1 .. n -> 0 .. Unit] /\ p \in [1 .. n -> Nat]
  <2>1. \A i \in 1 .. n : p[i] \in Nat
    BY <1>0, <1>2
  <2> QED BY <1>1, <1>2, <2>1
<1>4. ASSUME NEW i \in 1 .. n PROVE 2 * t[i] <= (2 * Fine) * p[i] + off /\ (2 * Fine) * p[i] <= 2 * t[i] + off
  <2>1. PICK f, x, u, y : f = 2 * Fine /\ x = p[i] /\ u = t[i] /\ y = f * x
    OBVIOUS
  <2>2. f \in Nat /\ x \in Nat /\ u \in Nat /\ y \in Int
    BY <1>0, <1>1, <1>3, <2>1
  <2>3. y \in 2 * u - off .. 2 * u + off
    BY <1>1, <2>1 DEF Rounds
  <2>4. 2 * u <= y + off /\ y <= 2 * u + off
    BY <1>1, <2>2, <2>3
  <2> QED BY <2>1, <2>4
<1>5. /\ 2 * SumFunction(t) <= (2 * Fine) * SumFunction(p) + off * Cardinality(1 .. n)
      /\ (2 * Fine) * SumFunction(p) <= 2 * SumFunction(t) + off * Cardinality(1 .. n)
  BY <1>0, <1>1, <1>3, <1>4, SumBetween
<1>6. SumFunction(p) \in Nat
  BY <1>0, <1>3, SumOf
<1> QED BY <1>0, <1>1, <1>3, <1>5, <1>6

LEMMA TimesMonotone ==
  ASSUME NEW a \in Nat, NEW x \in Nat, NEW y \in Nat, x <= y
  PROVE  a * x <= a * y /\ x * a <= y * a
OBVIOUS

(* A rounded mean. *)
LEMMA RoundedMean ==
  ASSUME NEW n \in Nat \ {0, 1}, NEW off, NEW t, NEW p, IsRounded(p, t, n, off),
         NEW s \in Int, Rounds(s, Expected(t), off)
  PROVE  LET m == SumFunction([i \in 1 .. n |-> (i - 1) * p[i]])
         IN  /\ s \in 0 .. (n - 1) * Unit /\ m \in Nat
             /\ -((n * (n - 1) + 1) * off) <= (2 * Fine) * (s - m)
             /\ (2 * Fine) * (s - m) <= (n * (n - 1) + 1) * off
<1> DEFINE w == [i \in 1 .. n |-> (i - 1) * t[i]]
           v == [i \in 1 .. n |-> (i - 1) * p[i]]
<1>0. /\ IsFiniteSet(1 .. n) /\ Cardinality(1 .. n) = n /\ Unit \in Nat /\ Fine \in Nat \ {0}
      /\ n - 1 \in Nat /\ 2 * Fine \in Nat
  BY FirstCount, AnswersAssumption
<1>1. /\ t \in [1 .. n -> Nat] /\ SumFunction(t) = Unit * Fine /\ p \in [1 .. n -> 0 .. Unit]
      /\ off \in Nat /\ IsOff(off) /\ \A i \in 1 .. n : Rounds(p[i], t[i], off)
  BY RoundedSum DEF IsTruth, IsRounded, IsOff
<1>2. ASSUME NEW i \in 1 .. n
      PROVE  /\ w[i] \in Nat /\ v[i] \in Nat /\ w[i] <= (n - 1) * t[i]
             /\ 2 * w[i] <= (2 * Fine) * v[i] + (n - 1) * off
             /\ (2 * Fine) * v[i] <= 2 * w[i] + (n - 1) * off
  <2>1. PICK a, x, h, c, f : a = i - 1 /\ x = t[i] /\ h = p[i] /\ c = n - 1 /\ f = 2 * Fine
    OBVIOUS
  <2>2. {a, x, h, c, f} \subseteq Nat /\ a <= c
    <3>1. h \in Nat
      BY <1>0, <1>1, <2>1
    <3> QED BY <1>0, <1>1, <2>1, <3>1
  <2>3. PICK y : y = f * h
    OBVIOUS
  <2>30. y \in Nat /\ off \in Nat
    BY <1>1, <2>2, <2>3
  <2>4. 2 * x <= y + off /\ y <= 2 * x + off
    <3>1. y \in 2 * x - off .. 2 * x + off
      BY <1>1, <2>1, <2>3 DEF Rounds
    <3> QED BY <2>2, <2>30, <3>1
  <2>5. a * x \in Nat /\ a * h \in Nat /\ a * y \in Nat /\ a * off \in Nat /\ c * off \in Nat
    BY <2>2, <2>30
  <2>6. a * x <= c * x /\ a * off <= c * off
    BY <1>1, <2>2, TimesMonotone
  <2>7. 2 * (a * x) <= a * y + a * off
    <3>1. a * (2 * x) <= a * (y + off)
      <4>1. {2 * x, y + off, 2 * x + off} \subseteq Nat
        BY <2>2, <2>30
      <4> QED BY <2>2, <2>30, <2>4, <4>1, TimesMonotone
    <3>2. a * (2 * x) = 2 * (a * x)
      BY <2>2
    <3>3. a * (y + off) = a * y + a * off
      BY <2>2, <2>30
    <3> QED BY <3>1, <3>2, <3>3
  <2>8. a * y <= 2 * (a * x) + a * off
    <3>1. a * y <= a * (2 * x + off)
      <4>1. {2 * x, y + off, 2 * x + off} \subseteq Nat
        BY <2>2, <2>30
      <4> QED BY <2>2, <2>30, <2>4, <4>1, TimesMonotone
    <3>2. a * (2 * x + off) = 2 * (a * x) + a * off
      BY <2>2, <2>30
    <3> QED BY <3>1, <3>2
  <2>9. a * y = f * (a * h)
    BY <2>2, <2>3
  <2>10. w[i] = a * x /\ v[i] = a * h
    BY <2>1
  <2>11. 2 * (a * x) <= f * (a * h) + c * off /\ f * (a * h) <= 2 * (a * x) + c * off
    <3>1. PICK X, Y, o, q : X = a * x /\ Y = a * y /\ o = a * off /\ q = c * off
      OBVIOUS
    <3>2. {X, Y, o, q} \subseteq Nat /\ o <= q /\ 2 * X <= Y + o /\ Y <= 2 * X + o
      BY <2>5, <2>6, <2>7, <2>8, <3>1
    <3>3. 2 * X <= Y + q /\ Y <= 2 * X + q
      BY <3>2
    <3> QED BY <2>9, <3>1, <3>3
  <2> HIDE DEF w, v
  <2> QED BY <2>1, <2>5, <2>6, <2>10, <2>11
<1>3. w \in [1 .. n -> Nat] /\ v \in [1 .. n -> Nat]
  BY <1>2
<1>4. Expected(t) = SumFunction(w)
  BY <1>1 DEF Expected
<1> HIDE DEF w, v
<1>5. /\ 2 * SumFunction(w) <= (2 * Fine) * SumFunction(v) + ((n - 1) * off) * n
      /\ (2 * Fine) * SumFunction(v) <= 2 * SumFunction(w) + ((n - 1) * off) * n
  <2>1. (n - 1) * off \in Nat
    BY <1>0, <1>1
  <2> QED BY <1>0, <1>2, <1>3, <2>1, SumBetween
<1>6. SumFunction(w) <= (n - 1) * (Unit * Fine)
  <2>1. \A i \in 1 .. n : w[i] <= (n - 1) * t[i]
    BY <1>2
  <2>2. SumFunction(w) <= (n - 1) * SumFunction(t)
    BY <1>0, <1>1, <1>3, <2>1, SumTimes
  <2> QED BY <1>1, <2>2
<1>7. PICK W, V, k, f : W = SumFunction(w) /\ V = SumFunction(v) /\ k = n - 1 /\ f = 2 * Fine
  OBVIOUS
<1>8. {W, V, k, f, off} \subseteq Nat /\ n = k + 1
  BY <1>0, <1>1, <1>3, <1>7, SumOf
<1>9. s \in 0 .. k * Unit /\ s \in Nat
  <2>1. W <= (k * Unit) * Fine /\ k * Unit \in Nat
    BY <1>0, <1>6, <1>7, <1>8
  <2>2. Rounds(s, W, off)
    BY <1>4, <1>7
  <2>3. s \in 0 .. k * Unit
    BY <1>1, <1>8, <2>1, <2>2, RoundsWithin
  <2> QED BY <2>1, <2>3
<1>10. -((n * k + 1) * off) <= f * (s - V) /\ f * (s - V) <= (n * k + 1) * off
  <2>1. PICK S, X, z : S = f * s /\ X = f * V /\ z = (k * off) * n
    OBVIOUS
  <2>2. {S, X, z} \subseteq Nat
    BY <1>8, <1>9, <2>1
  <2>3. 2 * W - off <= S /\ S <= 2 * W + off
    <3>1. S \in 2 * W - off .. 2 * W + off
      BY <1>4, <1>7, <2>1 DEF Rounds
    <3> QED BY <1>8, <2>2, <3>1
  <2>4. 2 * W <= X + z /\ X <= 2 * W + z
    BY <1>5, <1>7, <2>1
  <2>5. f * (s - V) = S - X /\ (n * k + 1) * off = z + off
    <3>1. f * (s - V) = f * s - f * V
      BY <1>8, <1>9
    <3>2. (n * k + 1) * off = (k * off) * n + off
      BY <1>8
    <3> QED BY <2>1, <3>1, <3>2
  <2>6. -(z + off) <= S - X /\ S - X <= z + off
    BY <1>8, <2>2, <2>3, <2>4
  <2> QED BY <2>5, <2>6
<1> QED BY <1>7, <1>8, <1>9, <1>10 DEF v

(* A question that is asked. *)
Asks(q) == ValidQuestion(q) /\ \A f \in DOMAIN q : WellFormed(q[f])

(* An honest answer is p and s, rounded of a truth t.                      *)
Honest(q, off, t, p, s) ==
  /\ Asks(q) /\ Options(q) * off < 2 * Fine * SumTolerance
  /\ off \in { Off[who] : who \in DOMAIN Off }
  /\ t \in Truths[Options(q)] /\ p \in [1 .. Options(q) -> Int] /\ s \in Int
  /\ \A i \in 1 .. Options(q) : Rounds(p[i], t[i], off)
  /\ Rounds(s, Expected(t), off)

(* As few criteria as rounding may not spoil. *)
LEMMA FewOptions ==
  ASSUME NEW q, Asks(q), NEW off, IsOff(off),
         Options(q) * off < 2 * Fine * SumTolerance
  PROVE  /\ Options(q) \in Nat \ {0} /\ Options(q) < 2 * SumTolerance
         /\ \A t \in Truths[Options(q)] : IsTruth(t, Options(q))
<1>1. PICK n, f, d : n = Options(q) /\ f = Fine /\ d = 2 * SumTolerance
  OBVIOUS
<1>2. n \in Nat \ {0} /\ f \in Nat \ {0} /\ d \in Nat /\ off \in Nat /\ f <= off
  BY <1>1, Ordered, AnswersAssumption DEF Asks, Options, IsOff
<1>3. n < d
  <2>1. SUFFICES ASSUME n >= d PROVE FALSE
    BY <1>2
  <2>2. n * off >= n * f /\ n * f >= d * f
    BY <1>2, <2>1
  <2>3. n * off < d * f
    <3>1. 2 * Fine * SumTolerance = (2 * SumTolerance) * Fine
      BY AnswersAssumption
    <3> QED BY <1>1, <3>1
  <2>4. {n * off, n * f, d * f} \subseteq Int
    BY <1>2
  <2> QED BY <2>2, <2>3, <2>4
<1>4. n \in DOMAIN Truths
  <2>1. n \in 1 .. d - 1
    BY <1>2, <1>3
  <2> QED BY <1>1, <2>1, TruthsAssumption
<1> QED BY <1>1, <1>2, <1>3, <1>4, TruthsAssumption DEF IsTruth

LEMMA HonestParts ==
  ASSUME NEW q, NEW off, NEW t, NEW p, NEW s, Honest(q, off, t, p, s)
  PROVE  Options(q) \in Nat \ {0} /\ IsRounded(p, t, Options(q), off) /\ p \in [1 .. Options(q) -> 0 .. Unit]
<1>1. IsOff(off)
  BY Offs DEF Honest
<1>2. Options(q) \in Nat \ {0} /\ IsTruth(t, Options(q))
  BY <1>1, FewOptions DEF Honest
<1>3. IsRounded(p, t, Options(q), off)
  BY <1>1, <1>2 DEF Honest, IsRounded
<1> QED BY <1>2, <1>3, RoundedSum

(* The distribution it gives, by criterion. *)
Given(q, p) == Distribution(q, p).probabilities.obj

LEMMA GivenFields ==
  ASSUME NEW q, NEW p, Asks(q), Type(q) # "noul"
  PROVE  /\ DOMAIN Given(q, p) = Keys(q)
         /\ \A i \in 1 .. Options(q) : /\ Order(q)[i] \in Keys(q)
                                       /\ Given(q, p)[Order(q)[i]] = [num |-> p[i]]
         /\ \A k \in Keys(q) : \E i \in 1 .. Options(q) : k = Order(q)[i]
<1>1. IsOrder(Order(q), Keys(q), Options(q)) /\ Options(q) \in Nat
  BY Ordered DEF Asks
<1>2. Given(q, p) = [k \in ToSet(Order(q)) |-> [num |-> p[Place(Order(q), k)]]]
  BY DEF Given, Distribution
<1>3. /\ ToSet(Order(q)) = Keys(q)
      /\ \A i \in 1 .. Options(q) : Order(q)[i] \in Keys(q) /\ Place(Order(q), Order(q)[i]) = i
      /\ \A k \in Keys(q) : Place(Order(q), k) \in 1 .. Options(q) /\ Order(q)[Place(Order(q), k)] = k
  BY <1>1, PlaceOf
<1>4. ASSUME NEW i \in 1 .. Options(q)
      PROVE  Order(q)[i] \in Keys(q) /\ Given(q, p)[Order(q)[i]] = [num |-> p[i]]
  BY <1>2, <1>3
<1> QED BY <1>2, <1>3, <1>4

(* What is off by less, in 2*Fine-ths, than a tolerance is near.           *)
LEMMA NearWithin ==
  ASSUME NEW x \in Nat, NEW y \in Nat, NEW d \in Nat, NEW e \in Nat, NEW up,
         e < (2 * Fine) * d, -e <= (2 * Fine) * (x - y), (2 * Fine) * (x - y) <= e
  PROVE  Near(x, y, d, up)
<1>1. PICK f, z : f = 2 * Fine /\ f \in Nat \ {0} /\ z = x - y /\ z \in Int
  BY AnswersAssumption
<1>2. f * d \in Nat /\ f * z \in Int /\ e < f * d /\ -e <= f * z /\ f * z <= e
  BY <1>1
<1>3. z < d
  <2>1. SUFFICES ASSUME z >= d PROVE FALSE
    BY <1>1
  <2>2. f * z >= f * d
    BY <1>1, <2>1
  <2> QED BY <1>2, <2>2
<1>4. z > -d
  <2>1. SUFFICES ASSUME z <= -d PROVE FALSE
    BY <1>1
  <2>2. f * z <= f * (-d) /\ f * (-d) = -(f * d)
    BY <1>1, <2>1
  <2> QED BY <1>2, <2>2
<1>5. (IF x < y THEN y - x ELSE x - y) < d
  BY <1>1, <1>3, <1>4
<1> QED BY <1>5 DEF Near

(* It sums to one within the tolerance, strictly. *)
LEMMA GivenSum ==
  ASSUME NEW q, NEW off, NEW t, NEW h, NEW s, Honest(q, off, t, h, s), Type(q) # "noul", NEW up
  PROVE  ValidDistribution(Given(q, h), q, up)
<1>1. PICK n, ks, K, p : n = Options(q) /\ ks = Order(q) /\ K = Keys(q) /\ p = Given(q, h)
  OBVIOUS
<1>2. /\ n \in Nat \ {0} /\ IsRounded(h, t, n, off) /\ h \in [1 .. n -> 0 .. Unit] /\ IsOrder(ks, K, n)
      /\ Unit \in Nat /\ off \in Nat
  BY <1>1, HonestParts, Ordered, AnswersAssumption DEF Honest, Asks, IsRounded, IsOff
<1>3. /\ DOMAIN p = K
      /\ \A i \in 1 .. n : ks[i] \in K /\ p[ks[i]] = [num |-> h[i]]
      /\ \A k \in K : \E i \in 1 .. n : k = ks[i]
  <2>1. Asks(q)
    BY DEF Honest
  <2> QED BY <1>1, <2>1, GivenFields
<1> DEFINE w == [k \in K |-> p[k].num]
<1>4. /\ SumFunction(h) \in Nat
      /\ 2 * (Unit * Fine) <= (2 * Fine) * SumFunction(h) + off * n
      /\ (2 * Fine) * SumFunction(h) <= 2 * (Unit * Fine) + off * n
  BY <1>2, RoundedSum
<1>5. h \in [1 .. n -> Nat]
  <2>1. \A i \in 1 .. n : h[i] \in Nat
    BY <1>2
  <2> QED BY <1>2, <2>1
<1>6. ASSUME NEW k \in K PROVE w[k] \in Nat /\ Probability(p[k])
  <2>1. PICK i \in 1 .. n : k = ks[i]
    BY <1>3
  <2>2. PICK x : x = h[i]
    OBVIOUS
  <2>3. p[k] = [num |-> x] /\ x \in 0 .. Unit
    BY <1>2, <1>3, <2>1, <2>2
  <2> QED BY <1>2, <2>3 DEF Probability, Number, Is
<1>7. ASSUME NEW i \in 1 .. n PROVE h[i] = w[ks[i]]
  <2>1. PICK x, k : x = h[i] /\ k = ks[i]
    OBVIOUS
  <2>2. k \in K /\ p[k] = [num |-> x]
    BY <1>3, <2>1
  <2>3. w[k] = x
    BY <2>2
  <2> QED BY <2>1, <2>3
<1>8. w \in [K -> Nat] /\ ks \in [1 .. n -> K]
  BY <1>2, <1>6 DEF IsOrder
<1>9. /\ \A i, j \in 1 .. n : ks[i] = ks[j] => i = j
      /\ \A k \in K : \E i \in 1 .. n : ks[i] = k
  BY <1>2 DEF IsOrder
<1>10. Total(p) = SumFunction(w)
  BY <1>3 DEF Total
<1> HIDE DEF w
<1>11. SumFunction(h) = SumFunction(w)
  <2>1. PICK D : D = 1 .. n
    OBVIOUS
  <2>2. IsFiniteSet(D)
    BY <1>2, <2>1, FirstCount
  <2>3. h \in [D -> Nat] /\ w \in [K -> Nat] /\ ks \in [D -> K] /\ \A i \in D : h[i] = w[ks[i]]
    BY <1>5, <1>7, <1>8, <2>1
  <2>4. (\A i, j \in D : ks[i] = ks[j] => i = j) /\ \A k \in K : \E i \in D : ks[i] = k
    BY <1>9, <2>1
  <2> QED BY <2>2, <2>3, <2>4, SumReindex
<1>12. Near(Total(p), Unit, SumTolerance, up)
  <2>1. PICK x, f, u, e : x = Total(p) /\ f = 2 * Fine /\ u = Unit /\ e = off * n
    OBVIOUS
  <2>2. f \in Nat /\ SumTolerance \in Nat /\ x \in Nat /\ u \in Nat /\ e \in Nat
    BY <1>2, <1>4, <1>10, <1>11, <2>1, AnswersAssumption
  <2>3. e < f * SumTolerance
    <3>1. n * off < 2 * Fine * SumTolerance
      BY <1>1 DEF Honest
    <3>2. n * off = e
      BY <1>2, <2>1
    <3> QED BY <2>1, <3>1, <3>2
  <2>4. f * u <= f * x + e /\ f * x <= f * u + e
    <3>1. 2 * (Unit * Fine) = f * u
      BY <1>2, <2>1, AnswersAssumption
    <3> QED BY <1>4, <1>10, <1>11, <2>1, <3>1
  <2>5. -e <= f * (x - u) /\ f * (x - u) <= e
    <3>1. f * (x - u) = f * x - f * u /\ f * x \in Nat /\ f * u \in Nat
      BY <2>2
    <3> QED BY <2>2, <2>4, <3>1
  <2>6. Near(x, u, SumTolerance, up)
    BY <2>1, <2>2, <2>3, <2>5, NearWithin
  <2> QED BY <2>1, <2>6
<1> QED BY <1>1, <1>3, <1>6, <1>12 DEF ValidDistribution, AllKeys, SumsToOne

(* n numbers. *)
Numbers(h, n) == h \in [1 .. n -> Nat]

(* Its mean is that of the numbers: levels the score does not have add none. *)
LEMMA GivenMean ==
  ASSUME NEW q, NEW h, Asks(q), Type(q) = "score", Numbers(h, Options(q))
  PROVE  Mean(Given(q, h)) = SumFunction([i \in 1 .. Options(q) |-> (i - 1) * h[i]])
<1>1. PICK n, m, p : n = Options(q) /\ m = Len(LevelKeys) /\ p = Given(q, h)
  OBVIOUS
<1>2. /\ n \in Nat \ {0} /\ h \in [1 .. n -> Nat] /\ m \in Nat /\ n <= m /\ DOMAIN LevelKeys = 1 .. m
      /\ \A i, j \in 1 .. m : LevelKeys[i] = LevelKeys[j] => i = j
  <2>1. n \in Nat \ {0} /\ n <= Len(LevelKeys)
    BY <1>1, Ordered DEF Asks
  <2>2. h \in [1 .. n -> Nat]
    BY <1>1 DEF Numbers
  <2> QED BY <1>1, <2>1, <2>2, AnswersAssumption
<1>3. /\ DOMAIN p = { LevelKeys[i] : i \in 1 .. n }
      /\ \A i \in 1 .. n : LevelKeys[i] \in DOMAIN p /\ p[LevelKeys[i]] = [num |-> h[i]]
  <2>1. Keys(q) = { LevelKeys[i] : i \in 1 .. n } /\ \A i \in 1 .. n : Order(q)[i] = LevelKeys[i]
    BY <1>1, Ordered DEF Asks
  <2>2. /\ DOMAIN p = Keys(q)
        /\ \A i \in 1 .. n : Order(q)[i] \in Keys(q) /\ p[Order(q)[i]] = [num |-> h[i]]
    BY <1>1, GivenFields
  <2> QED BY <2>1, <2>2
<1> DEFINE v == [i \in DOMAIN LevelKeys |-> IF LevelKeys[i] \in DOMAIN p THEN (i - 1) * p[LevelKeys[i]].num ELSE 0]
           w == [i \in 1 .. n |-> (i - 1) * h[i]]
<1>4. ASSUME NEW i \in 1 .. n PROVE v[i] = w[i] /\ w[i] \in Nat
  <2>1. i \in DOMAIN LevelKeys
    BY <1>2
  <2>2. v[i] = (i - 1) * h[i]
    <3>1. PICK k, x : k = LevelKeys[i] /\ x = h[i]
      OBVIOUS
    <3>2. k \in DOMAIN p /\ p[k] = [num |-> x]
      BY <1>3, <3>1
    <3>3. p[k].num = x
      BY <3>2
    <3>4. v[i] = IF k \in DOMAIN p THEN (i - 1) * p[k].num ELSE 0
      BY <2>1, <3>1
    <3> QED BY <3>1, <3>2, <3>3, <3>4
  <2>3. PICK a, x : a = i - 1 /\ x = h[i]
    OBVIOUS
  <2>4. a \in Nat /\ x \in Nat
    BY <1>2, <2>3
  <2>5. a * x \in Nat
    BY <2>4
  <2> QED BY <2>2, <2>3, <2>5
<1>5. ASSUME NEW i \in (1 .. m) \ (1 .. n) PROVE v[i] = 0
  <2>1. i \in DOMAIN LevelKeys /\ LevelKeys[i] \notin DOMAIN p
    BY <1>2, <1>3
  <2> QED BY <2>1
<1>6. v \in [1 .. m -> Nat] /\ w \in [1 .. n -> Nat]
  <2>1. v = [i \in 1 .. m |-> v[i]] /\ w = [i \in 1 .. n |-> w[i]]
    BY <1>2
  <2> HIDE DEF v, w
  <2>2. ASSUME NEW i \in 1 .. m PROVE v[i] \in Nat
    <3>1. CASE i \in 1 .. n
      BY <1>4, <3>1
    <3>2. CASE i \notin 1 .. n
      BY <1>5, <3>2
    <3> QED BY <3>1, <3>2
  <2> QED BY <1>4, <2>1, <2>2
<1>7. IsFiniteSet(1 .. m) /\ 1 .. n \in SUBSET (1 .. m)
  BY <1>2, FirstCount
<1>8. Mean(p) = SumFunction(v)
  BY DEF Mean
<1> HIDE DEF v, w
<1>9. SumFunction(v) = SumFunction(w)
  <2>1. PICK D, E : D = 1 .. n /\ E = 1 .. m
    OBVIOUS
  <2>2. IsFiniteSet(E) /\ D \in SUBSET E /\ v \in [E -> Nat] /\ w \in [D -> Nat]
    BY <1>6, <1>7, <2>1
  <2>3. (\A i \in D : v[i] = w[i]) /\ \A i \in E \ D : v[i] = 0
    BY <1>4, <1>5, <2>1
  <2> QED BY <2>2, <2>3, SumPadded
<1> QED BY <1>1, <1>8, <1>9 DEF w

(* Its legend is the criteria. *)
LEMMA LegendFields ==
  ASSUME NEW q, Asks(q), Type(q) = "score"
  PROVE  /\ Cardinality(DOMAIN Legend(q)) = Len(q.criteria.arr)
         /\ \A i \in DOMAIN q.criteria.arr : /\ LevelKeys[i] \in DOMAIN Legend(q)
                                             /\ Legend(q)[LevelKeys[i]] = q.criteria.arr[i]
<1>1. PICK n, ks, K : n = Options(q) /\ ks = Order(q) /\ K = Keys(q)
  OBVIOUS
<1>2. /\ n \in Nat /\ IsOrder(ks, K, n) /\ n = Len(q.criteria.arr) /\ DOMAIN q.criteria.arr = 1 .. n
      /\ \A i \in 1 .. n : ks[i] = LevelKeys[i]
  BY <1>1, Ordered DEF Asks
<1>3. ToSet(ks) = K /\ \A i \in 1 .. n : ks[i] \in K /\ Place(ks, ks[i]) = i
  BY <1>2, PlaceOf
<1>4. Legend(q) = [k \in K |-> q.criteria.arr[Place(ks, k)]]
  BY <1>1, <1>3 DEF Legend
<1>5. Cardinality(K) = n
  BY <1>1, <1>2, FiniteKeys DEF Asks
<1>6. ASSUME NEW i \in 1 .. n PROVE LevelKeys[i] \in K /\ Legend(q)[LevelKeys[i]] = q.criteria.arr[i]
  <2>1. ks[i] \in K /\ Place(ks, ks[i]) = i /\ ks[i] = LevelKeys[i]
    BY <1>2, <1>3
  <2>2. Legend(q)[ks[i]] = q.criteria.arr[Place(ks, ks[i])]
    BY <1>4, <2>1
  <2> QED BY <2>1, <2>2
<1> QED BY <1>2, <1>4, <1>5, <1>6

(* The provider's answer is valid, however each comparison at the bound is *)
(* rounded.                                                                *)
LEMMA HonestAnswer ==
  ASSUME NEW q, NEW off, NEW t, NEW p, NEW s, Honest(q, off, t, p, s), NEW up
  PROVE  ValidAnswer(Rounded(q, p, s), q, up)
<1> DEFINE a == Rounded(q, p, s)
           d == Distribution(q, p)
<1>1. Type(q) \in {"noul", "choice", "score"} /\ Has(q, "type", "str") /\ Unit \in Nat
  BY AnswersAssumption DEF Honest, Asks, ValidQuestion, ValidCriteria, Type
<1>2. CASE Type(q) = "noul"
  <2>1. a = [type |-> q.type, noul |-> [num |-> p[1]]]
    BY <1>2 DEF Rounded
  <2>2. p[1] \in 0 .. Unit
    <3>1. Options(q) = 2 /\ p \in [1 .. Options(q) -> 0 .. Unit]
      BY <1>2, HonestParts DEF Options
    <3> QED BY <3>1
  <2> QED BY <1>1, <1>2, <2>1, <2>2 DEF ValidAnswer, Probability, Number, Has, Is
<1>3. /\ DOMAIN d = {"type", "confidence", "probabilities"}
      /\ d["type"] = q.type /\ d["confidence"] = [num |-> Unit] /\ d["probabilities"] = [obj |-> Given(q, p)]
  BY DEF Distribution, Given
<1> HIDE DEF d
<1>4. Probability([num |-> Unit])
  BY <1>1 DEF Probability, Number, Is
<1>5. CASE Type(q) = "choice"
  <2>1. a = With(d, "choice", [str |-> Order(q)[1]])
    BY <1>5 DEF Rounded, d
  <2> HIDE DEF a
  <2>2. /\ DOMAIN a = {"type", "confidence", "probabilities", "choice"}
        /\ a["type"] = q.type /\ a["confidence"] = [num |-> Unit]
        /\ a["probabilities"] = [obj |-> Given(q, p)] /\ a["choice"] = [str |-> Order(q)[1]]
    <3>1. /\ DOMAIN With(d, "choice", [str |-> Order(q)[1]]) = DOMAIN d \cup {"choice"}
          /\ With(d, "choice", [str |-> Order(q)[1]])["choice"] = [str |-> Order(q)[1]]
          /\ \A g \in DOMAIN d \ {"choice"} : With(d, "choice", [str |-> Order(q)[1]])[g] = d[g]
      BY DEF With
    <3> QED BY <1>3, <2>1, <3>1
  <2>3. Order(q)[1] \in Keys(q)
    <3>1. Options(q) \in Nat \ {0}
      BY HonestParts
    <3>2. 1 \in 1 .. Options(q)
      BY <3>1
    <3> QED BY <1>5, <3>2, GivenFields DEF Honest
  <2>4. ValidDistribution(Given(q, p), q, up)
    BY <1>5, GivenSum
  <2>5. ValidAnswer(a, q, up)
    BY <1>1, <1>4, <1>5, <2>2, <2>3, <2>4 DEF ValidAnswer, Has, Is
  <2> QED BY <2>5 DEF a
<1>6. CASE Type(q) = "score"
  <2> DEFINE n == Options(q)
             b == With(d, "score", [num |-> s])
  <2>1. a = With(b, "legend", [obj |-> Legend(q)])
    BY <1>6 DEF Rounded, d
  <2>2. n \in 2 .. MaxLevels /\ n \in Nat \ {0, 1} /\ n = Len(q.criteria.arr)
    <3>1. n \in 2 .. MaxLevels /\ n = Len(q.criteria.arr)
      BY <1>6, Ordered DEF Honest, Asks
    <3> HIDE DEF n
    <3>3. n \in Nat \ {0, 1}
      <4>1. PICK x, m : x = n /\ m = MaxLevels
        OBVIOUS
      <4>2. m \in Nat /\ x \in 2 .. m
        BY <3>1, <4>1, AnswersAssumption
      <4>3. x \in Nat \ {0, 1}
        BY <4>2
      <4> QED BY <4>1, <4>3
    <3> QED BY <3>1, <3>3
  <2>3. IsRounded(p, t, n, off) /\ p \in [1 .. n -> 0 .. Unit] /\ IsOff(off) /\ off \in Nat
    BY HonestParts DEF IsRounded, IsOff
  <2>10. /\ s \in 0 .. (n - 1) * Unit /\ Mean(Given(q, p)) \in Nat
         /\ -((n * (n - 1) + 1) * off) <= (2 * Fine) * (s - Mean(Given(q, p)))
         /\ (2 * Fine) * (s - Mean(Given(q, p))) <= (n * (n - 1) + 1) * off
    <3>1. p \in [1 .. n -> Nat]
      <4>1. \A i \in 1 .. n : p[i] \in Nat
        BY <1>1, <2>3
      <4> QED BY <2>3, <4>1
    <3>2. Mean(Given(q, p)) = SumFunction([i \in 1 .. n |-> (i - 1) * p[i]])
      BY <1>6, <3>1, GivenMean DEF Honest, Numbers
    <3>3. s \in Int /\ Rounds(s, Expected(t), off)
      BY DEF Honest
    <3> HIDE DEF n
    <3>4. n \in Nat \ {0, 1} /\ IsRounded(p, t, n, off) /\ s \in Int /\ Rounds(s, Expected(t), off)
      BY <2>2, <2>3, <3>3
    <3>5. LET m == SumFunction([i \in 1 .. n |-> (i - 1) * p[i]])
          IN  /\ s \in 0 .. (n - 1) * Unit /\ m \in Nat
              /\ -((n * (n - 1) + 1) * off) <= (2 * Fine) * (s - m)
              /\ (2 * Fine) * (s - m) <= (n * (n - 1) + 1) * off
      BY <3>4, RoundedMean, Zenon
    <3> QED BY <3>2, <3>5, Zenon
  <2>4. /\ DOMAIN b = {"type", "confidence", "probabilities", "score"}
        /\ b["type"] = q.type /\ b["confidence"] = [num |-> Unit]
        /\ b["probabilities"] = [obj |-> Given(q, p)] /\ b["score"] = [num |-> s]
    <3>1. /\ DOMAIN With(d, "score", [num |-> s]) = DOMAIN d \cup {"score"}
          /\ With(d, "score", [num |-> s])["score"] = [num |-> s]
          /\ \A g \in DOMAIN d \ {"score"} : With(d, "score", [num |-> s])[g] = d[g]
      BY DEF With
    <3> QED BY <1>3, <3>1 DEF b
  <2> HIDE DEF a, b
  <2>5. /\ DOMAIN a = {"type", "confidence", "probabilities", "score", "legend"}
        /\ a["type"] = q.type /\ a["confidence"] = [num |-> Unit]
        /\ a["probabilities"] = [obj |-> Given(q, p)] /\ a["score"] = [num |-> s]
        /\ a["legend"] = [obj |-> Legend(q)]
    <3>1. /\ DOMAIN With(b, "legend", [obj |-> Legend(q)]) = DOMAIN b \cup {"legend"}
          /\ With(b, "legend", [obj |-> Legend(q)])["legend"] = [obj |-> Legend(q)]
          /\ \A g \in DOMAIN b \ {"legend"} : With(b, "legend", [obj |-> Legend(q)])[g] = b[g]
      BY DEF With
    <3> QED BY <2>1, <2>4, <3>1
  <2>6. ScoreNear(a, up)
    <3>1. (n * (n - 1) + 1) * off < 2 * Fine * ScoreTolerance
      BY <2>2, TruthsAssumption DEF Honest
    <3>2. PICK m, e : m = Mean(Given(q, p)) /\ e = (n * (n - 1) + 1) * off
      OBVIOUS
    <3>3. s \in Nat /\ m \in Nat /\ ScoreTolerance \in Nat /\ e \in Nat
      <4>1. (n - 1) * Unit \in Nat
        BY <1>1, <2>2
      <4>2. n * (n - 1) \in Nat
        BY <2>2
      <4> QED BY <2>3, <2>10, <3>2, <4>1, <4>2, AnswersAssumption
    <3>4. -e <= (2 * Fine) * (s - m) /\ (2 * Fine) * (s - m) <= e /\ e < (2 * Fine) * ScoreTolerance
      BY <2>10, <3>1, <3>2
    <3>5. Near(s, m, ScoreTolerance, up)
      BY <3>3, <3>4, NearWithin
    <3> QED BY <2>5, <3>2, <3>5 DEF ScoreNear
  <2>7. ValidLegend(a, q)
    BY <1>6, <2>5, LegendFields DEF Honest, ValidLegend, Has, Is
  <2>8. ValidDistribution(Given(q, p), q, up)
    BY <1>6, GivenSum
  <2>9. Number([num |-> s])
    BY DEF Number, Is
  <2>11. ValidAnswer(a, q, up)
    BY <1>1, <1>4, <1>6, <2>2, <2>10, <2>5, <2>6, <2>7, <2>8, <2>9 DEF ValidAnswer, Has, Is
  <2> QED BY <2>11 DEF a
<1> QED BY <1>1, <1>2, <1>5, <1>6

(* An honest answer is a truth, rounded; and none has been refused. *)
HonestInv ==
  /\ provider \in DOMAIN Off
  /\ provider # "faulty" /\ ValidQuestion(question)
     /\ Options(question) * Off[provider] < 2 * Fine * SumTolerance =>
       /\ phase # "refused"
       /\ phase = "answered" => \E t, p, s : /\ Honest(question, Off[provider], t, p, s)
                                             /\ answer = Rounded(question, p, s)

LEMMA InitHonest == Init => HonestInv
BY DEF Init, HonestInv

(* What the provider makes of a truth is a rounding of it. *)
LEMMA AnswerHonest ==
  ASSUME AnswersInv, provider \in DOMAIN Off, provider # "faulty", ValidQuestion(question),
         Options(question) * Off[provider] < 2 * Fine * SumTolerance, Answer
  PROVE  \E t, p, s : Honest(question, Off[provider], t, p, s) /\ answer' = Rounded(question, p, s)
<1>1. PICK t \in Truths[Options(question)], up \in [0 .. Options(question) -> {0, 1}] :
        LET p == [i \in DOMAIN t |-> t[i] \div Fine + up[i]]
            s == Expected(t) \div Fine + up[0]
        IN  /\ \A i \in DOMAIN t : Rounds(p[i], t[i], Off[provider])
            /\ Rounds(s, Expected(t), Off[provider])
            /\ answer' = Rounded(question, p, s)
  BY DEF Answer
<1>2. PICK n, p, s : /\ n = Options(question) /\ p = [i \in DOMAIN t |-> t[i] \div Fine + up[i]]
                     /\ s = Expected(t) \div Fine + up[0]
  OBVIOUS
<1>3. /\ \A f \in DOMAIN question : WellFormed(question[f])
      /\ n \in Nat \ {0} /\ t \in [1 .. n -> Nat] /\ SumFunction(t) = Unit * Fine /\ Fine \in Nat \ {0}
  BY <1>2, Offs, FewOptions, AnswersAssumption DEF Asks, AnswersInv, QuestionInv, IsTruth
<1>4. DOMAIN t = 1 .. n /\ \A i \in 0 .. n : up[i] \in Int
  BY <1>2, <1>3
<1>5. ASSUME NEW x \in Nat PROVE x \div Fine \in Int
  BY <1>3, <1>5
<1>6. p \in [1 .. n -> Int]
  <2>1. ASSUME NEW i \in 1 .. n PROVE t[i] \div Fine + up[i] \in Int
    <3>1. t[i] \in Nat /\ i \in 0 .. n
      BY <1>3
    <3> QED BY <1>4, <1>5, <3>1
  <2> QED BY <1>2, <1>4, <2>1
<1>7. s \in Int
  <2>1. Expected(t) \in Nat
    <3> DEFINE w == [i \in 1 .. n |-> (i - 1) * t[i]]
    <3>1. ASSUME NEW i \in 1 .. n PROVE (i - 1) * t[i] \in Nat
      <4>1. PICK a, b : a = i - 1 /\ b = t[i] /\ a \in Nat /\ b \in Nat
        BY <1>3
      <4>2. a * b \in Nat
        BY <4>1
      <4> QED BY <4>1, <4>2
    <3>2. w \in [1 .. n -> Nat]
      BY <3>1
    <3>3. Expected(t) = SumFunction(w)
      BY <1>4 DEF Expected
    <3> HIDE DEF w
    <3> QED BY <1>3, <3>2, <3>3, FirstCount, SumOf
  <2>2. up[0] \in Int
    BY <1>3, <1>4
  <2> QED BY <1>2, <1>5, <2>1, <2>2
<1>8. /\ \A i \in 1 .. n : Rounds(p[i], t[i], Off[provider])
      /\ Rounds(s, Expected(t), Off[provider]) /\ answer' = Rounded(question, p, s)
  BY <1>1, <1>2, <1>4, Zenon
<1>9. Honest(question, Off[provider], t, p, s)
  BY <1>1, <1>2, <1>3, <1>6, <1>7, <1>8 DEF Honest, Asks
<1> QED BY <1>8, <1>9

LEMMA StepHonest == ASSUME AnswersInv, HonestInv, [Next]_answerVars PROVE HonestInv'
<1>1. CASE SpoilQuestion
  BY <1>1 DEF SpoilQuestion, HonestInv
<1>2. CASE ValidateQuestions
  BY <1>2 DEF ValidateQuestions, HonestInv
<1>3. CASE Answer
  <2>1. UNCHANGED <<question, provider>> /\ phase' = "answered"
    BY <1>3 DEF Answer
  <2> QED BY <1>3, <2>1, AnswerHonest DEF HonestInv
<1>4. CASE SpoilAnswer
  BY <1>4 DEF SpoilAnswer, HonestInv
<1>5. CASE ValidateAnswer
  <2> SUFFICES ASSUME provider # "faulty", ValidQuestion(question),
                      Options(question) * Off[provider] < 2 * Fine * SumTolerance
               PROVE  phase' \notin {"refused", "answered"}
    BY <1>5 DEF ValidateAnswer, HonestInv
  <2>1. PICK up \in BOOLEAN : phase' = IF ValidAnswer(answer, question, up) THEN "accepted" ELSE "refused"
    BY <1>5 DEF ValidateAnswer
  <2>2. PICK t, p, s : Honest(question, Off[provider], t, p, s) /\ answer = Rounded(question, p, s)
    BY <1>5 DEF ValidateAnswer, HonestInv
  <2>3. ValidAnswer(answer, question, up)
    BY <2>2, HonestAnswer
  <2> QED BY <2>1, <2>3
<1>6. CASE Build
  BY <1>6 DEF Build, HonestInv
<1>7. CASE UNCHANGED answerVars
  BY <1>7 DEF answerVars, HonestInv
<1> QED BY <1>1, <1>2, <1>3, <1>4, <1>5, <1>6, <1>7 DEF Next

(***************************************************************************)
(* The tolerances leave room for rounding: an answer whose numbers were    *)
(* rounded, each by itself, to the nearest Unit or to either neighbour, is *)
(* never refused while the criteria times what rounding may be off by stay *)
(* below the tolerance of the sum: for every fineness of the truths, and   *)
(* below one as above it (jev_extension.cpp:856, 865).                     *)
(***************************************************************************)
THEOREM HonestIsAccepted == Spec => []HonestAccepted
<1>1. HonestInv => HonestAccepted
  BY DEF HonestInv, HonestAccepted
<1> QED BY <1>1, AlwaysAnswersInv, InitHonest, StepHonest, PTL DEF Spec
================================================================================
