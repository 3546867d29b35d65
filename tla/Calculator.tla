----------------------------- MODULE Calculator -----------------------------
(***************************************************************************)
(* The calculator: a line that is typed, the parser that reads it, integer *)
(* arithmetic of a fixed width that is checked before it is done (calc.c), *)
(* and the table of named values that outlives the line (vars.c).          *)
(*                                                                         *)
(* A line is a sequence of keys. A keyword is one key, blanks included     *)
(* that set it apart; other blanks are left out.                           *)
(***************************************************************************)
EXTENDS Integers, FiniteSets, Sequences, SequencesExt

CONSTANTS INT_MAX,          \* the integers are -INT_MAX - 1 .. INT_MAX
          CALC_MAX_INPUT,
          VARS_MAX,
          VARS_MAX_NAME,
          DigitValues,      \* the digits, and what they stand for
          NameLetters,
          Keys, FreeLength, \* bounds: lines of these keys, this long, are typed,
          Sums              \* and these

ASSUME CalculatorAssumption ==
  /\ {INT_MAX, CALC_MAX_INPUT, VARS_MAX, VARS_MAX_NAME} \subseteq Nat \ {0}
  /\ NameLetters \cap DOMAIN DigitValues = {}

VARIABLES calc,    \* struct calc
          vars     \* struct vars: names that have a value

calc_vars == <<calc, vars>>

INT_MIN == -INT_MAX - 1
Signs == {"+", "-"}
Operators == Signs \cup {"*", "/", "^"}
Comparisons == {"=", "<", ">"}
Digits == DOMAIN DigitValues
NameChars == NameLetters \cup Digits

----------------------------------------------------------------------------
(* Checked arithmetic *)

Value(v) == [ok |-> TRUE, value |-> v]
NoValue == [ok |-> FALSE, value |-> 0]
checked(fits, v) == IF fits THEN Value(v) ELSE NoValue

\* Division in C, towards zero.
quotient(a, b) ==
  LET abs(n) == IF n < 0 THEN -n ELSE n
  IN  IF (a < 0) = (b < 0) THEN abs(a) \div abs(b) ELSE -(abs(a) \div abs(b))

add_checked(a, b) ==
  checked(~(b > 0 /\ a > INT_MAX - b) /\ ~(b < 0 /\ a < INT_MIN - b), a + b)
sub_checked(a, b) ==
  checked(~(b < 0 /\ a > INT_MAX + b) /\ ~(b > 0 /\ a < INT_MIN + b), a - b)

mul_checked(a, b) ==
  CASE a = 0 \/ b = 0 -> Value(0)
    [] a = -1 -> checked(b # INT_MIN, -b)
    [] b = -1 -> checked(a # INT_MIN, -a)
    [] a > 0 /\ b > 0 -> checked(a <= quotient(INT_MAX, b), a * b)
    [] a > 0 /\ b < -1 -> checked(b >= quotient(INT_MIN, a), a * b)
    [] a < -1 /\ b > 0 -> checked(a >= quotient(INT_MIN, b), a * b)
    [] a < -1 /\ b < -1 -> checked(a >= quotient(INT_MAX, b), a * b)

div_checked(a, b) == checked(b # 0 /\ ~(a = INT_MIN /\ b = -1), IF b = 0 THEN 0 ELSE quotient(a, b))

\* Multiplied out until a product does not fit; 0, 1 and -1 never would.
multiplied_out(base, exponent) ==
  FoldLeft(LAMBDA result, factor : IF result.ok THEN mul_checked(result.value, factor) ELSE result,
           Value(1), [i \in 1..exponent |-> base])
pow_checked(base, exponent) ==
  CASE exponent < 0 -> NoValue
    [] exponent >= 0 /\ base = 0 -> Value(IF exponent = 0 THEN 1 ELSE 0)
    [] exponent >= 0 /\ base = 1 -> Value(1)
    [] exponent >= 0 /\ base = -1 -> Value(IF exponent % 2 = 0 THEN 1 ELSE -1)
    [] OTHER -> multiplied_out(base, exponent)

----------------------------------------------------------------------------
(* The parser. What is read of line l from place `at' on, with the names as  *)
(* they are, is a value and the place after it.                            *)

peek(l, at) == IF at <= Len(l) THEN l[at] ELSE ""
past(l, at, chars) ==
  CHOOSE to \in at..(Len(l) + 1) :
     (to = Len(l) + 1 \/ l[to] \notin chars) /\ \A i \in at..(to - 1) : l[i] \in chars

read(answer, to) == [ok |-> answer.ok, value |-> answer.value, at |-> to]
Refused == read(NoValue, 0)

parse_number(l, at) ==
  LET to == past(l, at, Digits)
      plus(tenfold, d) == IF tenfold.ok THEN add_checked(tenfold.value, DigitValues[d]) ELSE NoValue
      longer(number, d) == IF number.ok THEN plus(mul_checked(number.value, 10), d) ELSE NoValue
  IN  IF to = at THEN Refused ELSE read(FoldLeft(longer, Value(0), SubSeq(l, at, to - 1)), to)

\* A name that is too long is none.
name_at(l, at) ==
  IF peek(l, at) \notin NameLetters \/ past(l, at, NameChars) - at > VARS_MAX_NAME THEN <<>>
  ELSE SubSeq(l, at, past(l, at, NameChars) - 1)

parse_primary(l, at) ==
  LET name == name_at(l, at)
  IN  IF name = <<>> THEN parse_number(l, at)
      ELSE IF name \in DOMAIN vars THEN read(Value(vars[name]), at + Len(name)) ELSE Refused

done(op, a, b) ==
  CASE op = "+" -> add_checked(a, b)
    [] op = "-" -> sub_checked(a, b)
    [] op = "*" -> mul_checked(a, b)
    [] op = "/" -> div_checked(a, b)
    [] op = "^" -> pow_checked(a, b)

\* The operator between `left' and `right', which was read after it.
joined_by(l, left, right) ==
  IF right.ok THEN read(done(l[left.at], left.value, right.value), right.at) ELSE Refused

\* A sign binds looser than a power, so its right side is a unary.
RECURSIVE parse_unary(_, _)
power_from(l, base) ==
  IF ~base.ok \/ peek(l, base.at) # "^" THEN base
  ELSE joined_by(l, base, parse_unary(l, base.at + 1))
signed(sign, right) ==
  IF right.ok /\ sign = "-" THEN read(sub_checked(0, right.value), right.at) ELSE right
parse_unary(l, at) ==
  IF peek(l, at) \in Signs THEN signed(l[at], parse_unary(l, at + 1))
  ELSE power_from(l, parse_primary(l, at))

\* Mutant: what stands to the right of an operator is worked out first.
RECURSIVE FromTheRight(_, _)
FromTheRight(l, left) ==
  IF ~left.ok \/ peek(l, left.at) \notin {"*", "/"} THEN left
  ELSE joined_by(l, left, FromTheRight(l, parse_unary(l, left.at + 1)))

RECURSIVE term_from(_, _)
term_from(l, left) ==
  IF ~left.ok \/ peek(l, left.at) \notin {"*", "/"} THEN left
  ELSE term_from(l, joined_by(l, left, parse_unary(l, left.at + 1)))
parse_term(l, at) == term_from(l, parse_unary(l, at))

RECURSIVE expression_from(_, _)
expression_from(l, left) ==
  IF ~left.ok \/ peek(l, left.at) \notin Signs THEN left
  ELSE expression_from(l, joined_by(l, left, parse_term(l, left.at + 1)))
parse_expression(l, at) == expression_from(l, parse_term(l, at))

\* = and == are the same comparison.
after_comparison(l, at) ==
  IF peek(l, at) = "=" /\ peek(l, at + 1) = "=" THEN at + 2 ELSE at + 1
holds(how, left, right) ==
  CASE how = "=" -> left = right
    [] how = "<" -> left < right
    [] how = ">" -> left > right

\* The expression after a keyword, where that is what comes next.
after_word(l, before, w) ==
  IF before.ok /\ peek(l, before.at) = w THEN parse_expression(l, before.at + 1) ELSE Refused

\* Both branches are worked out, and both have to be well.
taken(condition, when_true, when_false) ==
  IF ~when_false.ok THEN Refused
  ELSE read(Value(IF condition THEN when_true.value ELSE when_false.value), when_false.at)
branches(l, condition, when_true) == taken(condition, when_true, after_word(l, when_true, "ELSE"))
compared(l, left, right) ==
  branches(l, holds(l[left.at], left.value, right.value), after_word(l, right, "THEN"))
conditional(l, left) ==
  IF left.ok /\ peek(l, left.at) \in Comparisons
  THEN compared(l, left, parse_expression(l, after_comparison(l, left.at))) ELSE Refused

\* The name a line assigns to: two equals signs compare.
assigned(l) ==
  LET name == name_at(l, 1)
  IN  IF peek(l, Len(name) + 1) = "=" /\ peek(l, Len(name) + 2) # "=" THEN name ELSE <<>>

parse_statement(l) ==
  CASE assigned(l) # <<>> -> parse_expression(l, Len(assigned(l)) + 2)
    [] assigned(l) = <<>> /\ peek(l, 1) = "IF" -> conditional(l, parse_expression(l, 2))
    [] OTHER -> parse_expression(l, 1)

----------------------------------------------------------------------------
(* Keys *)

EmptyLine == [text |-> <<>>, result |-> 0, has_result |-> FALSE, error |-> FALSE]

can_set(name) == name \in DOMAIN vars \/ Cardinality(DOMAIN vars) < VARS_MAX

\* The line is whole, and there is a place for what it assigns.
is_taken(l, answer) ==
  /\ answer.ok /\ answer.at = Len(l) + 1
  /\ assigned(l) = <<>> \/ can_set(assigned(l))

with_value(name, value) ==
  [n \in DOMAIN vars \cup {name} |-> IF n = name THEN value ELSE vars[n]]

\* With a line that is refused nothing is stored.
calc_evaluate(l, answer) ==
  LET good == is_taken(l, answer)
  IN  /\ calc' = [calc EXCEPT !.has_result = good, !.error = ~good,
                              !.result = IF good THEN answer.value ELSE @]
      /\ vars' = IF good /\ assigned(l) # <<>> THEN with_value(assigned(l), answer.value) ELSE vars

CALC_EVALUATE == calc.text # <<>> /\ calc_evaluate(calc.text, parse_statement(calc.text))

CALC_DELETE ==
  /\ calc.text # <<>>
  /\ calc' = [calc EXCEPT !.text = Front(@), !.has_result = FALSE, !.error = FALSE]
  /\ UNCHANGED vars

CALC_CLEAR == calc' = EmptyLine /\ UNCHANGED vars

\* Two operators in a row only when the second is a sign and the first is not.
may_follow(key, text) ==
  (key \in Operators /\ text # <<>> /\ Last(text) \in Operators)
    => key \in Signs /\ Last(text) \notin Signs

\* After a result, or an error, a key starts a new line.
TypeCharacter(key) ==
  LET line == IF calc.has_result \/ calc.error THEN EmptyLine ELSE calc
  IN  /\ Len(calc.text) < CALC_MAX_INPUT
      /\ may_follow(key, line.text)
      /\ calc' = [line EXCEPT !.text = Append(@, key)]
      /\ UNCHANGED vars

\* The keys that begin or go on with a line within the bounds.
Wanted ==
  LET line == IF calc.has_result \/ calc.error THEN <<>> ELSE calc.text
      longer == {sum \in Sums : Len(sum) > Len(line) /\ IsPrefix(line, sum)}
  IN  {sum[Len(line) + 1] : sum \in longer}
        \cup (IF Len(line) < FreeLength /\ Range(line) \subseteq Keys THEN Keys ELSE {})

CalculatorInit == calc = EmptyLine /\ vars = [n \in {} |-> 0]

CalculatorNext ==
  \/ CALC_EVALUATE \/ CALC_DELETE \/ CALC_CLEAR
  \/ \E key \in Wanted : TypeCharacter(key)

----------------------------------------------------------------------------
(* What a line means, by where it falls apart and in integers of any size  *)

Meaning(v) == IF v \in INT_MIN..INT_MAX THEN Value(v) ELSE NoValue
cut(l, from, to) == SubSeq(l, from, to)
operand_ends(l, i) == i > 1 /\ l[i - 1] \in NameChars

RECURSIVE power_of(_, _)
power_of(a, n) == IF n = 0 THEN 1 ELSE a * power_of(a, n - 1)

\* What an operator makes of what stands either side of it.
meets(op, a, b) ==
  IF ~a.ok \/ ~b.ok \/ (op = "/" /\ b.value = 0) \/ (op = "^" /\ b.value < 0) THEN NoValue
  ELSE CASE op = "+" -> Meaning(a.value + b.value)
         [] op = "-" -> Meaning(a.value - b.value)
         [] op = "*" -> Meaning(a.value * b.value)
         [] op = "/" -> Meaning(quotient(a.value, b.value))
         [] op = "^" -> Meaning(power_of(a.value, b.value))

operand_means(l) ==
  CASE l # <<>> /\ Range(l) \subseteq Digits ->
         Meaning(FoldLeft(LAMBDA v, d : 10 * v + DigitValues[d], 0, l))
    [] l \in DOMAIN vars -> Value(vars[l])
    [] OTHER -> NoValue

\* A sign in front of everything, or else the first power, is looked at last.
RECURSIVE unary_means(_)
unary_means(l) ==
  LET up == SelectInSeq(l, LAMBDA x : x = "^")
  IN  IF l # <<>> /\ Head(l) \in Signs THEN meets(Head(l), Value(0), unary_means(Tail(l)))
      ELSE IF up = 0 THEN operand_means(l)
      ELSE meets("^", operand_means(cut(l, 1, up - 1)), unary_means(cut(l, up + 1, Len(l))))

\* Apart at the last operator of the loosest kind that has an operand before it.
RECURSIVE means(_, _)
means(l, kinds) ==
  IF kinds = <<>> THEN unary_means(l)
  ELSE LET places == {i \in DOMAIN l : l[i] \in Head(kinds) /\ operand_ends(l, i)}
           at == CHOOSE i \in places : \A j \in places : j <= i
       IN  IF places = {} THEN means(l, Tail(kinds))
           ELSE meets(l[at], means(cut(l, 1, at - 1), kinds), means(cut(l, at + 1, Len(l)), Tail(kinds)))
expression_means(l) == means(l, <<Signs, {"*", "/"}>>)

\* IF a cmp b THEN c ELSE d, where m is what a, b, c and d mean.
choice(how, m) ==
  IF \E i \in 1..4 : ~m[i].ok THEN NoValue
  ELSE IF holds(how, m[1].value, m[2].value) THEN m[3] ELSE m[4]
conditional_means(l) ==
  LET place(w) == SelectInSeq(l, LAMBDA x : x = w)
      how == SelectInSeq(l, LAMBDA x : x \in Comparisons)
      right == IF how < Len(l) /\ l[how] = "=" /\ l[how + 1] = "=" THEN how + 2 ELSE how + 1
      part == <<cut(l, 2, how - 1), cut(l, right, place("THEN") - 1),
                cut(l, place("THEN") + 1, place("ELSE") - 1), cut(l, place("ELSE") + 1, Len(l))>>
  IN  IF 1 < how /\ how < place("THEN") /\ place("THEN") < place("ELSE")
      THEN choice(l[how], [i \in 1..4 |-> expression_means(part[i])]) ELSE NoValue

\* The lengths of the name a line begins with and gives a value to: one, or none.
name_lengths(l) ==
  {i \in 1..VARS_MAX_NAME :
     /\ i < Len(l) /\ l[1] \in NameLetters /\ Range(cut(l, 1, i)) \subseteq NameChars
     /\ l[i + 1] = "=" /\ (i + 2 \in DOMAIN l => l[i + 2] # "=")}
names_given(l) == {cut(l, 1, i) : i \in name_lengths(l)}
line_means(l) ==
  CASE name_lengths(l) # {} ->
         expression_means(cut(l, (CHOOSE i \in name_lengths(l) : TRUE) + 2, Len(l)))
    [] name_lengths(l) = {} /\ l[1] = "IF" -> conditional_means(l)
    [] OTHER -> expression_means(l)

----------------------------------------------------------------------------
(* Properties *)

CalculatorTypeOK ==
  /\ Len(calc.text) <= CALC_MAX_INPUT /\ calc.result \in INT_MIN..INT_MAX
  /\ ~(calc.has_result /\ calc.error)
  /\ Cardinality(DOMAIN vars) <= VARS_MAX
  /\ \A n \in DOMAIN vars : Len(n) \in 1..VARS_MAX_NAME /\ vars[n] \in INT_MIN..INT_MAX

\* What comes of evaluating line l, which means m.
answered(l, m) ==
  IF calc'.error
  THEN vars' = vars /\ (m.ok => names_given(l) # {} /\ Cardinality(DOMAIN vars) = VARS_MAX)
  ELSE /\ m.ok /\ calc'.result = m.value
       /\ DOMAIN vars' = DOMAIN vars \cup names_given(l)
       /\ \A n \in DOMAIN vars' : vars'[n] = IF n \in names_given(l) THEN m.value ELSE vars[n]

\* An answer is the one the line has on paper, and when it has none, or a step
\* towards it does not fit, that is said and no name changes its value
\* (calc.h:71-75); and an answer stands beside no line but its own.
AnswersAreExact ==
  [][/\ CALC_EVALUATE => answered(calc.text, line_means(calc.text))
     /\ calc'.text # calc.text => ~calc'.has_result]_calc_vars
=============================================================================
