-------------------------------- MODULE Calc --------------------------------
(***************************************************************************)
(* The calculator, kernel/calc.c, as a function of the characters behind   *)
(* the word calc, and the grammar in its header, said without a parser.    *)
(* A character is its code.  A parsing function returns where it stopped,  *)
(* the value, and whether error has been set.  Numbers that 32 bits do not *)
(* hold are outside the model.                                             *)
(***************************************************************************)
EXTENDS Integers, Sequences, SequencesExt

Tab == 9
Space == 32
Percent == 37
Open == 40
Close == 41
Star == 42
Plus == 43
Minus == 45
Slash == 47
Digits == 48..57

MulOps == {Star, Slash, Percent}
AddOps == {Plus, Minus}

(* The character at p; the string ends with a 0. *)
At(s, p) == IF p <= Len(s) THEN s[p] ELSE 0

(* The first position from p on whose character is not one of cs. *)
Behind(s, p, cs) ==
    CHOOSE q \in p..Len(s) + 1 : At(s, q) \notin cs /\ \A i \in p..q - 1 : s[i] \in cs

skip_ws(s, p) == Behind(s, p, {Space, Tab})

Number(ds) == FoldLeft(LAMBDA v, c : v * 10 + (c - 48), 0, ds)

Abs(a) == IF a < 0 THEN -a ELSE a

(* Division of C: the quotient is cut off towards zero. *)
Quotient(a, b) ==
    LET q == Abs(a) \div Abs(b) IN IF (a < 0) = (b < 0) THEN q ELSE -q

Applied(op, a, b) ==
    CASE op = Star    -> a * b
      [] op = Slash   -> Quotient(a, b)
      [] op = Percent -> a - b * Quotient(a, b)
      [] op = Plus    -> a + b
      [] op = Minus   -> a - b

-----------------------------------------------------------------------------
RECURSIVE parse_expr(_, _), Factors(_, _), Terms(_, _), Mut_Terms(_, _)

(* A parenthesis, or a number with at most one sign. *)
parse_factor(s, from) ==
    LET p   == skip_ws(s, from)
        in  == parse_expr(s, p + 1)
        end == skip_ws(s, in.pos)
        neg == At(s, p) = Minus
        q   == IF neg THEN skip_ws(s, p + 1) ELSE p
        e   == Behind(s, q, Digits)
        n   == Number(SubSeq(s, q, e - 1))
    IN  IF At(s, p) = Open
        THEN IF At(s, end) = Close THEN [in EXCEPT !.pos = end + 1]
             ELSE [in EXCEPT !.pos = end, !.error = TRUE]
        ELSE [pos |-> e, val |-> IF neg THEN -n ELSE n, error |-> e = q]

(* The loop of parse_term, with what was read so far. *)
Factors(s, r) ==
    LET p  == skip_ws(s, r.pos)
        op == At(s, p)
        f  == parse_factor(s, p + 1)
    IN  IF op \notin MulOps THEN [r EXCEPT !.pos = p]
        ELSE IF op # Star /\ f.val = 0 THEN [pos |-> f.pos, val |-> 0, error |-> TRUE]
        ELSE Factors(s, [pos |-> f.pos, val |-> Applied(op, r.val, f.val),
                         error |-> r.error \/ f.error])

parse_term(s, p) == Factors(s, parse_factor(s, p))

(* Mutant: what follows the operator is one expression. *)
Mut_Terms(s, r) ==
    LET p  == skip_ws(s, r.pos)
        op == At(s, p)
        t  == parse_expr(s, p + 1)
    IN  IF op \notin AddOps THEN [r EXCEPT !.pos = p]
        ELSE [pos |-> t.pos, val |-> Applied(op, r.val, t.val), error |-> r.error \/ t.error]

(* The loop of parse_expr. *)
Terms(s, r) ==
    LET p  == skip_ws(s, r.pos)
        op == At(s, p)
        t  == parse_term(s, p + 1)
    IN  IF op \notin AddOps THEN [r EXCEPT !.pos = p]
        ELSE Terms(s, [pos |-> t.pos, val |-> Applied(op, r.val, t.val),
                       error |-> r.error \/ t.error])

parse_expr(s, p) == Terms(s, parse_term(s, p))

(* The value that is printed, or none. *)
calc_eval(s) ==
    LET r == parse_expr(s, 1)
    IN  IF r.error \/ At(s, skip_ws(s, r.pos)) # 0 THEN {} ELSE {r.val}

-----------------------------------------------------------------------------
(* The grammar: the values of a string as an expression, a term, a factor, *)
(* whichever way it may be divided; none if it is not one, or divides by   *)
(* zero.                                                                   *)
RECURSIVE ExprValues(_), TermValues(_)

Trim(s) ==
    LET inner == {i \in 1..Len(s) : s[i] \notin {Space, Tab}}
    IN  IF inner = {} THEN <<>>
        ELSE SubSeq(s, CHOOSE i \in inner : \A j \in inner : i <= j,
                       CHOOSE i \in inner : \A j \in inner : j <= i)

NumberValues(s) == IF s # <<>> /\ Range(s) \subseteq Digits THEN {Number(s)} ELSE {}

FactorValues(s) ==
    LET t == Trim(s)
    IN  IF t = <<>> THEN {}
        ELSE IF t[1] = Open
             THEN IF Last(t) = Close THEN ExprValues(SubSeq(t, 2, Len(t) - 1)) ELSE {}
        ELSE IF t[1] = Minus THEN {-v : v \in NumberValues(Trim(Tail(t)))}
        ELSE NumberValues(t)

(* What a op b may be: the remainder is smaller than b and has a's sign. *)
Results(op, a, b) ==
    LET quotients == {q \in -Abs(a)..Abs(a) : LET r == a - q * b IN Abs(r) < Abs(b) /\ r * a >= 0}
    IN  CASE op = Slash   -> quotients
          [] op = Percent -> {a - q * b : q \in quotients}
          [] op \in {Star, Plus, Minus} -> {Applied(op, a, b)}

Divided(s, ops, Left(_), Right(_)) ==
    UNION {UNION {UNION {Results(s[k], a, b) : b \in Right(SubSeq(s, k + 1, Len(s)))}
                  : a \in Left(SubSeq(s, 1, k - 1))}
           : k \in {i \in 1..Len(s) : s[i] \in ops}}

TermValues(s) == FactorValues(s) \cup Divided(s, MulOps, TermValues, FactorValues)
ExprValues(s) == TermValues(s) \cup Divided(s, AddOps, ExprValues, TermValues)

(* calc prints the value of an expression of the grammar and refuses what  *)
(* is not one (calc.c:6-11).                                               *)
FollowsGrammar(s) == calc_eval(s) = ExprValues(s)
=============================================================================
