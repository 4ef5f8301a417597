---------------------------- MODULE ShuntingYard ----------------------------
(***************************************************************************)
(* The calculator behind the dice (src/handlers/util/calc.cpp): a shunting *)
(* yard that turns tokens into reverse Polish notation, and its evaluation. *)
(*                                                                         *)
(* Numbers stay symbols, told apart by their place in the input, and the   *)
(* value of an expression is the tree of its operations: what is checked   *)
(* is what is computed with what, and not the arithmetic of doubles.       *)
(***************************************************************************)
EXTENDS Integers, Sequences, FiniteSets, SequencesExt

CONSTANT Operators  \* a subset of the operators

AllOperators == {"^", "*", "/", "\\", "%", "+", "-"}

ASSUME OperatorsAssumption == Operators \subseteq AllOperators

\* "number" is what std::stod reads, "junk" what it throws at, as the empty token.
Kinds == Operators \cup {"number", "junk", "(", ")"}
Token == [kind : Kinds, at : Nat]

GetPrecedence(token) ==
  CASE token.kind = "^" -> 10
    [] token.kind \in {"*", "/", "\\", "%"} -> 9
    [] token.kind \in {"+", "-"} -> 8
    [] OTHER -> 0

LeftAssoc(token) == token.kind # "^"

-----------------------------------------------------------------------------
(* ShuntingYard: _rpn, _operators with the front first, and whether every  *)
(* token so far has been accepted.                                         *)

Empty == [rpn |-> <<>>, operators |-> <<>>, ok |-> TRUE]

\* "while (!_operators.empty() && goes(front)) move the front to _rpn"
Popped(sy, goes) ==
  LET stays == {k \in DOMAIN sy.operators : k \notin goes} \cup {Len(sy.operators) + 1}
      n == (CHOOSE k \in stays : \A l \in stays : k <= l) - 1
  IN [sy EXCEPT !.rpn = @ \o SubSeq(sy.operators, 1, n),
                !.operators = SubSeq(@, n + 1, Len(@))]

\* Faulty variant: every operator associates to the left.
GoesBefore_Left(token, top) == GetPrecedence(top) >= GetPrecedence(token)

\* The operator on top of the stack is applied before this one.
GoesBefore(token, top) ==
  \/ LeftAssoc(token) /\ GetPrecedence(top) >= GetPrecedence(token)
  \/ ~LeftAssoc(token) /\ GetPrecedence(top) > GetPrecedence(token)

Close(sy) ==
  LET popped == Popped(sy, {k \in DOMAIN sy.operators : sy.operators[k].kind # "("})
  IN IF popped.operators = <<>>
       THEN [popped EXCEPT !.ok = FALSE]
       ELSE [popped EXCEPT !.operators = Tail(@)]

\* Faulty variants: a closing parenthesis is put on the stack, as operators are;
\* an operator takes those before it off the stack and is forgotten.
PushToken_NoClose(sy, token) ==
  IF token.kind \in {"number", "junk"} THEN [sy EXCEPT !.rpn = Append(@, token)]
  ELSE [sy EXCEPT !.operators = <<token>> \o @]

PushToken_Forgets(sy, token) ==
  CASE token.kind = "(" -> [sy EXCEPT !.operators = <<token>> \o @]
    [] token.kind = ")" -> Close(sy)
    [] token.kind \in {"number", "junk"} -> [sy EXCEPT !.rpn = Append(@, token)]
    [] OTHER ->
         LET goes == {k \in DOMAIN sy.operators : GoesBefore(token, sy.operators[k])}
             popped == Popped(sy, goes)
         IN [popped EXCEPT !.operators = <<token>> \o (IF @ = <<>> THEN @ ELSE Tail(@))]

PushToken(sy, token) ==
  CASE token.kind = "(" -> [sy EXCEPT !.operators = <<token>> \o @]
    [] token.kind = ")" -> Close(sy)
    [] token.kind \in {"number", "junk"} -> [sy EXCEPT !.rpn = Append(@, token)]
    [] OTHER ->
         LET goes == {k \in DOMAIN sy.operators : GoesBefore(token, sy.operators[k])}
         IN [Popped(sy, goes) EXCEPT !.operators = <<token>> \o @]

\* The loop looks at the last operator and moves the first: if the last is no
\* parenthesis everything goes, parentheses that were never closed included.
Finalize(sy) ==
  IF sy.operators # <<>> /\ Last(sy.operators).kind = "("
    THEN [sy EXCEPT !.ok = FALSE]
    ELSE [sy EXCEPT !.rpn = @ \o sy.operators, !.operators = <<>>]

-----------------------------------------------------------------------------
(* EvaluateRPN: the values, with the last at the end                       *)

Refused == <<"refused">>
Leaf(token) == <<"number", token.at>>
Node(token, arg1, arg2) == <<token.kind, arg1, arg2>>

\* A token that is no number and no operator is passed over with a warning;
\* Refused as the only value stands for "return false".
Apply(values, token) ==
  LET n == Len(values)
  IN IF values = <<Refused>> THEN values
     ELSE CASE token.kind = "number" -> Append(values, Leaf(token))
            [] token.kind \in Operators ->
                 IF n < 2 THEN <<Refused>>
                 ELSE Append(SubSeq(values, 1, n - 2), Node(token, values[n - 1], values[n]))
            [] OTHER -> values

EvaluateRPN(rpn) ==
  LET values == FoldLeft(Apply, <<>>, rpn)
  IN IF Len(values) = 1 THEN values[1] ELSE Refused

\* The value of a yard that has been given all its tokens.
Result(sy) ==
  LET final == Finalize(sy)
  IN IF sy.ok /\ final.ok THEN EvaluateRPN(final.rpn) ELSE Refused

-----------------------------------------------------------------------------
(* What the expression means, without a stack                              *)

Depth(tokens, i, k) ==
  Cardinality({l \in i..k : tokens[l].kind = "("})
    - Cardinality({l \in i..k : tokens[l].kind = ")"})

Balanced(tokens) ==
  /\ \A k \in DOMAIN tokens : Depth(tokens, 1, k) >= 0
  /\ tokens # <<>> => Depth(tokens, 1, Len(tokens)) = 0

\* The operator that is applied last: of the lowest level outside parentheses,
\* and there the last one, or the first if the level associates to the right.
Root(tokens, i, j) ==
  LET outside == {k \in i..j : tokens[k].kind \in Operators /\ Depth(tokens, i, k) = 0}
      lowest == {k \in outside : \A l \in outside :
                   GetPrecedence(tokens[k]) <= GetPrecedence(tokens[l])}
  IN IF outside = {} THEN 0
     ELSE CHOOSE k \in lowest :
            IF LeftAssoc(tokens[k]) THEN \A l \in lowest : l <= k
                                    ELSE \A l \in lowest : l >= k

Meaning(tokens) ==
  LET n == Len(tokens)
      Of[part \in (1..(n + 1)) \X (0..n)] ==
        LET i == part[1]
            j == part[2]
            root == Root(tokens, i, j)
        IN CASE i > j -> Refused
             [] i <= j /\ root # 0 ->
                  IF Of[<<i, root - 1>>] = Refused \/ Of[<<root + 1, j>>] = Refused
                    THEN Refused
                    ELSE Node(tokens[root], Of[<<i, root - 1>>], Of[<<root + 1, j>>])
             [] i <= j /\ root = 0 /\ i = j ->
                  IF tokens[i].kind = "number" THEN Leaf(tokens[i]) ELSE Refused
             [] OTHER ->
                  IF tokens[i].kind = "(" /\ tokens[j].kind = ")"
                    THEN Of[<<i + 1, j - 1>>] ELSE Refused
  IN Of[<<1, n>>]
=============================================================================
