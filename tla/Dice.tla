-------------------------------- MODULE Dice --------------------------------
(***************************************************************************)
(* From the text of a message to the tokens of an expression               *)
(* (GetDiceTokens, src/handlers/diceroller.cpp) and on to the answer       *)
(* (DiceRoller::HandleMessage), which ShuntingYard computes.               *)
(*                                                                         *)
(* A text is a sequence of characters.  Dice come up as one more number:   *)
(* which number is not modelled.                                           *)
(***************************************************************************)
EXTENDS ShuntingYard

CONSTANTS
  Words,    \* what expressions are written with: sequences of characters
  MaxWords  \* bound: words of a text

Digits == <<"0", "1", "2", "3", "4", "5", "6", "7", "8", "9">>

VARIABLE words  \* the words that make up the text after the dot

-----------------------------------------------------------------------------
(* GetDiceTokens                                                           *)

IsOperator(char) == char \in AllOperators \cup {"(", ")"}

\* std::string counts from zero.
At(text, pos) == text[pos + 1]

\* rawInput.find_first_of("+-*/\\^%()", from); a position past the end is npos.
Find(text, from) ==
  LET found == {p \in from..(Len(text) - 1) : IsOperator(At(text, p))}
  IN IF found = {} THEN Len(text) ELSE CHOOSE p \in found : \A q \in found : p <= q

\* A '-' that is a sign: it follows an operator, or it comes first and no
\* parenthesis follows it.  (A lone ".-" has no third character: rawInput.at(2)
\* throws, and Throws is left to the caller.)
IsSign(text, pos, prevOp) ==
  /\ pos < Len(text) /\ At(text, pos) = "-"
  /\ (pos # 1 /\ prevOp) \/ (pos = 1 /\ Len(text) > 2 /\ At(text, 2) # "(")

NeedsZero(text, pos) ==
  pos = 1 /\ Len(text) > 2 /\ At(text, 1) = "-" /\ At(text, 2) = "("

\* The loop, from a state of its variables prevPos and prevOp on: the rest of
\* the output.
RECURSIVE Tokens(_, _, _)
Tokens(text, prevPos, prevOp) ==
  LET first == Find(text, prevPos)
      zero == IF NeedsZero(text, first) THEN <<<<"0">>>> ELSE <<>>
      pos == IF IsSign(text, first, prevOp) THEN Find(text, prevPos + 1) ELSE first
  IN CASE pos >= Len(text) -> <<SubSeq(text, prevPos + 1, Len(text))>>
       [] pos < Len(text) /\ pos = prevPos ->
            zero \o <<<<At(text, pos)>>>> \o Tokens(text, pos + 1, TRUE)
       [] OTHER ->
            zero \o <<SubSeq(text, prevPos + 1, pos)>> \o Tokens(text, pos, FALSE)

Throws == <<"std::out_of_range">>

GetDiceTokens(text) ==
  CASE text = <<>> -> <<>>
    [] text # <<>> /\ text[1] # "." -> <<>>
    [] text = <<".", "-">> -> <<Throws>>
    [] OTHER -> Tokens(text, 1, TRUE)

-----------------------------------------------------------------------------
(* DiceRoller::HandleMessage                                               *)

IsDigit(char) == char \in Range(Digits)
Value(char) == (CHOOSE k \in 1..10 : Digits[k] = char) - 1

\* std::stoi: the digits at the beginning, with their sign; NoInt if it throws.
NoInt == -1000000
Stoi(chars) ==
  LET signed == chars # <<>> /\ chars[1] = "-"
      digits == IF signed THEN Tail(chars) ELSE chars
      n == CHOOSE k \in 0..Len(digits) :
             /\ \A l \in 1..k : IsDigit(digits[l])
             /\ k < Len(digits) => ~IsDigit(digits[k + 1])
      number == FoldLeft(LAMBDA sum, c : 10 * sum + Value(c), 0, SubSeq(digits, 1, n))
  IN IF n = 0 THEN NoInt ELSE IF signed THEN -number ELSE number

HasDice(token) == "d" \in Range(token)

GoodDice(token) ==
  LET dpos == CHOOSE k \in DOMAIN token : token[k] = "d" /\ "d" \notin Range(SubSeq(token, 1, k - 1))
  IN /\ Stoi(SubSeq(token, 1, dpos - 1)) \in 1..100
     /\ Stoi(SubSeq(token, dpos + 1, Len(token))) \in 1..10000

\* What PushToken and EvaluateRPN see in a token.
KindOf(token) ==
  CASE HasDice(token) -> "number"
    [] Len(token) = 1 /\ IsOperator(token[1]) -> token[1]
    [] ~HasDice(token) /\ Stoi(token) # NoInt -> "number"
    [] OTHER -> "junk"

\* The tokens are numbered without those that are empty, and without the zero
\* that is put before "-(".  Nobody in DiceRoller catches what GetDiceTokens throws:
\* on the XMPP thread it ends the process, on the gateway's the message is given up.
Answer(text) ==
  LET tokens == GetDiceTokens(text)
      zeros == IF Len(text) > 2 /\ NeedsZero(text, 1) THEN 1 ELSE 0
      yards == FoldLeftDomain(
                 LAMBDA sy, k : IF sy.ok THEN PushToken(sy, [kind |-> KindOf(tokens[k]), at |-> k - zeros])
                                         ELSE sy,
                 Empty, tokens)
  IN CASE tokens = <<Throws>> -> Throws
       [] tokens = <<>> \/ \E t \in Range(tokens) : HasDice(t) /\ ~GoodDice(t) -> Refused
       [] OTHER -> Result(yards)

-----------------------------------------------------------------------------
Init == words = <<>>
Write(word) == Len(words) < MaxWords /\ words' = Append(words, word)
Next == \E word \in Words : Write(word)
Spec == Init /\ [][Next]_words

-----------------------------------------------------------------------------
(* Properties                                                              *)

Text == <<".">> \o FlattenSeq(words)

IsSigned(word) == Len(word) > 1 /\ word[1] = "-"

\* The words as tokens of an expression: a sign is allowed at the beginning and
\* after an operator or an opening parenthesis, dice are good dice,
\* and a minus before a parenthesis at the very beginning subtracts it from 0.
AsTokens ==
  LET Misplaced(k) == IsSigned(words[k]) /\ k > 1 /\ KindOf(words[k - 1]) \notin Operators \cup {"("}
      BadDice(k) == HasDice(words[k]) /\ ~GoodDice(words[k])
      zero == IF Len(words) > 1 /\ words[1] = <<"-">> /\ words[2] = <<"(">>
                THEN <<[kind |-> "number", at |-> 0]>> ELSE <<>>
  IN zero \o [k \in DOMAIN words |->
                [kind |-> IF BadDice(k) \/ Misplaced(k) THEN "junk" ELSE KindOf(words[k]), at |-> k]]

Expression == Meaning(AsTokens) # Refused

\* An expression is answered with its value, signs and dice and parentheses in
\* any place, as long as nothing is subtracted from a parenthesis.
Understood ==
  Expression /\ (\A k \in 1..(Len(words) - 1) : words[k] = <<")">> => words[k + 1] # <<"-">>)
    => Answer(Text) = Meaning(AsTokens)

\* A message is answered, or handed on to the next handler: KeepGoing.
NeverThrows == Answer(Text) # Throws

\* "Start your message with . (dot) and write an expression using integer
\* numbers, dice in format XdY, parenthesis or operators" (GetHelp): every one.
AllUnderstood == Expression => Answer(Text) = Meaning(AsTokens)
=============================================================================
