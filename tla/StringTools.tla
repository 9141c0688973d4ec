----------------------------- MODULE StringTools -----------------------------
(***************************************************************************)
(* StringTools.cpp: what stands behind a token in a text.                  *)
(***************************************************************************)
EXTENDS Texts

\* std::string::find: the first place of t in s, from pos on; 0 for npos.
find(s, t, pos) ==
    LET places == {i \in pos .. Len(s) - Len(t) + 1 : SubSeq(s, i, i + Len(t) - 1) = t}
    IN  IF places = {} THEN 0 ELSE Min(places)

\* Mutant: the end marker is searched from the beginning.
GetStringByTokenFromStart(s, token, endmarker) ==
    LET found == find(s, token, 1)
        pos == found + Len(token)
        end == find(s, endmarker, 1)
    IN  IF found # 0 /\ pos <= Len(s) /\ end > pos THEN SubSeq(s, pos, end - 1) ELSE <<>>

\* What stands between a token and the end marker behind it.
GetStringByToken(s, token, endmarker) ==
    LET found == find(s, token, 1)
        pos == found + Len(token)
        end == find(s, endmarker, pos)
    IN  IF found # 0 /\ pos <= Len(s) /\ end > pos THEN SubSeq(s, pos, end - 1) ELSE <<>>

\* The length of the longest prefix of s that has only these bytes.
Prefix(s, chars) == Max({n \in 0 .. Len(s) : \A i \in 1 .. n : s[i] \in chars})

\* A sign in front of a number: its factor and the place behind it.
Plus == 43
Minus == 45
Point == 46
Sign(s) == IF get(s, 1) = Minus THEN -1 ELSE 1
Magnitude(s) == IF get(s, 1) \in {Minus, Plus} THEN SubSeq(s, 2, Len(s)) ELSE s

\* StringToNumber<int>: 0 without a digit and for a number that does not fit.
ToInteger(s) ==
    LET rest == Magnitude(s)
        n == Sign(s) * Natural(SubSeq(rest, 1, Prefix(rest, Digits)))
    IN  IF n \in -(IntWrap \div 2) .. IntWrap \div 2 - 1 THEN n ELSE 0

\* StringToNumber<float>, for a number without an exponent.
ToFloat(s) ==
    LET rest == Magnitude(s)
        whole == Prefix(rest, Digits)
        behind == SubSeq(rest, whole + 2, Len(rest))
        decimals == IF get(rest, whole + 1) = Point THEN Prefix(behind, Digits) ELSE 0
        digits == SubSeq(rest, 1, whole) \o SubSeq(behind, 1, decimals)
    IN  Decimal(Sign(s) * Natural(digits), -decimals)

\* GetNumberByToken: the conversion of all that stands behind the token.
AfterToken(s, token) ==
    LET found == find(s, token, 1)
    IN  IF found = 0 THEN <<>> ELSE SubSeq(s, found + Len(token), Len(s))

=============================================================================
