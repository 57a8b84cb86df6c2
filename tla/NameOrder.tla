----------------------------- MODULE NameOrder -----------------------------
(***************************************************************************)
(* The order of names, NameCompare: a name is cut into numbers and single  *)
(* characters, numbers are compared as numbers.  Directories are sorted by *)
(* it, and it is the order of the map of corpora, which holds two names    *)
(* for one when neither comes before the other.                            *)
(*                                                                         *)
(* A character is its code.                                                *)
(***************************************************************************)
EXTENDS InfInt

Digits == 48..57

\* A digit that comes first, or after another, belongs to the token before it.
Continues(s, i) == s[i] \in Digits /\ (i = 1 \/ s[i - 1] \in Digits)

\* The tokens, one character after the other: the first is empty unless the name
\* begins with a digit.
nameIndex(s) ==
  LET index[i \in 0..Len(s)] ==
        IF i = 0 THEN <<<<>>>>
        ELSE LET tokens == index[i - 1]
             IN  IF Continues(s, i) THEN [tokens EXCEPT ![Len(tokens)] = Append(@, s[i])]
                                    ELSE Append(tokens, <<s[i]>>)
  IN  IF s = <<>> THEN <<>> ELSE index[Len(s)]

\* The order of std::string.
LessString(t, u) ==
  \E i \in 1..Len(u) :
    /\ i - 1 <= Len(t)
    /\ \A k \in 1..(i - 1) : t[k] = u[k]
    /\ i > Len(t) \/ t[i] < u[i]

IsNumber(t) == t # <<>> /\ t[1] \in Digits

\* Variant: numbers are compared as strings.
LessAsString(t, u) == LessString(t, u)

LessToken(t, u) ==
  IF IsNumber(t) /\ IsNumber(u) THEN LessInt(fromString(t), fromString(u))
                                 ELSE LessString(t, u)

Differ(t, u) == LessToken(t, u) \/ LessToken(u, t)

\* NameCompare: the first tokens that differ decide, then how many there are.
Less(s1, s2) ==
  LET i1 == nameIndex(s1)
      i2 == nameIndex(s2)
      both  == DOMAIN i1 \cap DOMAIN i2
      parts == {i \in both : Differ(i1[i], i2[i])}
  IN  \/ \E i \in parts : LessToken(i1[i], i2[i]) /\ \A k \in parts : i <= k
      \/ parts = {} /\ Len(i1) < Len(i2)

\* One key, to the map.
Equivalent(s1, s2) == ~Less(s1, s2) /\ ~Less(s2, s1)
=============================================================================
