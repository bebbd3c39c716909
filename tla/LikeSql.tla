------------------------------- MODULE LikeSql -------------------------------
(***************************************************************************)
(* The LIKE patterns of adapter/sqlfilter/sqlfilter.go, rune by rune, next *)
(* to engine.wildcardMatch on the same policy value and actual value.      *)
(***************************************************************************)
EXTENDS LikeMatcher, SequencesExt

Escaped(S, s) == FlattenSeq([k \in DOMAIN s |->
  IF s[k] \in S THEN <<"\\", s[k]>> ELSE <<s[k]>>])

(* Mutant of the next one: the escape rune itself is not escaped.          *)
EscapeOnlyWildcards(s) == Escaped({"%", "_"}, s)

(* escapeLike; likePattern starts with the same replacer.                  *)
EscapeLike(s) == Escaped({"\\", "%", "_"}, s)

Renamed(s) == [k \in DOMAIN s |->
  CASE s[k] = "*" -> "%" [] s[k] = "?" -> "_" [] OTHER -> s[k]]

(* Mutant of the next one: the wildcards are renamed before the escaping.  *)
RenameFirst(s) == EscapeLike(Renamed(s))

LikePattern(s) == Renamed(EscapeLike(s))

(* Mutant of the next one: the prefix is used as it stands.                *)
UnescapedPrefix(prefix) == prefix \o <<"/", "%">>

(* resourcePred, for what is under "prefix/**".                            *)
UnderPattern(prefix) == EscapeLike(prefix) \o <<"/", "%">>
-----------------------------------------------------------------------------
(* SQL's  text LIKE p ESCAPE '\': a rune after an escape stands for itself.*)
Char(c) == <<"char", c>>
Wild(c) == <<"wild", c>>

Escapes(p) ==
  LET escapes[k \in 0..Len(p)] ==
        IF k = 0 THEN FALSE ELSE p[k] = "\\" /\ ~escapes[k - 1]
  IN  escapes

Token(p, k) ==
  IF ~Escapes(p)[k - 1] /\ p[k] \in {"%", "_"} THEN Wild(p[k]) ELSE Char(p[k])

Tokens(p) ==
  LET read[k \in 0..Len(p)] ==
        IF k = 0 THEN <<>>
        ELSE IF Escapes(p)[k] THEN read[k - 1] ELSE Append(read[k - 1], Token(p, k))
  IN  read[Len(p)]

Like(t, p) ==
  Matches([one |-> Wild("_"), many |-> Wild("%")], Tokens(p), [k \in DOMAIN t |-> Char(t[k])])
-----------------------------------------------------------------------------
(* A list agrees with the gate on StringLike: the database selects the     *)
(* values wildcardMatch accepts, whatever metacharacters of LIKE the value *)
(* of the policy holds.  (On a text with a "*" wildcardMatch is at fault,  *)
(* see FindsEveryMatch.)                                                   *)
LikeAgreesWithGate ==
  pc = "done" /\ Plain(text) => (result <=> Like(text, LikePattern(pat)))

(* The LIKE of a prefix pattern selects the paths below the prefix, and    *)
(* none that merely look like it.                                          *)
PrefixSelectsBelow ==
  pc = "done" =>
    (Like(text, UnderPattern(pat)) <=> IsPrefix(pat \o <<"/">>, text))
=============================================================================
