----------------------------- MODULE PathValidator -----------------------------
(***************************************************************************)
(* The check that a path stays below a base directory.  A path is a        *)
(* sequence of characters, URL escapes (%2e) being one each; separators    *)
(* are those of POSIX.  The file system is external: a place in it is the  *)
(* sequence of the names that lead to it, and some places are links.  The  *)
(* base directory exists: of one that does not weakly_canonical keeps a    *)
(* separator at the end.                                                   *)
(***************************************************************************)
EXTENDS Integers, FiniteSetsExt, SequencesExt

CONSTANTS
    PathConfigs,  \* configurations: see PathConfigRecords
    NoBase,       \* an empty base_directory
    Links         \* for each symbolic link where it leads to

VARIABLES path_config, path_configured

pathVars == <<path_config, path_configured>>

PathConfigRecords == [base : Seq(Seq(STRING)) \cup {NoBase}, absolute : BOOLEAN]

(* The name of a file or directory, that of neither of the two entries     *)
(* every directory has.                                                    *)
IsName(n) == n \notin {<<>>, <<".">>, <<".", ".">>} /\ \A i \in DOMAIN n : n[i] # "/"
IsPlace(x) == x \in Seq(Seq(STRING)) /\ \A i \in DOMAIN x : IsName(x[i])

ASSUME PathAssumption ==
    /\ \A c \in PathConfigs : c.base = NoBase \/ IsPlace(c.base)
    /\ \A l \in DOMAIN Links : IsPlace(Links[l])

DefaultPathConfig == [base |-> NoBase, absolute |-> FALSE]

ContainsNullByte(p) == Contains(p, "^@")

FollowedBy(p, a, b) == \E i \in 1 .. Len(p) - 1 : p[i] = a /\ p[i + 1] = b

ContainsTraversalSequences(p) == FollowedBy(p, ".", ".") \/ FollowedBy(p, "~", "/")

(* Two encoded dots in a row are found in any case, two that are apart     *)
(* only in lower case: once the search for %2e has come to the end, the    *)
(* one for %2E starts from there.                                          *)
ContainsEncodedTraversal(p) ==
    \/ \E a, b \in {"%2e", "%2E"} : FollowedBy(p, a, b)
    \/ \E i \in DOMAIN p : p[i] \in {"%2f", "%2F", "%5c", "%5C", "%252e", "%252E", "%252f", "%252F"}
    \/ Cardinality({i \in DOMAIN p : p[i] = "%2e"}) >= 2

Letters == {"a", "b", "l"}

LooksAbsolute(p) ==
    \/ Len(p) >= 1 /\ p[1] \in {"/", "\\"}
    \/ Len(p) >= 2 /\ p[1] \in Letters /\ p[2] = ":"

(* The names between the separators, those without meaning left out.       *)
Names(p) ==
    LET names[i \in Nat \ {0}] ==
            IF i > Len(p) THEN <<>>
            ELSE LET end == Min({Len(p) + 1} \cup {j \in i .. Len(p) : p[j] = "/"})
                     part == SubSeq(p, i, end - 1)
                 IN (IF part \in {<<>>, <<".">>} THEN <<>> ELSE <<part>>) \o names[end + 1]
    IN names[1]

(* std::filesystem::weakly_canonical of the names under the place from:    *)
(* links are followed.                                                     *)
Canonical(from, names) ==
    LET place[n \in 0 .. Len(names)] ==
            IF n = 0 THEN from
            ELSE LET step == Append(place[n - 1], names[n])
                 IN IF step \in DOMAIN Links THEN Links[step] ELSE step
    IN place[Len(names)]

(* base_directory / user_path: an absolute path replaces the base.         *)
Combined(base, p) ==
    IF Len(p) >= 1 /\ p[1] = "/" THEN Canonical(<<>>, Names(p))
    ELSE Canonical(Canonical(<<>>, base), Names(p))

PathString(place) ==
    IF place = <<>> THEN <<"/">> ELSE FlattenSeq([n \in DOMAIN place |-> <<"/">> \o place[n]])

(* Faulty variant: no separator at the end of the base.                    *)
BasePrefixBare(base) == PathString(Canonical(<<>>, base))

(* The base with a separator at its end.                                   *)
BasePrefix(base) ==
    LET s == PathString(Canonical(<<>>, base))
    IN IF Last(s) = "/" THEN s ELSE Append(s, "/")

ValidateWithinBase(place, base) == IsPrefix(BasePrefix(base), PathString(place))

(* Every text has the empty base as a prefix.                              *)
IsSafePath(p) ==
    /\ path_configured
    /\ ~ContainsNullByte(p)
    /\ ~ContainsTraversalSequences(p)
    /\ ~ContainsEncodedTraversal(p)
    /\ path_config.absolute \/ ~LooksAbsolute(p)
    /\ \/ path_config.base = NoBase
       \/ ValidateWithinBase(Combined(path_config.base, p), path_config.base)

PathInit == path_config = DefaultPathConfig /\ path_configured = FALSE

Configure(c) == path_config' = c /\ path_configured' = TRUE

PathNext == \E c \in PathConfigs : Configure(c)

-----------------------------------------------------------------------------
PlainPath(p) ==
    /\ \A i \in DOMAIN p : p[i] \in Letters \cup {"/", "."}
    /\ ~ContainsTraversalSequences(p)

(* The comparison of texts amounts to one of places.  With a base given,   *)
(* an accepted path leads to a place below the base, links followed, and   *)
(* not to one whose name only starts like the base; and a plain path that  *)
(* leads below the base is accepted.  The base itself is not below it,     *)
(* unless it is the root.                                                  *)
SafeMeansInside(p) ==
    LET base == Canonical(<<>>, path_config.base)
        place == Combined(path_config.base, p)
        inside == IsStrictPrefix(base, place) \/ base = <<>>
    IN path_config.base # NoBase =>
         /\ IsSafePath(p) => inside
         /\ path_configured /\ PlainPath(p) /\ inside =>
              (IsSafePath(p) <=> path_config.absolute \/ ~LooksAbsolute(p))

(* Before configure nothing is safe.                                       *)
UnconfiguredIsUnsafe(p) == ~path_configured => ~IsSafePath(p)

=============================================================================
