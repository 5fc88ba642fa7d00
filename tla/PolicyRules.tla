----------------------------- MODULE PolicyRules -----------------------------
(***************************************************************************)
(* policy.engine: what a per-service policy allows.  A policy has three    *)
(* dimensions and an empty one allows everything.                          *)
(*                                                                         *)
(* A host is the sequence of its labels; an allowed host is one, or the    *)
(* wildcard "*.<labels>" over all hosts that end with those labels and     *)
(* have more.  A path is a sequence of characters in which an escape       *)
(* counts as one, and "%" is an escape that cannot be decoded.             *)
(***************************************************************************)
EXTENDS Naturals, Sequences, SequencesExt

\* Host "" is the empty sequence.
MatchHost(actual, allowed) ==
  \/ ~allowed.wildcard /\ actual = allowed.labels
  \/ /\ allowed.wildcard
     /\ IsSuffix(allowed.labels, actual)
     /\ Len(actual) > Len(allowed.labels)

\* url.PathUnescape: each escape becomes its character, once.
Unescape(char) ==
  IF char = "%2e" THEN "." ELSE IF char = "%2f" THEN "/" ELSE char

\* ... or, where one of them is bad, none does.
Decode(path) ==
  IF \E i \in DOMAIN path : path[i] = "%" THEN path ELSE [i \in DOMAIN path |-> Unescape(path[i])]

\* path.Clean on the segments of a path: "" and "." vanish, ".." takes the segment
\* before it away, or stays if there is none, or vanishes at the root.
DotDot == <<".", ".">>
AddSegment(rooted, segments, s) ==
  IF s \in {<<>>, <<".">>} THEN segments
  ELSE IF s # DotDot THEN Append(segments, s)
  ELSE IF segments # <<>> /\ Last(segments) # DotDot THEN Front(segments)
  ELSE IF rooted THEN segments ELSE Append(segments, s)

\* cleanPath: a path without a "/" in front stays without one, and "" becomes ".".
CleanPath(path) ==
  LET chars == Decode(path)
      rooted == chars # <<>> /\ Head(chars) = "/"
      step(acc, char) ==
        IF char = "/" THEN [done |-> AddSegment(rooted, acc.done, acc.open), open |-> <<>>]
        ELSE [acc EXCEPT !.open = Append(@, char)]
      end == FoldLeft(step, [done |-> <<>>, open |-> <<>>], chars)
      segments == AddSegment(rooted, end.done, end.open)
      join(acc, s) == IF acc = <<>> /\ ~rooted THEN s ELSE acc \o <<"/">> \o s
  IN IF segments # <<>> THEN FoldLeft(join, <<>>, segments)
     ELSE IF rooted THEN <<"/">> ELSE <<".">>

\* Evaluate(Request, Policy).  Methods are compared in upper case.
Evaluate(method, host, path, pol) ==
  /\ pol.methods # {} => method \in pol.methods
  /\ pol.hosts # {} => \E h \in pol.hosts : MatchHost(host, h)
  /\ pol.paths # {} => \E prefix \in pol.paths : IsPrefix(prefix, CleanPath(path))

ZeroPolicy == [methods |-> {}, hosts |-> {}, paths |-> {}]

=============================================================================
