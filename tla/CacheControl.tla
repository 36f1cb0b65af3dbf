---------------------------- MODULE CacheControl ----------------------------
(***************************************************************************)
(* How the client turns the metadata response's Cache-Control header into  *)
(* a cache lifetime, and when it takes two issuer URLs for the same AS     *)
(* (client/metadata.go).  Pure functions of their arguments.               *)
(***************************************************************************)
EXTENDS GoInt, Sequences, FiniteSets

CONSTANT Second  (* time.Second in units of time.Duration: 10^9 in the code. *)

ASSUME SecondAssumption == Second \in Nat \ {0}

(***************************************************************************)
(* A header is the sequence of its lines, as the proxies on the way wrote  *)
(* them, and a line the sequence of its comma-separated directives.  A     *)
(* directive is a pair: a max-age and the number it gives, a garbled       *)
(* max-age that gives none, or some other directive.                       *)
(***************************************************************************)
Directives == {"max-age", "garbled", "other"} \X Int

MaxAge(n) == <<"max-age", n>>
Garbled   == <<"garbled", 0>>
Other     == <<"other", 0>>

(* http.Header.Get returns the first line.                                 *)
FirstLine(header) == IF header = <<>> THEN <<>> ELSE header[1]

(* strconv.Atoi accepts a number that an int can hold.                     *)
Parses(d) == d[1] = "max-age" /\ d[2] \in GoInts

(* Positions of the max-age directives of a line.                          *)
MaxAgeAt(line) == {i \in DOMAIN line : line[i][1] # "other"}

(* Mutant: the last max-age decides.                                       *)
LastMaxAge(line) ==
  line[CHOOSE i \in MaxAgeAt(line) : \A j \in MaxAgeAt(line) : i >= j]

FirstMaxAge(line) ==
  line[CHOOSE i \in MaxAgeAt(line) : \A j \in MaxAgeAt(line) : i <= j]

(* Mutant: an unusable max-age counts as zero.                             *)
UnusableIsZero(line, fallback) ==
  IF MaxAgeAt(line) = {} THEN fallback
  ELSE LET d == FirstMaxAge(line)
       IN  IF ~Parses(d) \/ d[2] < 0 THEN 0 ELSE Wrap(d[2] * Second)

(* The first max-age directive decides, even when it is unusable.          *)
CacheTTL(line, fallback) ==
  IF MaxAgeAt(line) = {} THEN fallback
  ELSE LET d == FirstMaxAge(line)
       IN  IF ~Parses(d) \/ d[2] < 0 THEN fallback ELSE Wrap(d[2] * Second)

(***************************************************************************)
(* A URL is a pair: its text up to the trailing slashes, and their number. *)
(***************************************************************************)
TrimSlashes(url) == url[1]

(* Mutant: the URLs are compared as they are.                              *)
SameExactly(configured, issuer) == configured = issuer

SameIssuer(configured, issuer) == TrimSlashes(configured) = TrimSlashes(issuer)
=============================================================================
