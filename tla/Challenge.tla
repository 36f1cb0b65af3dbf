----------------------------- MODULE Challenge -----------------------------
(***************************************************************************)
(* The two headers of the resource server: the UMA challenge it writes     *)
(* (uma.go BuildUMAChallenge) and a client reads back                      *)
(* (examples/as-rs-demo/main.go parseChallenge), and the bearer token it   *)
(* takes from a request (server/rs.go ExtractBearerToken).                 *)
(*                                                                         *)
(* A string is the sequence of its pieces: "quote" is a double quote, a    *)
(* key such as "ticket" stands for ticket= and the rest is text.           *)
(***************************************************************************)
EXTENDS Sequences, Integers, FiniteSetsExt

-----------------------------------------------------------------------------
(* The parameters of a challenge; an empty scope is left out.              *)

Param(key, value) == <<key, "quote">> \o value \o <<"quote">>

BuildUMAChallenge(c) ==
  <<"UMA">> \o Param("realm", c.realm)
    \o <<"comma">> \o Param("as_uri", c.asURL)
    \o <<"comma">> \o Param("ticket", c.ticket)
    \o (IF c.scopes = <<>> THEN <<>> ELSE <<"comma">> \o Param("scope", c.scopes))

(* Where a header has a key and an opening quote.                          *)
KeyAt(header, key) ==
  {i \in 1 .. Len(header) - 1 : header[i] = key /\ header[i + 1] = "quote"}

QuotesFrom(header, i) == {j \in i .. Len(header) : header[j] = "quote"}

(* Mutant: the last occurrence of the key is taken.                        *)
LastParamValue(header, key) ==
  IF KeyAt(header, key) = {} THEN <<>>
  ELSE LET start == Max(KeyAt(header, key)) + 2
       IN  IF QuotesFrom(header, start) = {} THEN <<>>
           ELSE SubSeq(header, start, Min(QuotesFrom(header, start)) - 1)

(* The text from the first such place up to the next quote.                *)
ParamValue(header, key) ==
  IF KeyAt(header, key) = {} THEN <<>>
  ELSE LET start == Min(KeyAt(header, key)) + 2
       IN  IF QuotesFrom(header, start) = {} THEN <<>>
           ELSE SubSeq(header, start, Min(QuotesFrom(header, start)) - 1)

ParseChallenge(header) ==
  IF header = <<>> \/ Head(header) # "UMA"
  THEN [ticket |-> <<>>, asURL |-> <<>>, scopes |-> <<>>]
  ELSE [ticket |-> ParamValue(header, "ticket"),
        asURL  |-> ParamValue(header, "as_uri"),
        scopes |-> ParamValue(header, "scope")]

-----------------------------------------------------------------------------
(* The scheme is compared without regard to case, one space follows it,    *)
(* and all the rest is the token; an empty one is none.                    *)
ExtractBearerToken(header) ==
  IF Len(header) > 2 /\ header[1] \in {"Bearer", "bearer"} /\ header[2] = "space"
  THEN SubSeq(header, 3, Len(header))
  ELSE <<>>
=============================================================================
