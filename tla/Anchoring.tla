------------------------------ MODULE Anchoring ------------------------------
(***************************************************************************)
(* Anchoring the audit chain with RFC 3161 time stamps                     *)
(* (evidence/rfc3161.py): a Timestamper asks one authority after the other *)
(* to sign the head of the chain, its caller adds the anchor to the chain, *)
(* and verify_chain_with_anchors() checks every anchor it finds.           *)
(*                                                                         *)
(* A row is a number or an anchor; the hash of a prefix of the chain is    *)
(* the prefix itself.  The request is awaited over the network, so rows    *)
(* may be appended, and other requests made, before the anchor is.         *)
(***************************************************************************)
EXTENDS Integers, Sequences, SequencesExt, FiniteSets, FiniteSetsExt

CONSTANTS AnchorCallers, Tsas, Cadence, MaxAnchorRows, MaxRequests, MaxAnTime

ASSUME AnAssumption == {Tsas, Cadence, MaxAnchorRows, MaxRequests, MaxAnTime} \subseteq Nat

VARIABLES anNow,
          anChain,    \* rows: [kind, body, head, token]
          anLast,     \* _last_anchor_at, -1 for never
          anCall,     \* anCall[c]: the call under way
          anNonces,   \* requests made so far, each with its nonce
          anSigned,   \* ghost: the heads authorities signed, each with its nonce
          anGranted,  \* ghost: when anchors without force were granted
          anRaced,    \* ghost: rows joined the chain while an anchor was fetched
          anOverlap,  \* ghost: two calls were under way together
          anRewritten,\* ghost: rows were changed after the fact
          anReplaced  \* ghost: and a token with them

anVars == <<anNow, anChain, anLast, anCall, anNonces, anSigned, anGranted, anRaced,
            anOverlap, anRewritten, anReplaced>>

NoAnchorCall == [at |-> "idle"]
NoToken == [imprint |-> <<>>, nonce |-> 0]

AnInit ==
  /\ anNow = 0 /\ anChain = <<>> /\ anLast = -1
  /\ anCall = [c \in AnchorCallers |-> NoAnchorCall]
  /\ anNonces = 0 /\ anSigned = {} /\ anGranted = <<>>
  /\ anRaced = FALSE /\ anOverlap = FALSE /\ anRewritten = FALSE
  /\ anReplaced = FALSE

\* The hash of the chain before row i: every row's body and head count.
HeadBefore(i) == [j \in 1..(i - 1) |-> [body |-> anChain[j].body, head |-> anChain[j].head]]
Head0 == HeadBefore(Len(anChain) + 1)

Fetching == {c \in AnchorCallers : anCall[c] # NoAnchorCall}

AppendRow ==
  /\ Len(anChain) < MaxAnchorRows
  /\ anChain' = Append(anChain, [kind |-> "row", body |-> Len(anChain), head |-> <<>>,
                                 token |-> NoToken])
  /\ anRaced' = (anRaced \/ Fetching # {})
  /\ UNCHANGED <<anNow, anLast, anCall, anNonces, anSigned, anGranted, anOverlap,
                 anRewritten, anReplaced>>

\* should_anchor_now
ShouldAnchorNow == anLast = -1 \/ anNow - anLast >= Cadence

\* anchor() up to its first request, for the head the caller passes; without
\* force it returns None before the cadence has passed.
BeginAnchor(c, force) ==
  /\ anCall[c] = NoAnchorCall /\ anNonces < MaxRequests
  /\ anChain # <<>>
  /\ force \/ ShouldAnchorNow
  /\ anNonces' = anNonces + 1
  /\ anCall' = [anCall EXCEPT ![c] = [at |-> "asking", tsa |-> 1, head |-> Head0,
                                      nonce |-> anNonces + 1, force |-> force]]
  /\ anOverlap' = (anOverlap \/ Fetching # {})
  /\ UNCHANGED <<anNow, anChain, anLast, anSigned, anGranted, anRaced, anRewritten,
                 anReplaced>>

\* What an authority may send: a token, or something wrong in one respect.
Replies(call) ==
  {[ok |-> TRUE, imprint |-> call.head, nonce |-> call.nonce],
   [ok |-> TRUE, imprint |-> <<>>, nonce |-> call.nonce],
   [ok |-> TRUE, imprint |-> call.head, nonce |-> call.nonce - 1],
   [ok |-> FALSE, imprint |-> call.head, nonce |-> call.nonce]}

\* request_timestamp: content type and status, imprint and nonce.
TokenFits(call, reply) ==
  reply.ok /\ reply.imprint = call.head /\ reply.nonce = call.nonce

\* One authority's answer: an anchor, the next authority, or TimestampError
\* after the last.
AskTsa(c) ==
  /\ anCall[c].at = "asking"
  /\ \E reply \in Replies(anCall[c]) :
       IF TokenFits(anCall[c], reply)
       THEN /\ anCall' = [anCall EXCEPT ![c] =
                 [at |-> "got", head |-> @.head,
                  token |-> [imprint |-> reply.imprint, nonce |-> reply.nonce]]]
            /\ anLast' = anNow
            /\ anSigned' = anSigned \cup {<<reply.imprint, reply.nonce>>}
            /\ anGranted' = IF anCall[c].force THEN anGranted ELSE Append(anGranted, anNow)
            /\ UNCHANGED anNonces
       ELSE /\ IF anCall[c].tsa < Tsas /\ anNonces < MaxRequests
               THEN /\ anCall' = [anCall EXCEPT ![c].tsa = @ + 1, ![c].nonce = anNonces + 1]
                    /\ anNonces' = anNonces + 1
               ELSE anCall' = [anCall EXCEPT ![c] = NoAnchorCall] /\ UNCHANGED anNonces
            /\ UNCHANGED <<anLast, anSigned, anGranted>>
  /\ UNCHANGED <<anNow, anChain, anRaced, anOverlap, anRewritten, anReplaced>>

\* The caller appends to_record() of the anchor it got.
EmitAnchor(c) ==
  /\ anCall[c].at = "got"
  /\ anChain' = Append(anChain, [kind |-> "anchor", body |-> 0, head |-> anCall[c].head,
                                 token |-> anCall[c].token])
  /\ anCall' = [anCall EXCEPT ![c] = NoAnchorCall]
  /\ anRaced' = (anRaced \/ Fetching # {c})
  /\ UNCHANGED <<anNow, anLast, anNonces, anSigned, anGranted, anOverlap, anRewritten,
                 anReplaced>>

\* The keeper of the chain rewrites a row and every hash after it, or the head
\* an anchor names, alone or with the imprint in its token, between two calls.
Rewrite(i, token) ==
  /\ Fetching = {}
  /\ anChain[i].kind = "row" => ~token
  /\ anChain' =
       IF anChain[i].kind = "row" THEN [anChain EXCEPT ![i].body = 99]
       ELSE IF token THEN [anChain EXCEPT ![i].head = HeadBefore(i),
                                          ![i].token.imprint = HeadBefore(i)]
       ELSE [anChain EXCEPT ![i].head = HeadBefore(i)]
  /\ anRewritten' = TRUE
  /\ anReplaced' = (anReplaced \/ token)
  /\ UNCHANGED <<anNow, anLast, anCall, anNonces, anSigned, anGranted, anRaced, anOverlap>>

AnTick ==
  /\ anNow < MaxAnTime
  /\ anNow' = anNow + 1
  /\ UNCHANGED <<anChain, anLast, anCall, anNonces, anSigned, anGranted, anRaced,
                 anOverlap, anRewritten, anReplaced>>

AnNext ==
  \/ AppendRow \/ AnTick
  \/ \E c \in AnchorCallers :
       \/ \E force \in BOOLEAN : BeginAnchor(c, force)
       \/ AskTsa(c) \/ EmitAnchor(c)
  \/ \E i \in DOMAIN anChain, token \in BOOLEAN : Rewrite(i, token)

AnSpec == AnInit /\ [][AnNext]_anVars

-----------------------------------------------------------------------------
\* verify_anchor: the token is for the head recorded, which is the head the
\* chain had.  The signature of the token is not looked at.
VerifyAnchor(row, expected) == row.token.imprint = row.head /\ row.head = expected

\* verify_chain_with_anchors, with the head before each row as the lookup: the
\* first anchor that fails, 0 for none.
VerifyChainWithAnchors ==
  LET bad == {i \in DOMAIN anChain : /\ anChain[i].kind = "anchor"
                                     /\ ~VerifyAnchor(anChain[i], HeadBefore(i))}
  IN  IF bad = {} THEN 0 ELSE Min(bad)

AnTypeOK ==
  /\ anNow \in 0..MaxAnTime /\ anLast \in -1..MaxAnTime
  /\ \A c \in AnchorCallers : anCall[c].at \in {"idle", "asking", "got"}
  /\ \A i \in DOMAIN anChain : anChain[i].kind \in {"row", "anchor"}

\* A chain that verifies is one whose every anchor an authority signed for the
\* very rows before it, so no row before an anchor can be rewritten unnoticed,
\* by whoever keeps the chain either, as long as the tokens are the authority's
\* (verify_anchor does not check their signatures).  Conversely a chain nobody rewrote
\* verifies, as long as no row joined it while an anchor was being fetched.  And
\* anchors without force are a cadence apart, unless two calls overlapped.
AnchorsHold ==
  /\ VerifyChainWithAnchors = 0 /\ ~anReplaced =>
       \A i \in DOMAIN anChain : anChain[i].kind = "anchor" =>
         <<HeadBefore(i), anChain[i].token.nonce>> \in anSigned
  /\ ~anRewritten /\ ~anRaced => VerifyChainWithAnchors = 0
  /\ ~anOverlap =>
       \A i \in 2..Len(anGranted) : anGranted[i] - anGranted[i - 1] >= Cadence
=============================================================================
