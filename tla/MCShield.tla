------------------------------ MODULE MCShield -------------------------------
(* Instances of Shield for TLC: the two default chains, one that projects the *)
(* constellation before the receiver, and the slice floor, with actions       *)
(* inside, on and outside each limit.                                         *)
EXTENDS Shield

Plain ==
  [numeric |-> TRUE, freq |-> 13, half |-> 1, tx |-> 3, gain |-> 1, ntn |-> FALSE,
   offset |-> 0, block |-> "policy_emit", order |-> 0, papr |-> 0,
   confident |-> TRUE, honest |-> TRUE, share |-> 0, pool |-> -1, ues |-> {},
   misplaced |-> FALSE, blocked |-> FALSE, fallback |-> "none"]

Radio ==
  {[Plain EXCEPT !.freq = f, !.half = h, !.tx = p, !.gain = g, !.ntn = n, !.offset = o] :
     f \in {0, 10, 14}, h \in {1, 3, 4}, p \in {-3, 3, 9}, g \in {2},
     n \in BOOLEAN, o \in {1, 9}}
Receivers ==
  {[a EXCEPT !.block = b, !.order = o, !.papr = p, !.confident = c, !.honest = h] :
     a \in {Plain, [Plain EXCEPT !.tx = 9, !.freq = 17]},
     b \in {"policy_emit", "neural_rx", "learned_constellation"}, o \in {-1, 0, 2, 4, 5},
     p \in {0, 8}, c \in BOOLEAN, h \in BOOLEAN}
Targets ==
  {[a EXCEPT !.ues = u, !.misplaced = m] :
     a \in {Plain, [Plain EXCEPT !.tx = 9, !.block = "neural_rx"]},
     u \in SUBSET Ues, m \in BOOLEAN}
Slices ==
  {[Plain EXCEPT !.share = s, !.pool = p] : s \in {0, 1, 3}, p \in {-1, 0, 1, 4}}

MCProposals == Radio \cup Receivers \cup Targets \cup Slices \cup
               {[Plain EXCEPT !.numeric = FALSE]}
MCChains ==
  {<<"numeric_domain_sanity", "lawful_intercept", "spectral_mask_ts38104",
     "max_eirp", "neural_rx_envelope", "constellation_legality">>,
   <<"numeric_domain_sanity", "lawful_intercept", "spectral_mask_ts38104",
     "max_eirp", "pfd_ceiling_ntn", "neural_rx_envelope">>,
   <<"numeric_domain_sanity", "constellation_legality", "neural_rx_envelope">>,
   <<"numeric_domain_sanity", "protected_slice_floor">>}
MinusTwo == -2

=============================================================================
