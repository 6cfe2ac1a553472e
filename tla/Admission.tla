----------------------------- MODULE Admission ------------------------------
(***************************************************************************)
(* Who is let in: TicketVerifier of src/src/ticket.cpp and HandshakeManager*)
(* of src/src/handshake.cpp.  Both are pure; the server calls the first    *)
(* when a ticket is registered and again, with the second, when a client   *)
(* says hello.                                                             *)
(*                                                                         *)
(* A ticket carries the opening hand and deck, its energy and its life     *)
(* span; whatever else a check looks at (identities, hashes, the shape of  *)
(* the signature) is in "faults", the names of the checks it would fail.   *)
(***************************************************************************)
EXTENDS Integers, Sequences, FiniteSets, SequencesExt

CONSTANTS
  Catalog,     \* ids FindCardDefinition knows
  HandMost,    \* kCardHandLimit
  DeckMost,    \* kCardDeckLimit
  EnergyMost,  \* kCardMaxEnergy
  SeedMost,    \* 2^63 - 1, the largest lobby seed
  Clock        \* config_.now_ms, 0 when tickets are not checked against it

ASSUME AdmissionAssumption == {HandMost, DeckMost, EnergyMost, SeedMost, Clock} \subseteq Nat

(* The order in which Verify looks; the first failure is the verdict.      *)
VerifyOrder ==
  << "version_incompatible", "ticket_identity_missing", "ticket_id_invalid", "match_id_invalid",
     "user_id_invalid", "player_id_invalid", "mode_id_invalid", "battle_endpoint_missing",
     "battle_server_mismatch", "endpoint_mismatch", "deck_snapshot_hash_invalid",
     "hand_too_many_cards", "hand_card_not_in_catalog", "deck_too_many_cards",
     "deck_card_not_in_catalog", "deck_hand_not_prefix", "initial_energy_invalid",
     "server_seed_invalid", "ruleset_missing", "ruleset_version_mismatch", "ticket_nonce_invalid",
     "ticket_time_invalid", "ticket_expired", "raw_business_session_rejected",
     "signature_alg_unsupported", "signature_key_mismatch", "signature_fields_missing",
     "ed25519_public_key_shape_invalid", "ed25519_signature_shape_invalid",
     "ticket_not_server_authoritative" >>

(* ParseDecimalInt64Text on a text of a sign and digits: an optional minus *)
(* (which -0 may carry), no leading zero, within the width of the integer. *)
ParseDecimal(text) ==
  LET value == FoldLeft(LAMBDA n, d : 10 * n + d, 0, text.digits)
  IN  /\ text.digits # <<>>
      /\ Len(text.digits) > 1 => text.digits[1] # 0
      /\ value <= SeedMost + (IF text.negative THEN 1 ELSE 0)

(* A ticket without a deck is legal; its hand is then not compared.        *)
LoadoutFaults(ticket) ==
  (IF Len(ticket.hand) > HandMost THEN {"hand_too_many_cards"} ELSE {}) \cup
  (IF Range(ticket.hand) \subseteq Catalog THEN {} ELSE {"hand_card_not_in_catalog"}) \cup
  (IF Len(ticket.deck) > DeckMost THEN {"deck_too_many_cards"} ELSE {}) \cup
  (IF Range(ticket.deck) \subseteq Catalog THEN {} ELSE {"deck_card_not_in_catalog"}) \cup
  (IF ticket.deck = <<>> \/ IsPrefix(ticket.hand, ticket.deck) THEN {} ELSE {"deck_hand_not_prefix"}) \cup
  (IF ticket.energy \in 0..EnergyMost THEN {} ELSE {"initial_energy_invalid"}) \cup
  (IF ParseDecimal(ticket.seed) THEN {} ELSE {"server_seed_invalid"})

TimeFaults(ticket) ==
  (IF ticket.issued > 0 /\ ticket.expires > ticket.issued THEN {} ELSE {"ticket_time_invalid"}) \cup
  (IF Clock > 0 /\ ticket.expires <= Clock THEN {"ticket_expired"} ELSE {})

Faults(ticket) == ticket.faults \cup LoadoutFaults(ticket) \cup TimeFaults(ticket)

Verify(ticket) ==
  LET failing == {i \in 1..Len(VerifyOrder) : VerifyOrder[i] \in Faults(ticket)}
  IN  IF failing = {} THEN "ok" ELSE VerifyOrder[CHOOSE i \in failing : \A j \in failing : i <= j]

-----------------------------------------------------------------------------
Aeads == {"CHACHA20_POLY1305", "XCHACHA20_POLY1305"}

(* HandshakeManager::Accept.                                               *)
Answer(hello) ==
  CASE ~hello.hasKey -> "client_key_missing"
    [] hello.hasKey /\ hello.random = 0 -> "client_random_missing"
    [] hello.hasKey /\ hello.random # 0 /\ hello.aeads \cap Aeads = {} -> "aead_unsupported"
    [] OTHER -> "ok"

(* The key of a direction is derived from the transcript: the same hello   *)
(* gives the same key again, another random number or list of ciphers      *)
(* another key.  A player has one ticket, so the player stands for it.     *)
KeyRef(hello) == <<hello.player, hello.random, hello.aeads>>
=============================================================================
