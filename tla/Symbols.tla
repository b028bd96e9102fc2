------------------------------- MODULE Symbols -------------------------------
(***************************************************************************)
(* tradejournal/exchanges/symbols.py: from the name a venue gives a market *)
(* to its canonical symbol.  A venue's name is the sequence of the words   *)
(* between its ":" separators; the patterns the code matches a word with   *)
(* are sets of words.  The suffix "-PERP" that every canonical symbol ends *)
(* with is left out.                                                       *)
(***************************************************************************)
EXTENDS Naturals, Sequences

CONSTANTS
  Word,      \* what may stand between two separators
  Upper,     \* [Word -> Word], upper()
  Stripped,  \* [Word -> Word], without the first suffix that matches, if any
  Native,    \* _NATIVE_BASE_PATTERN: letters and digits
  Short,     \* _NAMESPACE_PATTERN: up to eight letters and digits
  Wide,      \* _NAMESPACED_ASSET_PATTERN: some punctuation as well
  None

Canonical == [namespace : Word \cup {None}, base : Word]

ASSUME SymbolAssumption ==
  /\ Upper \in [Word -> Word]
  /\ Stripped \in [Word -> Word]
  /\ Short \subseteq Native /\ Native \subseteq Wide /\ Wide \subseteq Word
  /\ \A w \in Native : Upper[w] \in Native
  /\ None \notin Word \cup Canonical

(* Mutant: the namespace is dropped. *)
Folded(base, namespace) ==
  IF base \in (IF namespace = None THEN Native ELSE Wide)
    THEN [namespace |-> None, base |-> Upper[base]]
    ELSE None

(* to_canonical; None stands for a SymbolNormalizationError. *)
ToCanonical(base, namespace) ==
  CASE namespace = None /\ base \in Native ->
         [namespace |-> None, base |-> Upper[base]]
    [] namespace \in Short /\ base \in Wide ->
         [namespace |-> Upper[namespace], base |-> Upper[base]]
    [] OTHER -> None

(* normalize_hyperliquid_symbol: BTC, or a HIP-3 market such as xyz:AAPL. *)
NormalizeHyperliquid(name) ==
  CASE Len(name) = 1 -> ToCanonical(name[1], None)
    [] Len(name) = 2 -> ToCanonical(name[2], name[1])
    [] OTHER -> None

(* Mutant: what is left of the name is taken as it is. *)
VariationalUnchecked(name) ==
  IF Len(name) = 1 THEN [namespace |-> None, base |-> Stripped[Upper[name[1]]]]
                   ELSE None

(* normalize_variational_symbol: no namespace, and a suffix is cut off. *)
NormalizeVariational(name) ==
  IF Len(name) = 1 THEN ToCanonical(Stripped[Upper[name[1]]], None) ELSE None

Normalize(venue, name) ==
  IF venue = "hyperliquid" THEN NormalizeHyperliquid(name)
                           ELSE NormalizeVariational(name)
===============================================================================
