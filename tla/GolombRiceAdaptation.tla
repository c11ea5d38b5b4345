------------------------- MODULE GolombRiceAdaptation -------------------------
(***************************************************************************)
(* One adaptive context of a Golomb-Rice coded slice, at both ends: the    *)
(* encoder writes the differences of the samples that fall into it, and    *)
(* the decoder reads each codeword with its own copy of the context.       *)
(***************************************************************************)
EXTENDS GolombRice, Sequences

CONSTANTS
  Bits,        \* bits of a coded sample: of a raw one, or one more for RGB
  Half,        \* the weight of its sign bit
  Contents,    \* sequences of coded differences; each is repeated
  MaxSymbols   \* bound: the symbols that are coded

\* A difference, and whether it is the one that ends a run of zero differences.
\* Negating the smallest difference may leave one more than the largest.
Differences ==
  {d \in [interrupts : BOOLEAN, value : -Half..Half] : d.interrupts => d.value # 0}

ASSUME AdaptationAssumption ==
  /\ Bits \in 1..17
  /\ Half \in Nat /\ Half > 0 /\ Half <= 65536
  /\ 2^Bits = 2 * Half
  /\ Contents \subseteq Seq(Differences) \ {<<>>}
  /\ MaxSymbols \in Nat

VARIABLES
  content,    \* the differences of the slice
  symbols,    \* how many were written
  turn,       \* write, or read
  encoder,    \* the encoder's context
  decoder,    \* the decoder's context
  codeword,   \* the last codeword
  received    \* the last difference the decoder read

adaptationVars == <<content, symbols, turn, encoder, decoder, codeword, received>>

InitAdaptation ==
  /\ content \in Contents
  /\ symbols = 0
  /\ turn = "write"
  /\ encoder = NewContext
  /\ decoder = NewContext
  /\ codeword = UnsignedCode(0, 0, Bits)
  /\ received = 0

Difference(n) == content[(n % Len(content)) + 1]

\* What write_golomb_rice_symbol is given for a difference.
Mapped(difference) ==
  IF difference.interrupts THEN ToInterruption(difference.value) ELSE difference.value

\* What the reader returns for a symbol.
Unmapped(difference, symbol) ==
  IF difference.interrupts THEN FromInterruption(symbol) ELSE symbol

Write ==
  LET written == WriteSymbol(encoder, Mapped(Difference(symbols)), Half, Bits)
  IN /\ turn = "write"
     /\ symbols < MaxSymbols
     /\ ~Refused(encoder)
     /\ Fits(written.code)
     /\ codeword' = written.code
     /\ encoder' = written.context
     /\ symbols' = symbols + 1
     /\ turn' = "read"
     /\ UNCHANGED <<content, decoder, received>>

Read ==
  LET read == ReadSymbol(decoder, codeword, Half)
  IN /\ turn = "read"
     /\ ~Refused(decoder)
     /\ received' = Unmapped(Difference(symbols - 1), read.value)
     /\ decoder' = read.context
     /\ turn' = "write"
     /\ UNCHANGED <<content, symbols, encoder, codeword>>

NextAdaptation == Write \/ Read

SpecAdaptation == InitAdaptation /\ [][NextAdaptation]_adaptationVars
-----------------------------------------------------------------------------
\* A context as the bounds of update_state leave it: between two corrections the
\* drift stays within one count, and the error sum grows by at most Half per symbol.
ContextState ==
  [drift : Int, error_sum : Nat, bias : -128..127, count : 1..MaxCount]

InBounds(context, half) ==
  /\ context \in ContextState
  /\ -context.count < context.drift /\ context.drift <= 0
  /\ context.error_sum <= half * context.count + 4

\* Every state is of its type, and both contexts keep the bounds that the parameter and
\* the correction of the bias rest on (update_state, golomb_rice_context.cpp:58).
ContextsInBounds ==
  /\ content \in Contents
  /\ symbols \in Nat
  /\ turn \in {"write", "read"}
  /\ InBounds(encoder, Half) /\ InBounds(decoder, Half)
  /\ received \in Int

\* However long a slice adapts a context, both ends find a parameter k for it and the
\* folded difference fits its codeword, so that the writer refuses no difference and the
\* reader no context (derive_k, golomb_rice_context.cpp:29; write_unsigned,
\* golomb_rice_writer.cpp:63).
NeverRefused ==
  /\ ~Refused(encoder) /\ ~Refused(decoder)
  /\ turn = "write" => Fits(WriteSymbol(encoder, Mapped(Difference(symbols)), Half, Bits).code)

\* After each symbol both ends hold the same context, and the decoder has read the
\* difference up to a multiple of the sample range, which Predictor::reconstruct takes
\* away again (read_golomb_rice_symbol, golomb_rice_context.cpp:89).
SymbolsRead ==
  turn = "write" =>
    /\ decoder = encoder
    /\ symbols > 0 => (received - Difference(symbols - 1).value) % (2 * Half) = 0
=============================================================================
