------------------------------ MODULE Sources ------------------------------
(***************************************************************************)
(* The two readers of the configuration files (internal/tofu/sources.go):  *)
(* CheckSources, which no security-relevant value in a resource block may  *)
(* pass, and the bundle of resource blocks that the source scan            *)
(* (policy/rego/source_scan.rego) matches its patterns on.  Both find the  *)
(* blocks by counting braces in the text; neither parses it.               *)
(*                                                                         *)
(* A file is a sequence of tokens, those the readers tell apart.           *)
(*   "resource"       resource " at the start of a word: a header          *)
(*   "subresource"    the same letters at the end of a longer header       *)
(*   "mention"        resource " in a comment                              *)
(*   "open", "close"  braces of the language                               *)
(*   "string_open", "string_close"   braces in a string or in a comment    *)
(*   "value"          a security-relevant value                            *)
(*   "shape", "wide_shape"    a pattern of the scan, the second with other *)
(*                            white space                                  *)
(* The state machine puts together the files of up to MaxTokens tokens     *)
(* that the toolchain's formatter leaves as they are; it is a file at      *)
(* every state at which the last block is closed.                          *)
(***************************************************************************)
EXTENDS Naturals, Sequences, FiniteSetsExt, Functions

CONSTANT MaxTokens  \* bound: tokens of a file

VARIABLE source

-----------------------------------------------------------------------------
(* What the code does.                                                     *)

Opening == {"open", "string_open"}
Closing == {"close", "string_close"}

\* Braces opened and not closed between two positions, both included.
Depth(text, from, to) ==
  Cardinality({k \in from .. to : text[k] \in Opening}) - Cardinality({k \in from .. to : text[k] \in Closing})

\* Where the block that opens at a position ends, the first of these: empty
\* when the rest of the file does not close it.
EndOf(text, open) == {k \in open + 1 .. Len(text) : text[k] \in Closing /\ Depth(text, open, k) = 0}

\* Mutant: the word is looked for without the byte before it.
Anywhere(token) == TRUE

\* isBoundary: the byte before the word.
AtBoundary(token) == token \in {"resource", "mention"}

\* ResourceBlockBodies: the bodies, as sets of positions, in the order of the
\* file.  The search resumes after a body, and stops for good at a header that
\* no brace follows or a block that nothing closes.
ResourceBlockBodies(text) ==
  LET bodies[i \in 1 .. Len(text) + 1] ==
        LET found == {k \in i .. Len(text) : text[k] \in {"resource", "mention", "subresource"}}
            start == Min(found)
            opens == {k \in start .. Len(text) : text[k] \in Opening}
            ends  == EndOf(text, Min(opens))
        IN IF found = {} THEN <<>>
           ELSE IF ~AtBoundary(text[start]) THEN bodies[start + 1]
           ELSE IF opens = {} \/ ends = {} THEN <<>>
           ELSE <<Min(opens) + 1 .. Min(ends) - 1>> \o bodies[Min(ends) + 1]
  IN bodies[1]

\* CheckSources: the positions of the values it reports in one file.
CheckSources(text) ==
  {k \in UNION Range(ResourceBlockBodies(text)) : text[k] = "value"}

\* normalizeWhitespace: a block on its way into the bundle.
Normalized(token) == IF token = "wide_shape" THEN "shape" ELSE token

\* BuildSourceBundle and the findings of the scan: the positions it matches at.
SourceScan(text) ==
  {k \in UNION Range(ResourceBlockBodies(text)) : Normalized(text[k]) = "shape"}

-----------------------------------------------------------------------------
(* The files.                                                              *)

Headers == {"resource", "subresource"}
Contents == {"value", "shape", "wide_shape"}

\* Blocks of the language that are open at the end of a text.
Nesting(text) ==
  Cardinality({k \in DOMAIN text : text[k] = "open"}) - Cardinality({k \in DOMAIN text : text[k] = "close"})

SourceInit == source = <<>>

Awaiting(text) == text # <<>> /\ text[Len(text)] \in Headers

\* A header is followed by its brace; a block or a value stands in a block;
\* comments, and so their braces, stand anywhere else.
Token ==
  IF Awaiting(source) THEN {"open"}
  ELSE {"mention", "string_open", "string_close"}
         \cup (IF Nesting(source) = 0 THEN Headers ELSE {"open", "close"} \cup Contents)

SourceNext ==
  /\ Len(source) < MaxTokens
  /\ \E token \in Token : source' = Append(source, token)

-----------------------------------------------------------------------------
(* The property.                                                           *)

\* The block of the outermost level a position stands in: where it opens.
Outermost(text, k) == Max({j \in 1 .. k : text[j] = "open" /\ Nesting(SubSeq(text, 1, j - 1)) = 0})

InResourceBlock(text) ==
  {k \in DOMAIN text : /\ text[k] \in Contents
                       /\ text[Outermost(text, k) - 1] = "resource"}

\* The braces of every string and comment are paired, as those of an
\* interpolation are: the condition under which counting braces is enough.
LiteralsPaired(text) ==
  /\ \A k \in DOMAIN text : text[k] = "string_open" =>
       \E j \in k + 1 .. Len(text) : /\ text[j] = "string_close"
                                     /\ \A i \in k + 1 .. j - 1 : text[i] \notin Opening \cup Closing
  /\ Cardinality({k \in DOMAIN text : text[k] = "string_open"}) = Cardinality({k \in DOMAIN text : text[k] = "string_close"})

\* Counting braces finds every value and every pattern that stands in a
\* resource block, whatever blocks, comments, strings and alignment surround
\* it, and reports nothing else, as long as no comment spells a header.  An
\* unpaired brace in a string is the exception: it takes the rest of the file
\* out of both readings without an error.
EveryResourceBlockIsRead ==
  Nesting(source) = 0 /\ ~Awaiting(source) /\ LiteralsPaired(source) =>
    LET read == CheckSources(source) \cup SourceScan(source)
    IN /\ InResourceBlock(source) \subseteq read
       /\ (\A k \in DOMAIN source : source[k] # "mention") => read \subseteq InResourceBlock(source)
=============================================================================
