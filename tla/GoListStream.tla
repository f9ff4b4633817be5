---------------------------- MODULE GoListStream ----------------------------
(***************************************************************************)
(* run_go_list() of tools/gen-deps-md.py (lines 10-30): `go list -deps     *)
(* -json ./...` is run, a non-zero exit ends the program, and its output,  *)
(* a stream of JSON values with no enclosing list, is cut into values with *)
(* json.JSONDecoder().raw_decode at a moving offset i.                     *)
(*                                                                         *)
(* The output text is a sequence of tokens: JSON whitespace, other         *)
(* whitespace (a character str.isspace accepts and JSON does not, such as  *)
(* form feed or no-break space), an opening bracket, a closing bracket,    *)
(* and a scalar (a complete literal such as 1, null or a string).  An      *)
(* opening bracket carries the value its object decodes to, so that the    *)
(* decoder's result can be compared with the values the text holds.        *)
(* raw_decode is modelled by what it computes: the end offset of the value *)
(* that starts at i, found by matching brackets, or a failure when the     *)
(* value is unclosed or holds whitespace JSON does not allow.              *)
(***************************************************************************)
EXTENDS Integers, Sequences, FiniteSets

CONSTANTS
    Payloads,   \* what a top-level bracketed value decodes to
    ScalarValue,\* what a top-level scalar decodes to
    Outputs     \* the texts `go list` may print on success

(* The tokens of the output text. *)
Char == [kind : {"ws", "space", "scalar", "close"}, val : {ScalarValue}]
          \cup [kind : {"open"}, val : Payloads]

ASSUME OutputsAssumption == Outputs \subseteq Seq(Char)

VARIABLES
    buf,        \* stdout of the go command
    i,          \* the offset the decoder has reached (0-based, as in Python)
    packages,   \* the values decoded so far
    pc          \* "list" (line 13), "loop" (line 21), "ws" (line 23),
                \* "value" (line 27), "pkgs" (returned to main), "exit"
                \* (SystemExit at line 16) or "decode_error" (line 27 raised)

streamVars == <<buf, i, packages, pc>>

(***************************************************************************)
(* Bracket depth after the first e characters of text b.                   *)
(***************************************************************************)
Depth(b, e) ==
    Cardinality({n \in 1..e : b[n].kind = "open"})
      - Cardinality({n \in 1..e : b[n].kind = "close"})

(* Mutant: a value ends at the first closing bracket, nesting ignored. *)
ValueEndFirstClose(b, at) ==
    LET c == b[at + 1]
        closers == {e \in (at + 1)..Len(b) : b[e].kind = "close"}
    IN  CASE c.kind = "scalar" -> at + 1
          [] c.kind = "open" /\ closers # {} ->
               CHOOSE e \in closers : \A f \in closers : e <= f
          [] OTHER -> -1

(***************************************************************************)
(* raw_decode(b, at): the end offset of the value that starts at offset    *)
(* at, or -1 when raw_decode raises JSONDecodeError (a closing bracket, an *)
(* opening bracket that is never closed, or non-JSON whitespace between    *)
(* the tokens of the value).                                               *)
(***************************************************************************)
ValueEnd(b, at) ==
    LET c == b[at + 1]
        closers == {e \in (at + 1)..Len(b) : Depth(b, e) = Depth(b, at)}
        close == CHOOSE e \in closers : \A f \in closers : e <= f
    IN  CASE c.kind = "scalar" -> at + 1
          [] /\ c.kind = "open" /\ closers # {}
             /\ \A n \in (at + 1)..close : b[n].kind # "space" -> close
          [] OTHER -> -1

(* The tokens str.isspace accepts (line 23). *)
IsSpace == {"ws", "space"}

StreamInit ==
    /\ buf = <<>>
    /\ i = 0
    /\ packages = <<>>
    /\ pc = "list"

(* Lines 13-15: the go command succeeds and prints text out. *)
ListSucceeds ==
    /\ pc = "list"
    /\ \E out \in Outputs : buf' = out
    /\ pc' = "loop"
    /\ UNCHANGED <<i, packages>>

(* Lines 15-16: the go command exits non-zero; SystemExit ends the program. *)
ListFails ==
    /\ pc = "list"
    /\ pc' = "exit"
    /\ UNCHANGED <<buf, i, packages>>

(* Line 21: the outer loop runs while i < len(stdout). *)
LoopEnter ==
    /\ pc = "loop"
    /\ i < Len(buf)
    /\ pc' = "ws"
    /\ UNCHANGED <<buf, i, packages>>

(* Lines 21 and 30: the loop ends and the list is returned to main. *)
LoopExit ==
    /\ pc = "loop"
    /\ i >= Len(buf)
    /\ pc' = "pkgs"
    /\ UNCHANGED <<buf, i, packages>>

(* Mutant: the whitespace loop of line 23 without its "i += 1". *)
SkipWsStuck ==
    /\ pc = "ws"
    /\ i < Len(buf)
    /\ buf[i + 1].kind \in IsSpace
    /\ i' = i
    /\ UNCHANGED <<buf, packages, pc>>

(* Lines 23-24: one whitespace character is skipped. *)
SkipWs ==
    /\ pc = "ws"
    /\ i < Len(buf)
    /\ buf[i + 1].kind \in IsSpace
    /\ i' = i + 1
    /\ UNCHANGED <<buf, packages, pc>>

(* Lines 25-26: only whitespace was left; break, and return the list. *)
BreakAtEnd ==
    /\ pc = "ws"
    /\ i >= Len(buf)
    /\ pc' = "pkgs"
    /\ UNCHANGED <<buf, i, packages>>

(* Lines 23 and 27: a non-whitespace character is reached. *)
WsDone ==
    /\ pc = "ws"
    /\ i < Len(buf)
    /\ buf[i + 1].kind \notin IsSpace
    /\ pc' = "value"
    /\ UNCHANGED <<buf, i, packages>>

(* Mutant: i = end + 1, one character past the value. *)
DecodeValuePastEnd ==
    /\ pc = "value"
    /\ ValueEnd(buf, i) # -1
    /\ packages' = Append(packages, buf[i + 1].val)
    /\ i' = ValueEnd(buf, i) + 1
    /\ pc' = "loop"
    /\ UNCHANGED buf

(* Lines 27-29: one value is decoded, appended, and i moves past it. *)
DecodeValue ==
    /\ pc = "value"
    /\ ValueEnd(buf, i) # -1
    /\ packages' = Append(packages, buf[i + 1].val)
    /\ i' = ValueEnd(buf, i)
    /\ pc' = "loop"
    /\ UNCHANGED buf

(* Line 27: raw_decode raises; the exception ends the program. *)
DecodeFails ==
    /\ pc = "value"
    /\ ValueEnd(buf, i) = -1
    /\ pc' = "decode_error"
    /\ UNCHANGED <<buf, i, packages>>

StreamNext ==
    \/ ListSucceeds
    \/ ListFails
    \/ LoopEnter
    \/ LoopExit
    \/ SkipWs
    \/ BreakAtEnd
    \/ WsDone
    \/ DecodeValue
    \/ DecodeFails

StreamStopped == pc \in {"pkgs", "exit", "decode_error"} /\ UNCHANGED streamVars

StreamSpec == StreamInit /\ [][StreamNext \/ StreamStopped]_streamVars
                /\ WF_streamVars(StreamNext)
-----------------------------------------------------------------------------
(* The decoder's data; StreamTypeOK adds its control states. *)
StreamDataOK ==
    /\ buf \in Seq(Char)
    /\ i \in 0..Len(buf)
    /\ packages \in Seq(Payloads \cup {ScalarValue})

StreamTypeOK ==
    /\ StreamDataOK
    /\ pc \in {"list", "loop", "ws", "value", "pkgs", "exit", "decode_error"}

(***************************************************************************)
(* The reference reading of the text (spec section 4.1): it is a           *)
(* concatenation of complete values and whitespace exactly when no closing *)
(* bracket is unmatched, every opening bracket is closed and no value      *)
(* holds non-JSON whitespace, and then its values are the tokens that      *)
(* start at depth 0, in text order.                                        *)
(***************************************************************************)
WellFormed(b) ==
    /\ \A e \in 0..Len(b) : Depth(b, e) >= 0
    /\ Depth(b, Len(b)) = 0
    /\ \A n \in 1..Len(b) : b[n].kind = "space" => Depth(b, n - 1) = 0

TopStarts(b) ==
    {n \in 1..Len(b) : Depth(b, n - 1) = 0 /\ b[n].kind \in {"scalar", "open"}}

TopValues(b) ==
    LET S == TopStarts(b)
        nth(m) == CHOOSE n \in S : Cardinality({x \in S : x < n}) = m - 1
    IN  [m \in 1..Cardinality(S) |-> b[nth(m)].val]

(***************************************************************************)
(* Decoding is exact: the list run_go_list returns holds precisely the     *)
(* values of the text, in order, and raw_decode raises exactly when the    *)
(* text is not a stream of complete values.  This is what the offset      *)
(* bookkeeping of lines 21-29 must get right.                              *)
(***************************************************************************)
DecodeExact ==
    /\ pc = "pkgs" => WellFormed(buf) /\ packages = TopValues(buf)
    /\ pc = "decode_error" => ~WellFormed(buf)
=============================================================================
