---------------------------- MODULE MCStreaming ----------------------------
(***************************************************************************)
(* Chunks that fill a message of Limit bytes exactly, or miss it by one,   *)
(* with up to eleven calls.                                                *)
(***************************************************************************)
EXTENDS Streaming

\* Eleven empty calls and no text.
Limit == 887

Fragment(chars, bytes) == [chars |-> chars, bytes |-> bytes]
None == Fragment(0, 0)

Delta(fragment, parts, finish) ==
  [choices |-> 1, role |-> "assistant", fragment |-> fragment, parts |-> parts, finish |-> finish]
Part(index, fragment) == [index |-> index, type |-> "function", fragment |-> fragment]
Opening(first, last) == [i \in 1 .. (last - first + 1) |-> Part(first + i - 1, None)]

ChunksSent ==
  {Delta(fragment, <<>>, finish) :
     fragment \in {None, Fragment(1, 1), Fragment(1, 3), Fragment(300, 879),
                   Fragment(879, 879), Fragment(880, 880), Fragment(801, 801)},
     finish \in {"none", "stop", "length"}}
  \cup {Delta(None, parts, finish) :
     parts \in {Opening(0, 0), Opening(0, 9), Opening(10, 10), Opening(1, 9), Opening(0, 11),
                <<Part(0, Fragment(1, 2)), Part(1, Fragment(200, 650))>>,
                <<Part(0, Fragment(801, 801))>>, <<Part(0, Fragment(802, 802))>>,
                <<Part(-1, None)>>,
                <<[Part(0, None) EXCEPT !.type = "other"]>>},
     finish \in {"none", "tool_calls"}}
  \cup {[Delta(None, <<>>, "none") EXCEPT !.choices = 0],
        [Delta(None, <<>>, "none") EXCEPT !.choices = 2],
        [Delta(None, <<>>, "none") EXCEPT !.role = "other"]}
=============================================================================
