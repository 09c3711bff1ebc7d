---------------------------- MODULE HttpResponse ----------------------------
(* What the built-in transport makes of the bytes that arrived before the    *)
(* connection ended (src/src/http.rs): parse_response and dechunk.  A token  *)
(* is the status, a header line, a line end, the size of a chunk, or a piece *)
(* of the body, which counts one.                                            *)
EXTENDS Integers, Sequences, SequencesExt

CONSTANT MaxResponse   \* MAX_RESPONSE

ASSUME ResponseAssumption == MaxResponse \in Nat

Eol == <<"eol", 0>>
Piece(c) == <<"piece", c>>
Lost == [ok |-> FALSE, status |-> 0, body |-> <<>>]

\* find: the first place of a line end behind k, or of two of them; 0 for none.
FirstOf(S) == IF S = {} THEN 0 ELSE CHOOSE i \in S : \A j \in S : i <= j
FirstEol(data, k) == FirstOf({i \in k + 1 .. Len(data) : data[i] = Eol})
EndOfHead(raw) == FirstOf({i \in 1 .. Len(raw) - 1 : raw[i] = Eol /\ raw[i + 1] = Eol})

-----------------------------------------------------------------------------
\* Behind k there is a line with the size of a chunk.
SizeFollows(data, k) == FirstEol(data, k) = k + 2 /\ data[k + 1][1] = "size"

\* The chunk behind k, which ends with a line end, and whether it is all there.
SizeAt(data, k) == data[k + 1][2]
EndOfChunk(data, k) == k + 3 + SizeAt(data, k)
ChunkAt(data, k) == SubSeq(data, k + 3, EndOfChunk(data, k) - 1)
ChunkIsWhole(data, k) == EndOfChunk(data, k) <= Len(data) /\ data[EndOfChunk(data, k)] = Eol

Behind(chunk, rest) == IF rest.ok THEN [rest EXCEPT !.body = chunk \o rest.body] ELSE Lost

\* One round of the loop at k: the last chunk is empty, another one is followed by rest.
Round(data, k, rest) ==
  CASE SizeFollows(data, k) /\ SizeAt(data, k) = 0 -> [ok |-> TRUE, status |-> 0, body |-> <<>>]
    [] SizeFollows(data, k) /\ SizeAt(data, k) # 0 /\ ChunkIsWhole(data, k) -> Behind(ChunkAt(data, k), rest)
    [] OTHER -> Lost

\* dechunk, of what is behind each place and then of it all.
DechunkFrom(data) ==
  LET from[k \in 0 .. Len(data)] == Round(data, k, from[EndOfChunk(data, k)])
  IN  from

Dechunk(data) == DechunkFrom(data)[0]

\* The lines of the head behind the status line, one token each.
Headers(raw) == {raw[i] : i \in 2 .. EndOfHead(raw)} \ {Eol}
Lengths(raw) == {h[2] : h \in {h \in Headers(raw) : h[1] = "length"}}
Encodings(raw) == {i \in 2 .. EndOfHead(raw) : raw[i][1] = "encoding"}

\* A slip: the body may be shorter than its length.
LengthHoldsUpTo(body, n) == Len(body) <= n

LengthHolds(body, n) == Len(body) = n

\* parse_response
ParseResponse(raw) ==
  LET head == EndOfHead(raw)
      body == SubSeq(raw, head + 2, Len(raw))
      read == CASE Encodings(raw) # {} -> Dechunk(body)
                [] OTHER -> [ok |-> TRUE, status |-> 0, body |-> body]
  IN  IF /\ head # 0
         /\ raw[1][1] = "status" /\ raw[1][2] >= 200
         /\ \A h \in Headers(raw) : h[1] \in {"length", "encoding", "other"}
         /\ Cardinality(Lengths(raw)) <= 1
         /\ Cardinality(Encodings(raw)) <= 1
         /\ \A i \in Encodings(raw) : raw[i][2] = "chunked"
         /\ Lengths(raw) = {} \/ Encodings(raw) = {}
         /\ \A n \in Lengths(raw) : LengthHolds(body, n)
         /\ read.ok
      THEN [ok |-> TRUE, status |-> raw[1][2], body |-> read.body]
      ELSE Lost

\* post, once the connection has ended or the deadline has passed.
Post(raw, closed) ==
  IF closed /\ Len(raw) <= MaxResponse THEN ParseResponse(raw) ELSE Lost

-----------------------------------------------------------------------------
(* The responses of a gateway that keeps to HTTP.                            *)
Chunk(data) == <<<<"size", Len(data)>>, Eol>> \o data \o <<Eol>>

Framed(status, body, framing) ==
  LET lead == <<<<"status", status>>, Eol>>
  IN  CASE framing = "length"  -> lead \o <<<<"length", Len(body)>>, Eol, Eol>> \o body
        [] framing = "close"   -> lead \o <<Eol>> \o body
        [] framing = "chunked" ->
             lead \o <<<<"encoding", "chunked">>, Eol, Eol>>
               \o Chunk(SubSeq(body, 1, Len(body) \div 2))
               \o Chunk(SubSeq(body, Len(body) \div 2 + 1, Len(body)))
               \o <<<<"size", 0>>, Eol, Eol>>
=============================================================================
