------------------------------ MODULE TokenFile ------------------------------
(***************************************************************************)
(* The token file of signerserver/signerserver.go: what saveTokenData      *)
(* leaves on the disk and what New reads back.                             *)
(*                                                                         *)
(* A document is the JSON text of one session.  Its bytes are abstracted   *)
(* to s.size cells, each labelled with the session s the text came from;   *)
(* a file is a sequence of such cells.  Two things of the code matter      *)
(* here: the file is opened with O_WRONLY and without O_TRUNC, so a write  *)
(* overwrites a prefix and leaves the rest of the older text where it is;  *)
(* and New decodes with a json.Decoder, which stops after the first value  *)
(* and never looks at what follows it.                                     *)
(***************************************************************************)
EXTENDS Naturals, Sequences

(* What json.NewEncoder(file).Encode(s.tokenData) hands to the file in one *)
(* Write.                                                                  *)
Document(s) == [i \in 1..s.size |-> s]

(* A bug: the file opened with O_APPEND. *)
Append_Overwrite(f, s, n) == f \o SubSeq(Document(s), 1, n)

(* The file after the first n cells of s's document have reached it.       *)
Overwrite(f, s, n) ==
  [i \in 1..(IF n > Len(f) THEN n ELSE Len(f)) |-> IF i <= n THEN s ELSE f[i]]

(* The first JSON value of f is the whole document of s.                   *)
StartsWith(f, s) == s.size <= Len(f) /\ \A i \in 1..s.size : f[i] = s

(* A bug: the file read as a whole, by json.Unmarshal. *)
Whole_DecodeFails(f) == f = << >> \/ f # Document(f[1])

DecodeFails(f) == f = << >> \/ ~ StartsWith(f, f[1])

(* f ends, or another document begins, before the first one is complete.   *)
Spliced(f) == \E i \in 1..Len(f) : f[i] # f[1]

(* A text spliced from two documents may still parse: the strings of one   *)
(* end in the other, and the tokens read are ones nobody ever issued.      *)
(* Epoch 0 stands for them; the service issues epochs from 1 on.           *)
Garbled(s) == [s EXCEPT !.epoch = 0]

(* The sessions json.Decoder may yield from f.  A document cut short by    *)
(* the end of the file yields none.                                        *)
Loadable(f) ==
  IF ~ DecodeFails(f) THEN {f[1]}
  ELSE IF Spliced(f)  THEN {f[i] : i \in 1..Len(f)} \cup {Garbled(f[i]) : i \in 1..Len(f)}
  ELSE {}

(* The file yields s and nothing else. *)
Holds(f, s) == ~ DecodeFails(f) /\ Loadable(f) = {s}
=============================================================================
