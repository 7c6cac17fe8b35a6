----------------------------- MODULE KnownHosts -----------------------------
(***************************************************************************)
(* What the known_hosts files say about a host key                         *)
(* (mai-core/src/ssh/hostkey.rs).                                          *)
(*                                                                         *)
(* A line is what its patterns apply to: `yes` are the names that some     *)
(* pattern (or the hash) matches, `no` those a negated pattern matches.  A *)
(* line that cannot be parsed applies to no name.  A name stands for what  *)
(* host_name makes of host and port.  Which file and line a refusal        *)
(* reports is left out.                                                    *)
(***************************************************************************)
EXTENDS Naturals, Sequences

CONSTANTS
  Names,      \* hosts
  Algs,       \* key algorithms
  KeyIds      \* keys of one algorithm

Key == [alg : Algs, id : KeyIds]
Line == [yes : SUBSET Names, no : SUBSET Names, marker : {"none", "revoked", "ca"}, key : Key]

\* `ended`: the file is empty or ends with a newline.
File == [there : BOOLEAN, readable : BOOLEAN, lines : Seq(Line), ended : BOOLEAN]

Missing == [there |-> FALSE, readable |-> FALSE, lines |-> <<>>, ended |-> TRUE]

host_matches(line, name) == name \in line.yes /\ name \notin line.no

\* Lines that apply to the name and carry the marker.
Lines(lines, name, marker) ==
  {i \in DOMAIN lines : host_matches(lines[i], name) /\ lines[i].marker = marker}

\* FileVerdict.
scan(lines, name, key) ==
  [known   |-> \E i \in Lines(lines, name, "none") : lines[i].key = key,
   changed |-> \E i \in Lines(lines, name, "none") :
                 lines[i].key # key /\ lines[i].key.alg = key.alg,
   revoked |-> \E i \in Lines(lines, name, "revoked") : lines[i].key = key]

Statuses == {"Known", "Unknown", "Changed", "Revoked", "Unreadable"}

\* The files are read in order; the first that cannot be read, or that
\* revokes the key, decides.
check(fs, name, key) ==
  LET Says(f) == scan(fs[f].lines, name, key)
      seen == {f \in DOMAIN fs : fs[f].there}
      Decides(f) == ~fs[f].readable \/ Says(f).revoked
      first == {f \in seen : Decides(f) /\ \A g \in seen : g < f => ~Decides(g)}
  IN CASE \E f \in first : ~fs[f].readable -> "Unreadable"
       [] \E f \in first : fs[f].readable  -> "Revoked"
       [] OTHER -> IF \E f \in seen : Says(f).changed THEN "Changed"
                   ELSE IF \E f \in seen : Says(f).known THEN "Known" ELSE "Unknown"

\* The line learn writes.
Learned(name, key) == [yes |-> {name}, no |-> {}, marker |-> "none", key |-> key]

\* A line appended behind one without a newline spoils both.
Appended(file, line, newline) ==
  LET n == Len(file.lines)
      whole == newline \/ file.ended
      spoilt == [file.lines[n] EXCEPT !.yes = {}]
  IN [there |-> TRUE, readable |-> TRUE, ended |-> TRUE,
      lines |-> IF whole THEN Append(file.lines, line)
                         ELSE [file.lines EXCEPT ![n] = spoilt]]
=============================================================================
