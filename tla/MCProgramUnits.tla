--------------------------- MODULE MCProgramUnits ---------------------------
EXTENDS ProgramUnits, TLC

\* Audit, its verification, one change, its verification by two gates, the
\* second of which the run's own ledger has to pass, and the closeout.
Plain == [kinds    |-> <<"audit", "verification", "execution", "verification", "closeout">>,
          units    |-> <<"a", "g", "x", "h", "c">>,
          waveOf   |-> [a |-> 1, g |-> 2, x |-> 3, h |-> 4, c |-> 5],
          gates    |-> <<"p", "q", "r">>,
          gateWave |-> [p |-> 2, q |-> 4, r |-> 4],
          owner    |-> [p |-> "g", q |-> "h", r |-> "h"],
          outer    |-> {"r"},
          needs    |-> [a |-> {}, g |-> {"a"}, x |-> {"g"}, h |-> {"x"}, c |-> {"h"}],
          writes   |-> [a |-> {"notes"}, g |-> {}, x |-> {"src"}, h |-> {}, c |-> {"notes"}],
          final    |-> {}]

\* Another plan: its change is irreversible.
Irreversible == [Plain EXCEPT !.final = {"x"}]

\* Not plans: the change does not wait for the audit; nobody owns a gate.
Hasty == [Plain EXCEPT !.needs["x"] = {}]
Unowned == [Plain EXCEPT !.owner["q"] = "c"]

MCManifest == [plain |-> Plain, irreversible |-> Irreversible,
               hasty |-> Hasty, unowned |-> Unowned]
MCRunGates == <<"r">>
MCAreas == {"src", "notes"}

=============================================================================
