-------------------------- MODULE MCVaultBackends --------------------------
EXTENDS VaultBackends

Names == {"notes", "sub", "a.md"}
MCPaths == {<<>>} \cup UNION {[1..n -> Names] : n \in 1..3}
MCFileCalls == {<<"notes", "a.md">>, <<"notes">>,
                <<"notes", "sub", "a.md">>, <<"sub", "", "a.md">>}
MCDirCalls == {<<"", "notes">>, <<"notes", "a.md">>, <<"sub", "notes">>, <<>>}
MCMatching == {"a.md"}
=============================================================================
