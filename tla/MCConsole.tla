----------------------------- MODULE MCConsole -----------------------------
EXTENDS Console

MCFilters == {[search |-> Requests, status |-> None], [search |-> {1}, status |-> "COMPLETED"]}

MCFiles == {<<"alice", "", "bob", "alice", "">>, <<"bob", " ", "bob">>}
=============================================================================
