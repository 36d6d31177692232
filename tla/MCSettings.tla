----------------------------- MODULE MCSettings -----------------------------
EXTENDS Settings

MCSymmetry == Permutations(KeyPairs) \union Permutations(ConnectionNames)

\* Gmail comes before VK, as their ids do.  At a later start Gmail is of another
\* version.
Entry(id, api) == [id |-> id, api |-> api, wellFormed |-> TRUE, loadable |-> TRUE]
MCDirectories ==
  { [schema |-> TRUE, entries |-> {Entry("gmail", "1"), Entry("vk", "1")}],
    [schema |-> TRUE, entries |-> {Entry("gmail", "2"), Entry("vk", "1")}] }

MCForms(p) ==
  CASE p = "gmail" -> {[login |-> "me", pass |-> "code"]}
    [] p = "vk"    -> {[fragment |-> [user_id |-> i, access_token |-> "t"]] : i \in {"1", "2"}}

MCTokens == "code" :> "token"

MCTypedAddresses == {[form |-> "mail", text |-> "a"], [form |-> "id", text |-> "7"]}
MCSenders == {[form |-> "digits", text |-> "7"]}

\* A key is one character here, and what a name with a hyphen makes of it is
\* none.
MCGoodKeys == {<<"k">>}
MCKeys == {<<"k">>, <<"bad">>}
MCContents == {DiscoverContent(<<"a", "-", "b">>, <<"k">>), <<"a">>}
=============================================================================
