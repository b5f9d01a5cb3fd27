------------------------------- MODULE MCDemo -------------------------------
EXTENDS Demo

\* The waiting caller and the command, and the content clients.
mc_Present == {{"wait", "cmd"}, {"content"}}

mc_Uploads == {"u1", "u2"}
mc_Downloads == {"d1"}

\* Two documents and a blank one between them; one the service refuses before
\* another; one that is not YAML; one in which reading fails.
mc_YAMLs == {
    <<"api", "resource", "---", "blank", "---", "api", "resource">>,
    <<"api", "refused", "---", "api", "resource">>,
    <<"api", "resource", "---", "api", "junk">>,
    <<"api", "resource", "long", "api">>}
=============================================================================
