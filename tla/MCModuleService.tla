-------------------------- MODULE MCModuleService --------------------------
\* ModuleService with one or two resources, two addresses and two models, one
\* of them not registered.
EXTENDS ModuleService

OneKey == {<<"a">>}
TwoKeys == {<<"a">>, <<"b">>}

OneModel == {"known"}
TwoModels == {"known", "unknown"}
=============================================================================
