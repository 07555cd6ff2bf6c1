------------------------------- MODULE MCDeps -------------------------------
(* Instances of Deps for TLC. *)
EXTENDS Deps

NoDebs == [debs |-> {}, snap |-> NoSnap, pip_pkgs |-> {}]
MirTestTools == [NoDebs EXCEPT !.snap = "mir-test-tools"]
DemoServer == [NoDebs EXCEPT !.debs = {"mir-test-tools", "mir-graphics-drivers-desktop"}]
Robot == [NoDebs EXCEPT !.debs = {"mir-test-tools"}, !.pip_pkgs = {"rpaframework"}]

\* Like test_drag_and_drop, whose marks are those of the class and of the parameter,
\* test_app_can_run with a deb, and a test of its own that asks for nothing but a server.
TestMarks == <<<<MirTestTools, Robot>>, <<DemoServer>>, <<>>>>
TestServer == <<<<>>, <<MirTestTools>>, <<DemoServer>>>>
TestXdg == <<{"XDG_CONFIG_HOME"}, {}, {}>>
TestEnv == <<<<[v \in {"XDG_CONFIG_HOME"} |-> "near"], [v \in {"GSETTINGS_BACKEND"} |-> "far"]>>,
             <<[v \in {"GSETTINGS_BACKEND"} |-> "near"], [v \in {"GSETTINGS_BACKEND"} |-> "far"]>>,
             <<>>>>
=============================================================================
