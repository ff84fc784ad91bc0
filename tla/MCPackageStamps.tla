--------------------------- MODULE MCPackageStamps ---------------------------
(* A host tool, a library that needs it, and an application with a source    *)
(* directory of its own that needs both: every way to install and to get     *)
(* sources occurs, and one package is needed along two paths.                *)
EXTENDS PackageStamps

MCPkg == {"tool", "lib", "app"}

MCDeps(p) ==
    CASE p = "app" -> <<"lib", "tool">>
      [] p = "lib" -> <<"tool">>
      [] OTHER -> <<>>

MCInstalls(p) ==
    CASE p = "app" -> {"target", "images"}
      [] p = "lib" -> {"staging", "target"}
      [] OTHER -> {"host"}

MCOverride == {"app"}

\* What a user may ask for.  <pkg>-clean is asked of packages without images.
MCGoals ==
    {<<"install", "app">>, <<"rebuild", "app">>, <<"reconfigure", "app">>,
     <<"dircleaned", "app">>, <<"install", "lib">>, <<"rebuild", "lib">>,
     <<"clean", "lib">>, <<"dircleaned", "tool">>}

CleanGoals == {<<"install", "lib">>, <<"clean", "lib">>}

HandGoals == {"install"} \X {"lib", "app"}

Steps == Step \cup {"uninstalled"}
=============================================================================
