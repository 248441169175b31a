-------------------------- MODULE MCSpecification --------------------------
(* A specification with two statements that link it to two more modules, a    *)
(* file imported with and without a type, and what cannot be bundled.         *)
EXTENDS Specification

Bombadil == Import("bombadil", NoType, {})
Q == {"q"}
Default == {"default"}

SpecLinks ==
    {Import("props", NoType, Q), ExportAll("props", NoType),
     ExportAll("lib", NoType), Reexport("props", NoType, Q),
     Import("words", "text", Default), Declare("title", "extractor")}
SpecOddities ==
    {Require("stub"), Import("config", NoType, Default),
     Import("words", NoType, Default), Import("words", "json", Default),
     Import("config", "binary", Default), Import("absent", NoType, {}),
     Reexport("lib", NoType, {"absent"}), Broken}
PropsLinks ==
    {Bombadil, ExportAll("lib", NoType), Reexport("lib", NoType, {"p"}),
     Import("words", "text", Default), Import("words", "binary", Default),
     Import("spec", NoType, {"p"})}

SpecOf(links) ==
    <<Bombadil>> \o links
      \o <<ExportDeclared("p", "formula"), ExportDeclared("g", "generator")>>
PropsOf(link) ==
    <<link, Bombadil, ExportDefault("other"), Declare("url", "extractor"),
      Declare("q", "formula"), ExportNames(Q)>>
Lib ==
    <<Bombadil, ExportDeclared("q", "formula"), ExportDeclared("p", "formula")>>

Runtimes == <<ExportDeclared("extract", "other")>>
Files3(spec, props, lib) ==
    [m \in {"spec", "props", "lib", "bombadil"} |->
        CASE m = "spec" -> spec [] m = "props" -> props
          [] m = "lib" -> lib [] m = "bombadil" -> Runtimes]

MCPrograms ==
    {Files3(SpecOf(links), PropsOf(link), Lib) :
        links \in {<<a, b>> \in SpecLinks \X SpecLinks : a # b},
        link \in PropsLinks}
    \cup {Files3(SpecOf(<<odd, Import("props", NoType, Q)>>),
                 PropsOf(Import("words", "text", Default)), Lib) :
            odd \in SpecOddities}
    \cup {Files3(<<ExportAll("lib", NoType)>>, PropsOf(Bombadil),
                 <<ExportDeclared("q", "generator")>>),
          Files3(<<Bombadil, ExportDeclared("p", "formula")>>,
                 PropsOf(Bombadil), Lib)}

(* The user puts an extractor first, or reexports what the specification also *)
(* imports, which the bundle does not survive.                                *)
MCEdits(program1) ==
    {[program1 EXCEPT !["spec"] = <<first>> \o @] :
        first \in {Declare("first", "extractor")}
                    \cup IF Import("props", NoType, Q) \in Links(program1["spec"])
                         THEN {Reexport("props", NoType, Q)} ELSE {}}

MCSorted(keys) ==
    SelectSeq(<<"bombadil", "config", "lib", "props", "spec", "words", "stub">>,
              LAMBDA key : key \in keys)
MCExtension(file) == IF file = "config" THEN "json" ELSE "other"
MCDecodes(file, type) == file = "words" => type # "json"
=============================================================================
