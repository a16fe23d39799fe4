----------------------------- MODULE ProjectDomain -----------------------------
(***************************************************************************)
(* The project domain.  The files below a directory are listed and         *)
(* classified by their paths; then the manifests are read, one after the   *)
(* other and some of them three times: for the roles of a project, for its *)
(* versions and for the scripts it offers.  Somebody may edit a manifest   *)
(* between two of these readings.                                          *)
(*                                                                         *)
(* A file is [marks, depth, pruned, kind, text]: the patterns of the rule  *)
(* table that its path matches, how deep it is, whether a directory on the *)
(* way is one that is never entered, and what its text says.               *)
(***************************************************************************)
EXTENDS Integers, Sequences, FiniteSets, FiniteSetsExt, SequencesExt

CONSTANTS
    Projects,        \* the directories a command may find
    ProjectAsks,     \* the commands
    MaxProjectEdits  \* edits of manifests while a command runs

VARIABLES
    project,         \* [root, files]: "dir", "file" or "absent", and file -> its record
    projectAsk,      \* [cmd, limit]
    projectPc,       \* "root", "enrich", "versions", "scripts", "done"
    candidates,      \* the files, in the order of the walk
    groups,          \* the detected files, in order: [file, group, kind]
    known,           \* [ecosystems, tools, roles]
    unread,          \* what is still to be read at this stage
    versions,        \* the versions found
    scripts,         \* the scripts found
    commands,        \* the suggestions
    projectCut,      \* "truncated"
    projectCode,     \* "none", "ok" or the error
    projectPast,     \* every state of the directory while the command ran
    projectEdits

projectVars == <<project, projectAsk, projectPc, candidates, groups, known, unread, versions, scripts,
                 commands, projectCut, projectCode, projectPast, projectEdits>>

Files == DOMAIN project.files
At(f) == project.files[f]

Refuse(error) ==
    /\ projectPc' = "done" /\ projectCode' = error
    /\ UNCHANGED <<project, projectAsk, candidates, groups, known, unread, versions, scripts, commands,
                   projectCut, projectPast, projectEdits>>

-----------------------------------------------------------------------------
(***************************************************************************)
(* The two tables of the project domain: which files mean what, and which  *)
(* commands an ecosystem or a tool suggests.  A pattern is a name          *)
(* ("go.mod"), the end or beginning of one ("*.tf", "dockerfile.*"), a     *)
(* path ("/settings.gradle"), the beginning of one ("/ios/*") or a part of *)
(* one ("*codeql*"); all of them are about the path in lower case.         *)
(***************************************************************************)

groupedAs(group, kind, ecosystem, tool, role) ==
    [group |-> group, kind |-> kind, ecosystem |-> ecosystem, tool |-> tool, role |-> role]
package(kind, ecosystem, tool) == groupedAs("package", kind, ecosystem, tool, "source")
lock(kind, ecosystem, tool) == groupedAs("lock", kind, ecosystem, tool, "source")
ci(kind, tool) == groupedAs("ci", kind, "none", tool, "ci")
deploy(kind, ecosystem, tool, role) == groupedAs("deploy", kind, ecosystem, tool, role)
config(kind, ecosystem, tool) == groupedAs("config", kind, ecosystem, tool, "source")

\* When::Any is a set of patterns, When::All a conjunction of such sets.
rule(any, detection) == [when |-> {any}, detection |-> detection]
both(one, other, detection) == [when |-> {one, other}, detection |-> detection]

\* Manifests of the languages.
LanguageRules == <<
    rule({"cargo.toml"}, package("cargo", "rust", "cargo")),
    rule({"package.json"}, package("npm", "node", "npm")),
    rule({"pyproject.toml"}, package("python", "python", "python")),
    rule({"go.mod"}, package("go", "go", "go")),
    rule({"pom.xml"}, package("maven", "java-maven", "maven")),
    rule({"build.gradle", "build.gradle.kts"}, package("gradle", "java-gradle", "gradle")),
    rule({"composer.json"}, package("composer", "php", "composer")),
    rule({"gemfile"}, package("bundler", "ruby", "bundler")),
    rule({"mix.exs"}, package("mix", "elixir", "mix")),
    rule({"pubspec.yaml"}, package("pub", "dart", "pub")),
    rule({"package.swift"}, package("swiftpm", "swift", "swift")),
    rule({"build.sbt"}, groupedAs("package", "sbt", "scala", "sbt", "backend")),
    rule({"deps.edn"}, groupedAs("package", "clojure-deps", "clojure", "clojure", "backend")),
    rule({"project.clj"}, groupedAs("package", "leiningen", "clojure", "leiningen", "backend")),
    rule({"stack.yaml"}, package("stack", "haskell", "stack")),
    rule({"cabal.project"}, package("cabal-project", "haskell", "cabal")),
    rule({"dune-project"}, package("dune", "ocaml", "dune")),
    rule({"project.toml"}, groupedAs("package", "julia-project", "julia", "julia", "data-science")),
    rule({"manifest.toml"}, lock("julia-manifest", "julia", "julia")),
    rule({"description"}, groupedAs("package", "r-package", "r", "r", "data-science")),
    rule({"renv.lock"}, lock("renv-lock", "r", "renv")),
    rule({"rebar.config"}, groupedAs("package", "rebar", "erlang", "rebar3", "backend")),
    rule({"shard.yml"}, groupedAs("package", "shards", "crystal", "shards", "backend")),
    rule({"rockspec"}, package("luarocks", "lua", "luarocks")),
    rule({"cpanfile"}, package("cpanfile", "perl", "cpanm")),
    rule({"cmakelists.txt"}, package("cmake", "cpp", "cmake")),
    rule({"meson.build"}, package("meson", "cpp", "meson")),
    rule({"build.zig"}, package("zig", "zig", "zig")),
    rule({"platformio.ini"}, groupedAs("package", "platformio", "embedded", "platformio", "embedded")),
    rule({"sketch.yaml"}, groupedAs("config", "arduino-sketch", "embedded", "arduino", "embedded")),
    rule({"workspace", "workspace.bazel", "module.bazel"}, package("bazel", "bazel", "bazel"))>>

\* Build tools and lock files.
LockRules == <<
    rule({"makefile"}, package("make", "make", "make")),
    rule({"conanfile.txt", "conanfile.py"}, package("conan", "cpp", "conan")),
    rule({"vcpkg.json"}, package("vcpkg", "cpp", "vcpkg")),
    rule({"flake.nix"}, package("nix-flake", "nix", "nix")),
    rule({"shell.nix"}, package("nix-shell", "nix", "nix")),
    rule({"cargo.lock"}, lock("cargo-lock", "rust", "cargo")),
    rule({"package-lock.json"}, lock("package-lock", "node", "npm")),
    rule({"pnpm-lock.yaml"}, lock("pnpm-lock", "node", "pnpm")),
    rule({"yarn.lock"}, lock("yarn-lock", "node", "yarn")),
    rule({"bun.lock", "bun.lockb"}, lock("bun-lock", "node", "bun")),
    rule({"uv.lock"}, lock("uv-lock", "python", "uv")),
    rule({"poetry.lock"}, lock("poetry-lock", "python", "poetry")),
    rule({"composer.lock"}, lock("composer-lock", "php", "composer")),
    rule({"gemfile.lock"}, lock("gemfile-lock", "ruby", "bundler")),
    rule({"mix.lock"}, lock("mix-lock", "elixir", "mix")),
    rule({"pubspec.lock"}, lock("pubspec-lock", "dart", "pub")),
    rule({"go.sum"}, lock("go-sum", "go", "go")),
    rule({"packages.lock.json"}, lock("dotnet-lock", "dotnet", "dotnet")),
    rule({"shard.lock"}, lock("shard-lock", "crystal", "shards"))>>

\* Documents, containers and deployment.
DeployRules == <<
    rule({"readme.md", "readme"}, groupedAs("docs", "readme", "none", "none", "docs")),
    rule({"changelog.md", "changes.md", "history.md"},
         groupedAs("changelog", "changelog", "none", "none", "docs")),
    rule({"dockerfile"}, deploy("dockerfile", "docker", "docker", "container")),
    rule({"docker-compose.yml", "docker-compose.yaml", "compose.yml", "compose.yaml"},
         deploy("compose", "docker", "docker-compose", "container")),
    rule({"chart.yaml"}, deploy("helm-chart", "helm", "helm", "deploy")),
    rule({"kustomization.yaml", "kustomization.yml"},
         deploy("kustomize", "kubernetes", "kustomize", "deploy")),
    rule({"pulumi.yaml"}, groupedAs("infra", "pulumi", "pulumi", "pulumi", "cloud")),
    rule({"serverless.yml", "serverless.yaml"},
         groupedAs("deploy", "serverless", "serverless", "serverless", "cloud")),
    rule({"template.yml", "template.yaml"}, groupedAs("deploy", "aws-sam", "aws-sam", "sam", "cloud")),
    rule({"cdk.json"}, groupedAs("infra", "aws-cdk", "aws-cdk", "cdk", "cloud")),
    rule({"skaffold.yaml", "skaffold.yml"}, deploy("skaffold", "kubernetes", "skaffold", "deploy")),
    rule({"tiltfile"}, deploy("tilt", "kubernetes", "tilt", "deploy"))>>

\* Mobile, backend and game projects.
AppRules == <<
    rule({"appfile", "fastfile"}, groupedAs("config", "fastlane", "mobile", "fastlane", "mobile")),
    rule({"podfile"}, groupedAs("package", "cocoapods", "ios", "cocoapods", "mobile")),
    rule({"cartfile"}, groupedAs("package", "carthage", "ios", "carthage", "mobile")),
    rule({"sfdx-project.json"}, groupedAs("package", "salesforce", "salesforce", "sfdx", "backend")),
    rule({"manage.py"}, groupedAs("config", "django", "python", "django", "backend")),
    rule({"artisan"}, groupedAs("config", "laravel", "php", "laravel", "backend")),
    rule({"phoenix"}, groupedAs("config", "phoenix", "elixir", "phoenix", "backend")),
    rule({"application.properties", "application.yml", "application.yaml"},
         groupedAs("config", "spring-boot", "java", "spring-boot", "backend")),
    rule({"docker-compose.override.yml", "docker-compose.override.yaml"},
         deploy("compose", "docker", "docker-compose", "container")),
    both({"projectversion.txt"}, {"/projectsettings/*"},
         groupedAs("config", "unity-project", "unity", "unity", "game"))>>

\* Quality and security tools.
QualityRules == <<
    rule({"renovate.json", ".renovaterc", ".renovaterc.json"},
         groupedAs("quality", "renovate", "none", "renovate", "quality")),
    rule({"dependabot.yml", "dependabot.yaml"},
         groupedAs("quality", "dependabot", "none", "dependabot", "quality")),
    rule({".pre-commit-config.yaml", ".pre-commit-config.yml"},
         groupedAs("quality", "pre-commit", "none", "pre-commit", "quality")),
    rule({"lefthook.yml", "lefthook.yaml"}, groupedAs("quality", "lefthook", "none", "lefthook", "quality")),
    rule({".eslintrc", ".eslintrc.json", "eslint.config.js", "eslint.config.mjs", "eslint.config.ts"},
         groupedAs("quality", "eslint", "node", "eslint", "quality")),
    rule({".prettierrc", ".prettierrc.json", "prettier.config.js", "prettier.config.mjs"},
         groupedAs("quality", "prettier", "node", "prettier", "quality")),
    rule({"ruff.toml", ".ruff.toml"}, groupedAs("quality", "ruff", "python", "ruff", "quality")),
    rule({"phpstan.neon", "psalm.xml", "rubocop.yml", ".rubocop.yml"},
         groupedAs("quality", "static-analysis", "none", "none", "quality")),
    rule({"semgrep.yml", "semgrep.yaml", ".semgrep.yml", ".semgrep.yaml"},
         groupedAs("security", "semgrep", "none", "semgrep", "security")),
    rule({".trivyignore", "trivy.yaml", "trivy.yml"},
         groupedAs("security", "trivy", "none", "trivy", "security"))>>

\* CI services, web configurations and documentation sites.
SiteRules == <<
    rule({".gitlab-ci.yml", ".gitlab-ci.yaml"}, ci("gitlab-ci", "gitlab-ci")),
    rule({"azure-pipelines.yml", "azure-pipelines.yaml"}, ci("azure-pipelines", "azure-pipelines")),
    rule({"jenkinsfile"}, ci("jenkins", "jenkins")),
    rule({".drone.yml", ".drone.yaml"}, ci("drone", "drone")),
    rule({".woodpecker.yml", ".woodpecker.yaml"}, ci("woodpecker", "woodpecker")),
    rule({"tsconfig.json"}, config("tsconfig", "node", "typescript")),
    rule({"vite.config.js", "vite.config.ts", "vite.config.mjs"},
         groupedAs("config", "vite", "node", "vite", "web")),
    rule({"next.config.js", "next.config.mjs", "next.config.ts"},
         groupedAs("config", "next", "node", "next", "web")),
    rule({"astro.config.mjs", "astro.config.js", "astro.config.ts"},
         groupedAs("config", "astro", "node", "astro", "web")),
    rule({"hugo.toml", "hugo.yaml", "config.toml", "config.yaml"},
         groupedAs("docs", "static-site-config", "none", "none", "docs")),
    rule({"mkdocs.yml", "mkdocs.yaml"}, groupedAs("docs", "mkdocs", "python", "mkdocs", "docs")),
    rule({"docusaurus.config.js", "docusaurus.config.ts"},
         groupedAs("docs", "docusaurus", "node", "docusaurus", "docs")),
    both({"conf.py"}, {"*docs/*", "*doc/*"}, groupedAs("docs", "sphinx", "python", "sphinx", "docs"))>>

\* Files told by the end or the beginning of their names.
SuffixRules == <<
    rule({"*.csproj"}, package("dotnet", "dotnet", "dotnet")),
    rule({"*.gemspec"}, package("gemspec", "ruby", "rubygems")),
    rule({"*.cabal"}, package("cabal", "haskell", "cabal")),
    rule({"*.opam"}, package("opam", "ocaml", "opam")),
    rule({"*.rockspec"}, package("luarocks", "lua", "luarocks")),
    rule({"makefile.pl", "build.pl", "meta.json", "meta.yml", "meta6.json"},
         package("perl-meta", "perl", "perl")),
    rule({"*.ipynb"}, groupedAs("package", "jupyter-notebook", "jupyter", "jupyter", "data-science")),
    rule({"*.xcodeproj", "*.xcworkspace"}, groupedAs("config", "xcode", "ios", "xcodebuild", "mobile")),
    rule({"*.uproject", "*.uplugin"}, groupedAs("config", "unreal", "unreal", "unreal", "game")),
    rule({"*.nomad"}, groupedAs("infra", "nomad", "nomad", "nomad", "infra")),
    rule({"*.tofu"}, groupedAs("infra", "opentofu", "opentofu", "tofu", "infra")),
    rule({"dockerfile.*"}, deploy("dockerfile", "docker", "docker", "container")),
    rule({"*.tf"}, groupedAs("infra", "terraform", "terraform", "terraform", "infra")),
    rule({"*.tfvars"}, groupedAs("infra", "terraform-vars", "terraform", "terraform", "infra")),
    both({"*.gradle", "*.gradle.kts"}, {"*android*", "/settings.gradle", "/settings.gradle.kts"},
         groupedAs("config", "android-gradle", "android", "gradle", "mobile"))>>

\* Files told by where they are.
PathRules == <<
    rule({"androidmanifest.xml"}, groupedAs("config", "android-manifest", "android", "android", "mobile")),
    rule({"/src-tauri/*"}, groupedAs("config", "tauri", "tauri", "tauri", "desktop")),
    rule({"/ios/*", "/android/*"}, groupedAs("config", "mobile-project", "mobile", "none", "mobile")),
    rule({"/.github/workflows/*"}, ci("github-actions", "github-actions")),
    both({"/.github/workflows/*"}, {"*codeql*"},
         groupedAs("security", "codeql", "none", "codeql", "security")),
    rule({"/.circleci/config.yml", "/.circleci/config.yaml"}, ci("circleci", "circleci")),
    rule({"/.buildkite/*"}, ci("buildkite", "buildkite")),
    rule({"/.fluxcd/*", "*gotk-components*"}, deploy("flux", "kubernetes", "flux", "deploy")),
    rule({"*argocd*", "*argo-cd*"}, deploy("argo-cd", "kubernetes", "argocd", "deploy")),
    rule({"/roles/*", "*/roles/*"}, groupedAs("infra", "ansible-role", "ansible", "ansible", "infra")),
    rule({"playbook.yml", "playbook.yaml", "site.yml", "site.yaml"},
         groupedAs("infra", "ansible-playbook", "ansible", "ansible", "infra"))>>

RULES == LanguageRules \o LockRules \o DeployRules \o AppRules \o QualityRules \o SiteRules
         \o SuffixRules \o PathRules

\* When::matches: marks are the patterns that a file's path and name match.
Matches(r, marks) == \A any \in r.when : any \cap marks # {}

\* classify_file: every rule whose condition holds, in the order of the table.
classify_file(marks) ==
    LET rules == SelectSeq(RULES, LAMBDA r : Matches(r, marks))
    IN [i \in DOMAIN rules |-> rules[i].detection]

-----------------------------------------------------------------------------
(* Suggestions.  The branches without a list, node, python and dart,       *)
(* depend on the tools as well.                                            *)

suggested(kind, command, confidence) == [kind |-> kind, command |-> command, confidence |-> confidence]
branch(on, needs, gives) == [on |-> on, needs |-> needs, gives |-> gives]

LanguageBranches == <<
    branch("ecosystem", "rust", <<suggested("format_check", "cargo fmt --all -- --check", "high"),
        suggested("test", "cargo test --workspace --all-targets --locked", "high"),
        suggested("build", "cargo build --locked", "high"),
        suggested("release_build", "cargo build --release --locked", "high")>>),
    branch("ecosystem", "node", <<>>),
    branch("ecosystem", "dotnet", <<suggested("restore", "dotnet restore", "medium"),
        suggested("test", "dotnet test", "medium"), suggested("build", "dotnet build", "medium")>>),
    branch("ecosystem", "python", <<>>),
    branch("ecosystem", "go", <<suggested("test", "go test ./...", "high"),
        suggested("build", "go build ./...", "high")>>),
    branch("ecosystem", "java-maven", <<suggested("test", "mvn test", "medium"),
        suggested("build", "mvn package", "medium")>>),
    branch("ecosystem", "java-gradle", <<suggested("test", "gradle test", "medium"),
        suggested("build", "gradle build", "medium")>>),
    branch("ecosystem", "php", <<suggested("install", "composer install", "medium"),
        suggested("test", "composer test", "low")>>),
    branch("ecosystem", "ruby", <<suggested("install", "bundle install", "medium"),
        suggested("test", "bundle exec rspec", "low")>>),
    branch("ecosystem", "elixir", <<suggested("deps", "mix deps.get", "medium"),
        suggested("test", "mix test", "medium")>>),
    branch("ecosystem", "dart", <<>>),
    branch("ecosystem", "swift", <<suggested("test", "swift test", "medium"),
        suggested("build", "swift build", "medium")>>),
    branch("ecosystem", "scala", <<suggested("test", "sbt test", "medium")>>)>>

ToolBranches == <<
    branch("tool", "clojure", <<suggested("test", "clojure -X:test", "low")>>),
    branch("tool", "leiningen", <<suggested("test", "lein test", "medium")>>),
    branch("tool", "stack", <<suggested("test", "stack test", "medium")>>),
    branch("tool", "cabal", <<suggested("test", "cabal test all", "medium"),
        suggested("build", "cabal build all", "medium")>>),
    branch("tool", "dune", <<suggested("test", "dune runtest", "medium"),
        suggested("build", "dune build", "medium")>>),
    branch("ecosystem", "julia", <<suggested("test", "julia --project=. -e using Pkg; Pkg.test()", "medium")>>),
    branch("ecosystem", "r", <<suggested("test", "Rscript -e devtools::test()", "low")>>),
    branch("tool", "zig", <<suggested("test", "zig build test", "medium"),
        suggested("build", "zig build", "medium")>>),
    branch("tool", "platformio", <<suggested("build", "pio run", "medium"),
        suggested("test", "pio test", "low")>>),
    branch("tool", "meson", <<suggested("configure", "meson setup build", "medium"),
        suggested("test", "meson test -C build", "medium")>>),
    branch("tool", "bazel", <<suggested("test", "bazel test //...", "medium"),
        suggested("build", "bazel build //...", "medium")>>),
    branch("tool", "cmake", <<suggested("configure", "cmake -S . -B build", "medium"),
        suggested("build", "cmake --build build", "medium"),
        suggested("test", "ctest --test-dir build", "low")>>),
    branch("tool", "make", <<suggested("build", "make", "low"), suggested("test", "make test", "low")>>)>>

InfraBranches == <<
    branch("tool", "terraform", <<suggested("init", "terraform init", "medium"),
        suggested("validate", "terraform validate", "medium"),
        suggested("plan", "terraform plan", "low")>>),
    branch("tool", "docker", <<suggested("container_build", "docker build -t app .", "low")>>),
    branch("tool", "docker-compose", <<suggested("compose_config", "docker compose config", "medium")>>),
    branch("tool", "pulumi", <<suggested("preview", "pulumi preview", "medium")>>),
    branch("tool", "tofu", <<suggested("init", "tofu init", "medium"),
        suggested("plan", "tofu plan", "low")>>),
    branch("tool", "nomad", <<suggested("validate", "nomad job validate", "low")>>),
    branch("tool", "pre-commit", <<suggested("quality", "pre-commit run --all-files", "medium")>>),
    branch("tool", "semgrep", <<suggested("security", "semgrep scan", "medium")>>),
    branch("tool", "trivy", <<suggested("security", "trivy fs .", "medium")>>)>>

Branches == LanguageBranches \o ToolBranches \o InfraBranches

-----------------------------------------------------------------------------
(* detect_project: the root, the walk and the rules.                       *)

\* collect_project_files: at most four levels; the directory itself is subject to the names
\* that are never entered, too.  The walk has no order of its own.
Collected(f) == At(f).kind = "file" /\ At(f).depth <= 4 /\ ~At(f).pruned /\ ~project.unentered
Orders(S) == {s \in [1..Cardinality(S) -> S] : IsInjective(s)}

\* push_detected_file, push_unique_file: a file once per group and kind.
push_detected_file(s, e) == IF e \in Range(s) THEN s ELSE Append(s, e)
Detections(walk) ==
    FlattenSeq([i \in DOMAIN walk |->
      LET d == classify_file(At(walk[i]).marks)
      IN [j \in DOMAIN d |-> [file |-> walk[i], group |-> d[j].group, kind |-> d[j].kind, says |-> d[j]]]])
Grouped(ds) == FoldLeft(LAMBDA s, d : push_detected_file(s, [file |-> d.file, group |-> d.group, kind |-> d.kind]),
                        <<>>, ds)
Named(ds, part) == {ds[i].says[part] : i \in DOMAIN ds} \ {"none"}

InGroup(g) == SelectSeq(groups, LAMBDA e : e.group = g)

\* enrich_project reads the pubspec files and the package.json files among the packages.
ToEnrich(gs) == SelectSeq(gs, LAMBDA e : e.group = "package" /\ e.kind \in {"pub", "npm"})

Walk ==
    /\ projectPc = "root"
    /\ IF project.root # "dir" THEN Refuse("invalid_argument")
       ELSE \E walk \in Orders({f \in Files : Collected(f)}) :
              LET ds == Detections(walk)
              IN /\ candidates' = walk /\ groups' = Grouped(ds) /\ unread' = ToEnrich(Grouped(ds))
                 /\ known' = [ecosystems |-> Named(ds, "ecosystem"), tools |-> Named(ds, "tool"),
                              roles |-> Named(ds, "role")]
                 /\ projectPc' = "enrich"
                 /\ UNCHANGED <<project, projectAsk, versions, scripts, commands, projectCut, projectCode,
                                projectPast, projectEdits>>

-----------------------------------------------------------------------------
(* Reading a manifest: it must still be there, be UTF-8 and, where it is   *)
(* JSON, be well formed.  One that is not fails the whole command.         *)

IsJson(kind) == kind \in {"npm", "composer"}
ReadError(f, kind) ==
    CASE At(f).kind # "file" \/ At(f).text.form = "binary" -> "file_read"
      [] At(f).kind = "file" /\ At(f).text.form = "malformed" /\ IsJson(kind) -> "json_deserialization"
      [] OTHER -> "none"
Reading(stage) == projectPc = stage /\ unread # <<>>

\* enrich_package_json_roles: what a dependency says about the project.
Web == {"next", "vite", "astro", "react", "vue", "svelte"}
Backend == {"express", "fastify", "@nestjs/core", "nestjs"}
QualityTools == {"playwright", "@playwright/test", "cypress", "vitest", "jest", "eslint", "prettier"}
Means(dep) ==
    LET says(e, t, r) == [ecosystems |-> e, tools |-> {t}, roles |-> {r}]
    IN CASE dep \in Web -> says({}, dep, "web")
         [] dep \in {"docusaurus", "@docusaurus/core"} -> says({}, "docusaurus", "docs")
         [] dep \in Backend -> says({}, dep, "backend")
         [] dep \in {"react-native", "expo"} -> says({"mobile"}, dep, "mobile")
         [] dep = "electron" -> says({"electron"}, dep, "desktop")
         [] dep \in {"@tauri-apps/cli", "@tauri-apps/api"} -> says({"tauri"}, "tauri", "desktop")
         [] dep \in QualityTools -> says({}, dep, "quality")
         [] dep = "semgrep" -> says({}, dep, "security")
         [] OTHER -> [ecosystems |-> {}, tools |-> {}, roles |-> {}]
Nothing == [ecosystems |-> {}, tools |-> {}, roles |-> {}]
Flutter == [ecosystems |-> {"flutter"}, tools |-> {"flutter"}, roles |-> {"app"}]
Joined(S) == [part \in {"ecosystems", "tools", "roles"} |-> UNION {m[part] : m \in S}]

TellsMore(e) ==
    IF e.kind = "pub" THEN (IF At(e.file).text.flutter THEN Flutter ELSE Nothing)
    ELSE Joined({Means(d) : d \in At(e.file).text.deps})

Enrich ==
    /\ Reading("enrich")
    /\ LET e == unread[1]
           error == ReadError(e.file, e.kind)
       IN IF error # "none" THEN Refuse(error)
          ELSE /\ known' = Joined({known, TellsMore(e)}) /\ unread' = Tail(unread)
               /\ UNCHANGED <<project, projectAsk, projectPc, candidates, groups, versions, scripts, commands,
                              projectCut, projectCode, projectPast, projectEdits>>

\* The end of enrich_project: what the groups say as a whole.
RolesOfGroups ==
    (IF Len(InGroup("package")) > 1 THEN {"monorepo"} ELSE {})
    \cup {r \in {"deploy", "infra", "quality", "security"} : InGroup(r) # <<>>}

\* detect_versions: the parser of a file follows from its name.
Parsers == <<<<"cargo.toml", "cargo">>, <<"package.json", "npm">>, <<"composer.json", "composer">>,
             <<"pyproject.toml", "python">>, <<"pubspec.yaml", "pub">>, <<"mix.exs", "mix">>,
             <<"pom.xml", "maven">>, <<"build.gradle", "gradle">>, <<"build.gradle.kts", "gradle">>,
             <<"*.gemspec", "gemspec">>, <<"*.csproj", "dotnet">>>>
ParserOf(f) ==
    LET fits == SelectSeq(Parsers, LAMBDA p : p[1] \in At(f).marks)
    IN IF fits = <<>> THEN "none" ELSE fits[1][2]

Enriched ==
    /\ projectPc = "enrich" /\ unread = <<>>
    /\ known' = [known EXCEPT !.roles = @ \cup RolesOfGroups]
    /\ projectPc' = "versions"
    /\ unread' = SelectSeq(candidates, LAMBDA f : ParserOf(f) # "none")
    /\ UNCHANGED <<project, projectAsk, candidates, groups, versions, scripts, commands, projectCut, projectCode,
                   projectPast, projectEdits>>

\* parse_toml_section_values: the last value of the key in the section; an empty one does not count.
parse_toml_section_values(lines, section) ==
    LET step(s, l) ==
          CASE l[1] = "section" -> [s EXCEPT !.in = l[2] = section]
            [] l[1] = "pair" /\ s.in /\ l[2] = "version" /\ l[3] # "" -> [s EXCEPT !.version = l[3]]
            [] OTHER -> s
    IN FoldLeft(step, [in |-> FALSE, version |-> "none"], lines).version

\* The other formats are not parsed but looked through.  Their text has the lines, tags or
\* assignments with a version, <<"version", whose, value>>: the project's "own", or that of another
\* (a dependency, the parent of a pom).
VersionLines(text) == SelectSeq(text.lines, LAMBDA l : l[1] = "version")
\* parse_pubspec_version: any line of the file, however deep; the last one stays.
parse_pubspec_version(text) == IF VersionLines(text) = <<>> THEN "none" ELSE Last(VersionLines(text))[3]
\* capture_xml_tag and the patterns of the assignments: the first that is not empty.
FirstVersion(text) ==
    LET given == SelectSeq(VersionLines(text), LAMBDA l : l[3] # "") IN IF given = <<>> THEN "none" ELSE given[1][3]

ParsedVersion(kind, text) ==
    CASE kind = "cargo" -> parse_toml_section_values(text.lines, "package")
      [] kind = "python" -> parse_toml_section_values(text.lines, "project")
      [] kind = "pub" -> parse_pubspec_version(text)
      [] IsJson(kind) -> text.version
      [] kind \in {"maven", "dotnet", "gradle", "mix", "gemspec"} -> FirstVersion(text)

ReadVersion ==
    /\ Reading("versions")
    /\ LET f == unread[1]
           kind == ParserOf(f)
           error == ReadError(f, kind)
           version == ParsedVersion(kind, At(f).text)
       IN IF error # "none" THEN Refuse(error)
          ELSE /\ versions' = IF version = "none" THEN versions
                              ELSE Append(versions, [kind |-> kind, file |-> f, version |-> version])
               /\ unread' = Tail(unread)
               /\ UNCHANGED <<project, projectAsk, projectPc, candidates, groups, known, scripts, commands,
                              projectCut, projectCode, projectPast, projectEdits>>

VersionsRead ==
    /\ projectPc = "versions" /\ unread = <<>> /\ projectPc' = "scripts"
    /\ unread' = IF "node" \in known.ecosystems
                 THEN SelectSeq(groups, LAMBDA e : e.group = "package" /\ e.kind = "npm") ELSE <<>>
    /\ UNCHANGED <<project, projectAsk, candidates, groups, known, versions, scripts, commands, projectCut,
                   projectCode, projectPast, projectEdits>>

-----------------------------------------------------------------------------
(* suggest_commands.                                                       *)

\* add_node_script_commands: the scripts of all manifests.
ReadScripts ==
    /\ Reading("scripts")
    /\ LET e == unread[1]
           error == ReadError(e.file, e.kind)
       IN IF error # "none" THEN Refuse(error)
          ELSE /\ scripts' = scripts \cup At(e.file).text.scripts /\ unread' = Tail(unread)
               /\ UNCHANGED <<project, projectAsk, projectPc, candidates, groups, known, versions, commands,
                              projectCut, projectCode, projectPast, projectEdits>>

node_package_manager(tools) ==
    CASE "bun" \in tools -> "bun"
      [] "bun" \notin tools /\ "pnpm" \in tools -> "pnpm"
      [] {"bun", "pnpm"} \cap tools = {} /\ "yarn" \in tools -> "yarn"
      [] {"bun", "pnpm", "yarn"} \cap tools = {} -> "npm"
\* node_install_command, node_script_command: a command of the model is <<program, argument>>.
NodeCommands(tools, found) ==
    LET manager == node_package_manager(tools)
        asked == SelectSeq(<<"test", "build", "lint", "format">>, LAMBDA s : s \in found)
        Offer(s, confidence) == suggested(s, <<manager, s>>, confidence)
    IN <<suggested("install", <<manager, "install">>, "medium")>>
       \o [i \in DOMAIN asked |-> Offer(asked[i], "medium")]
       \o IF found = {} THEN <<Offer("test", "low"), Offer("build", "low")>> ELSE <<>>

python_runner(tools) ==
    IF "uv" \in tools THEN "uv" ELSE IF "poetry" \in tools THEN "poetry" ELSE "pytest"

Holds(b, k) == b.needs \in (IF b.on = "ecosystem" THEN k.ecosystems ELSE k.tools)
Gives(b, k, found) ==
    CASE b.needs = "node" -> NodeCommands(k.tools, found)
      [] b.needs = "python" -> <<suggested("test", <<python_runner(k.tools), "pytest">>, "low")>>
      [] b.needs = "dart" -> <<suggested("test", <<IF "flutter" \in k.tools THEN "flutter" ELSE "dart", "test">>, "medium")>>
      [] b.needs \notin {"node", "python", "dart"} ->
           [i \in DOMAIN b.gives |-> [b.gives[i] EXCEPT !.command = <<@>>]]

\* deduplicate_commands: the first of those with one kind and command.
SameCommand(a, b) == a.kind = b.kind /\ a.command = b.command
deduplicate_commands(s) ==
    FoldLeft(LAMBDA r, c : IF \E i \in DOMAIN r : SameCommand(r[i], c) THEN r ELSE Append(r, c), <<>>, s)

suggest_commands(k, found) ==
    LET holding == SelectSeq(Branches, LAMBDA b : Holds(b, k))
    IN deduplicate_commands(FlattenSeq([i \in DOMAIN holding |-> Gives(holding[i], k, found)]))

\* run_detect, run_commands, run_version.
Suggest ==
    /\ projectPc = "scripts" /\ unread = <<>>
    /\ commands' = suggest_commands(known, scripts)
    /\ IF projectAsk.cmd = "version"
       THEN /\ versions' = SubSeq(versions, 1, Min({Len(versions), projectAsk.limit}))
            /\ projectCut' = (Len(versions) > projectAsk.limit)
       ELSE UNCHANGED <<versions, projectCut>>
    /\ projectPc' = "done" /\ projectCode' = "ok"
    /\ UNCHANGED <<project, projectAsk, candidates, groups, known, unread, scripts, projectPast, projectEdits>>

-----------------------------------------------------------------------------
(* Others: a manifest goes, is being written, or offers something else.    *)

EditManifest ==
    /\ projectPc \in {"enrich", "versions", "scripts"} /\ projectEdits < MaxProjectEdits
    /\ \E f \in {f \in Files : At(f).kind = "file"} :
         project' \in {[project EXCEPT !.files[f].kind = "gone"],
                       [project EXCEPT !.files[f].text.form = "malformed"],
                       [project EXCEPT !.files[f].text.scripts = {"lint"}, !.files[f].text.deps = {"react"},
                                       !.files[f].text.version = "2", !.files[f].text.lines = <<<<"version", "own", "2">>>>]}
    /\ projectEdits' = projectEdits + 1 /\ projectPast' = projectPast \cup {project'}
    /\ UNCHANGED <<projectAsk, projectPc, candidates, groups, known, unread, versions, scripts, commands,
                   projectCut, projectCode>>

ProjectInit ==
    /\ project \in Projects /\ projectAsk \in ProjectAsks /\ projectPc = "root" /\ candidates = <<>>
    /\ groups = <<>> /\ known = Nothing /\ unread = <<>> /\ versions = <<>> /\ scripts = {}
    /\ commands = <<>> /\ projectCut = FALSE /\ projectCode = "none" /\ projectPast = {project}
    /\ projectEdits = 0
ProjectAnswered == projectPc = "done" /\ UNCHANGED projectVars
ProjectNext ==
    \/ Walk \/ Enrich \/ Enriched \/ ReadVersion \/ VersionsRead \/ ReadScripts \/ Suggest
    \/ EditManifest \/ ProjectAnswered
ProjectSpec == ProjectInit /\ [][ProjectNext]_projectVars

-----------------------------------------------------------------------------
(* What the answers promise.                                               *)

Below == {f \in Files : Collected(f)}
Said(part) == {RULES[i].detection[part] : i \in {i \in DOMAIN RULES : \E f \in Below : Matches(RULES[i], At(f).marks)}}

\* What is detected depends on the files alone, not on the order in which the walk met them.
DetectionExact ==
    projectEdits = 0 =>
      /\ Said("ecosystem") \ {"none"} \subseteq known.ecosystems
      /\ Said("tool") \ {"none"} \subseteq known.tools
      /\ known.ecosystems \subseteq Said("ecosystem") \cup {"mobile", "electron", "tauri", "flutter"}
      /\ IsInjective(groups)
      /\ {e.file : e \in Range(groups)} = {f \in Below : \E i \in DOMAIN RULES : Matches(RULES[i], At(f).marks)}

\* A script is suggested with confidence only if a manifest of the project offers it, and all
\* suggestions for node are for one package manager, whose lock file is there if it is not npm.
ScriptsReal ==
    \A i \in DOMAIN commands :
      LET c == commands[i]
          node == {"bun", "pnpm", "yarn", "npm"}
      IN /\ c.command[1] \in node /\ c.kind # "install" /\ c.confidence = "medium" =>
              \E p \in projectPast, f \in DOMAIN project.files :
                "package.json" \in p.files[f].marks /\ c.kind \in p.files[f].text.scripts
         /\ c.command[1] \in node => /\ c.command[1] \in known.tools \cup {"npm"}
                                     /\ \A j \in DOMAIN commands : commands[j].command[1] \in node =>
                                          commands[j].command[1] = c.command[1]
         /\ \A j \in DOMAIN commands : SameCommand(commands[j], c) => i = j

\* A version is one that its manifest declared at some moment: in the section of the package itself
\* (TOML), at the top (JSON), or somewhere.  There it is the project's own if the project has one and
\* no other version is on the wrong side of it: after it in a pubspec, before it elsewhere.
Declares(p, v) ==
    LET t == p.files[v.file].text
        opened(i) == CHOOSE s \in {j \in 1..i : t.lines[j][1] = "section"} :
                       \A j \in 1..i : t.lines[j][1] = "section" => j <= s
        section == IF v.kind = "cargo" THEN "package" ELSE "project"
        Own(i) == i \in DOMAIN t.lines /\ t.lines[i][1] = "version" /\ t.lines[i][2] = "own" /\ t.lines[i][3] # ""
        Hidden(i) == \E j \in DOMAIN t.lines : t.lines[j][1] = "version" /\ IF v.kind = "pub" THEN j > i ELSE j < i
    IN CASE IsJson(v.kind) -> t.version = v.version
         [] v.kind \in {"cargo", "python"} ->
              \E i \in DOMAIN t.lines : /\ t.lines[i] = <<"pair", "version", v.version>>
                                        /\ \E j \in 1..i : t.lines[j][1] = "section"
                                        /\ t.lines[opened(i)][2] = section
         [] ~IsJson(v.kind) /\ v.kind \notin {"cargo", "python"} ->
              /\ \E i \in DOMAIN t.lines : t.lines[i][1] = "version" /\ t.lines[i][3] = v.version
              /\ \A i \in DOMAIN t.lines : Own(i) /\ ~Hidden(i) => v.version = t.lines[i][3]
VersionsReal ==
    /\ \A i \in DOMAIN versions : \E p \in projectPast : Declares(p, versions[i])
    /\ \A i, j \in DOMAIN versions : versions[i].file = versions[j].file => i = j
    /\ projectAsk.cmd = "version" => Len(versions) <= projectAsk.limit
    /\ projectCut => Len(versions) = projectAsk.limit

\* The answer of a project command says of the directory what its files say, however the walk met
\* them: every recognised file is in it once, a suggested script is a real one, a version is one that
\* the manifest has, and the project's own unless the manifest has another where its own is looked
\* for, although manifests are read three times and may change in between.
ProjectSound ==
    projectPc = "done" /\ projectCode = "ok" => DetectionExact /\ ScriptsReal /\ VersionsReal
==============================================================================
