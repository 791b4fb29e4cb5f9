SPECIFICATION Spec
CONSTANTS
  d1 = d1
  t1 = t1
  todo = todo
  done = done
  other = other
  Tabs = {tabA}
  Scripts = {script}
  Ids = {d1, t1}
  DefaultIds <- MCDefaultIds
  Statuses = {todo, done, other}
  Columns <- MCColumns
  ScriptForms <- MCScriptForms
  None = None
INVARIANTS TypeOK NoDuplicates
PROPERTIES PutFollowsForm DropIsKept CardsComeAndGoByName RenderShowsEach AtomicUnlessOvertaken
