SPECIFICATION MCSpec
CONSTANTS
  slide = slide
  box = box
  doc = doc
  html = html
  main = main
  intro = intro
  quote = quote
  leaf = leaf
  Slide = slide
  Elements = {slide, box}
  Home <- MCHome
  Settings <- MCSettings
INVARIANTS OneAtATime SizeComesBack AnswersMeant
PROPERTIES PromiseAfterAll ComesToRest
CHECK_DEADLOCK FALSE
